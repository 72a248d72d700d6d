----------------------------- MODULE Publisher -----------------------------
(***************************************************************************)
(* The publishing engine (apps/publisher/engine.py).  A PublishEngine      *)
(* polls the PlatformPost table, claims the due rows of each post, calls   *)
(* the platform for every claimed row in a thread of its own, and writes   *)
(* the outcome back; in the same cycle it walks the rows whose retry time  *)
(* has come.  Several engines may run on one database: the background      *)
(* worker and the run_publisher command, or two workers during a deploy.   *)
(*                                                                         *)
(* Every database statement is a step of its own.  A thread works on the   *)
(* instance it loaded, and platform_post.save() writes that instance back  *)
(* whole, so thr[e][p] carries the columns as they were loaded.            *)
(*                                                                         *)
(* Times are ticks 1 .. MaxNow of a shared clock and 0 is NULL.            *)
(***************************************************************************)
EXTENDS Integers, Sequences, FiniteSets

CONSTANTS PP,              \* the PlatformPost rows
          Posts,           \* the Post rows
          ParentOf,        \* PlatformPost.post
          Engines,         \* the running PublishEngines
          HasFirstComment, \* rows with a comment text on a supporting account
          MAX_RETRIES,
          RETRY_BACKOFF,   \* delays, in ticks
          MAX_CONCURRENT_PUBLISHES

CONSTANTS MaxNow,          \* bound: the last tick
          MaxCrashes,      \* bound: worker processes that die
          MaxFaults,       \* bound: database statements that raise
          MaxLost          \* bound: platform calls that deliver but raise

ASSUME PublisherAssumption ==
  /\ ParentOf \in [PP -> Posts]
  /\ HasFirstComment \subseteq PP
  /\ MAX_RETRIES \in Nat
  /\ RETRY_BACKOFF \in Seq(Nat) /\ RETRY_BACKOFF # <<>>
  /\ MAX_CONCURRENT_PUBLISHES \in Nat
  /\ MaxNow \in Nat \ {0}
  /\ MaxCrashes \in Nat /\ MaxFaults \in Nat /\ MaxLost \in Nat

VARIABLES
  row,        \* the PlatformPost table
  postSched,  \* Post.scheduled_at
  postPubAt,  \* Post.published_at
  now,        \* timezone.now()
  mode,       \* where poll_and_publish of each engine is
  thr,        \* per engine and row: the thread (or loop turn) working on it
  tasks,      \* queued _post_first_comment_task's, per row
  logs,       \* PublishLog.attempt_number's, per row, in insertion order
  attempts,   \* history: dispatches, per row
  live,       \* history: posts that exist on the platform, per row
  commentRuns,\* history: first-comment tasks that have run, per row
  spent       \* how many crashes, faults and lost replies have happened

tables == <<row, postSched, postPubAt>>
ghosts == <<attempts, live, commentRuns>>
vars == <<row, postSched, postPubAt, now, mode, thr, tasks, logs,
          attempts, live, commentRuns, spent>>

-----------------------------------------------------------------------------
(* Types                                                                   *)

Times == 0 .. MaxNow

Status == {"draft", "pending_review", "pending_client", "approved",
           "changes_requested", "rejected", "scheduled", "publishing",
           "published", "failed"}

Row == [status : Status, sched : Times, retry : Nat, next : Nat, pubAt : Times]

\* Where a thread is in _publish_platform_post and in the code around it.
Waiting == {"listed", "queued"}
Working == {"call", "saveOk", "logOk", "logErr", "saveErr"}
Ended   == {"success", "failure"}
Pcs     == {"idle", "sync", "refresh"} \union Waiting \union Working \union Ended

Thread == [pc : Pcs, sched : Times, retry : Nat, next : Nat, pubAt : Times,
           postPubAt : Times, latest : Times, retryable : BOOLEAN]

Idle == [pc |-> "idle", sched |-> 0, retry |-> 0, next |-> 0, pubAt |-> 0,
         postPubAt |-> 0, latest |-> 0, retryable |-> FALSE]

Faults == [crash : 0 .. MaxCrashes, db : 0 .. MaxFaults, lost : 0 .. MaxLost]

TypeOK ==
  /\ row \in [PP -> Row]
  /\ postSched \in [Posts -> Times] /\ postPubAt \in [Posts -> Times]
  /\ now \in 1 .. MaxNow
  /\ mode \in [Engines -> {"idle", "polling", "retrying"}]
  /\ thr \in [Engines -> [PP -> Thread]]
  /\ tasks \in [PP -> Nat] /\ logs \in [PP -> Seq(Nat)]
  /\ attempts \in [PP -> Nat] /\ live \in [PP -> Nat] /\ commentRuns \in [PP -> Nat]
  /\ spent \in Faults

-----------------------------------------------------------------------------
(* Queries and helpers                                                     *)

PlatformPosts(q) == {p \in PP : ParentOf[p] = q}

\* Coalesce(scheduled_at, post__scheduled_at)
EffectiveAt(p) == IF row[p].sched # 0 THEN row[p].sched ELSE postSched[ParentOf[p]]

Due(p) == /\ row[p].status = "scheduled"
          /\ EffectiveAt(p) # 0 /\ EffectiveAt(p) <= now

\* Mutant: the status filter of the retry query is missing.
RetryDueAnyStatus(p) == /\ row[p].retry > 0 /\ row[p].retry <= MAX_RETRIES
                        /\ row[p].next # 0 /\ row[p].next <= now

RetryDue(p) == /\ row[p].status = "scheduled"
               /\ row[p].retry > 0 /\ row[p].retry <= MAX_RETRIES
               /\ row[p].next # 0 /\ row[p].next <= now

\* The rows of _get_due_platform_posts: the earliest ones, at most the limit.
DueBatch(B) ==
  LET D == {p \in PP : Due(p)} IN
  /\ B \subseteq D
  /\ Cardinality(B) = IF Cardinality(D) < MAX_CONCURRENT_PUBLISHES
                      THEN Cardinality(D) ELSE MAX_CONCURRENT_PUBLISHES
  /\ \A b \in B, d \in D \ B : EffectiveAt(b) <= EffectiveAt(d)

\* The model instance of row p, as a query issued now would load it.
Load(p, pc) ==
  [pc |-> pc, sched |-> row[p].sched, retry |-> row[p].retry, next |-> row[p].next,
   pubAt |-> row[p].pubAt, postPubAt |-> postPubAt[ParentOf[p]], latest |-> 0,
   retryable |-> FALSE]

\* platform_post.save(): every column of the instance t, with the status set.
FullSave(p, t, s) ==
  row' = [row EXCEPT ![p] = [status |-> s, sched |-> t.sched, retry |-> t.retry,
                             next |-> t.next, pubAt |-> t.pubAt]]

Step(e, p, t) == thr' = [thr EXCEPT ![e][p] = t]
Goto(e, p, pc) == Step(e, p, [thr[e][p] EXCEPT !.pc = pc])

\* The children that engine e is handling as one group of post q.
Group(e, q) == {p \in PlatformPosts(q) : thr[e][p].pc \notin {"idle", "queued"}}

\* Mutant: some published_at instead of the largest.
AnyPubAt(q) == CHOOSE t \in {row[p].pubAt : p \in PlatformPosts(q)} \union {0} : TRUE

\* max(pp.published_at for the children of q), 0 when none was published.
LatestPubAt(q) ==
  CHOOSE t \in {row[p].pubAt : p \in PlatformPosts(q)} \union {0} :
    \A p \in PlatformPosts(q) : row[p].pubAt <= t

\* The threads G of engine e all take a step, each to its value of t.
StepAll(e, G, t) ==
  thr' = [thr EXCEPT ![e] = [p \in PP |-> IF p \in G THEN t[p] ELSE thr[e][p]]]

-----------------------------------------------------------------------------
(* poll_and_publish                                                        *)

Init ==
  /\ \E sched \in [PP -> Times] :
       /\ row = [p \in PP |-> [status |-> "scheduled", sched |-> sched[p],
                               retry |-> 0, next |-> 0, pubAt |-> 0]]
       /\ postSched \in [Posts -> Times]
       /\ \A q \in Posts : \A p \in PlatformPosts(q) :
            sched[p] # 0 => /\ postSched[q] # 0 /\ postSched[q] <= sched[p]
                            /\ \E c \in PlatformPosts(q) : sched[c] = postSched[q]
  /\ postPubAt = [q \in Posts |-> 0]
  /\ now = 1
  /\ mode = [e \in Engines |-> "idle"]
  /\ thr = [e \in Engines |-> [p \in PP |-> Idle]]
  /\ tasks = [p \in PP |-> 0] /\ logs = [p \in PP |-> <<>>]
  /\ attempts = [p \in PP |-> 0] /\ live = [p \in PP |-> 0]
  /\ commentRuns = [p \in PP |-> 0]
  /\ spent = [crash |-> 0, db |-> 0, lost |-> 0]

\* A cycle starts with the list of due rows, grouped by post.
Poll(e) ==
  /\ mode[e] = "idle"
  /\ mode' = [mode EXCEPT ![e] = "polling"]
  /\ \E B \in SUBSET PP :
       /\ DueBatch(B)
       /\ StepAll(e, B, [p \in B |-> [Idle EXCEPT !.pc = "listed",
                                                  !.postPubAt = postPubAt[ParentOf[p]]]])
  /\ UNCHANGED <<tables, now, tasks, logs, ghosts, spent>>

\* Mutant: the status is not checked again under the row lock.
ClaimUnchecked(e, q) ==
  LET L == {p \in PlatformPosts(q) : thr[e][p].pc = "listed"} IN
  /\ L # {}
  /\ row' = [p \in PP |-> IF p \in L THEN [row[p] EXCEPT !.status = "publishing"]
                          ELSE row[p]]
  /\ StepAll(e, L, [p \in L |-> Load(p, "call")])
  /\ UNCHANGED <<postSched, postPubAt, now, mode, tasks, logs, ghosts, spent>>

\* The transaction of _publish_post_group: the listed rows of q that are still
\* scheduled are locked, reloaded and set to publishing; the others are dropped.
ClaimGroup(e, q) ==
  LET L == {p \in PlatformPosts(q) : thr[e][p].pc = "listed"}
      C == {p \in L : row[p].status = "scheduled"} IN
  /\ L # {}
  /\ row' = [p \in PP |-> IF p \in C THEN [row[p] EXCEPT !.status = "publishing"]
                          ELSE row[p]]
  /\ StepAll(e, L, [p \in L |->
       IF p \in C THEN [Load(p, "call") EXCEPT !.postPubAt = thr[e][p].postPubAt]
       ELSE Idle])
  /\ UNCHANGED <<postSched, postPubAt, now, mode, tasks, logs, ghosts, spent>>

\* After the groups, _process_retries reads the rows whose retry is due.
ListRetries(e) ==
  /\ mode[e] = "polling"
  /\ \A p \in PP : thr[e][p].pc = "idle"
  /\ mode' = [mode EXCEPT ![e] = "retrying"]
  /\ StepAll(e, {p \in PP : RetryDue(p)},
             [p \in {r \in PP : RetryDue(r)} |-> Load(p, "queued")])
  /\ UNCHANGED <<tables, now, tasks, logs, ghosts, spent>>

\* One turn of the retry loop: save(update_fields=["status", "updated_at"]).
StartRetry(e, p) ==
  /\ thr[e][p].pc = "queued"
  /\ \A r \in PP : thr[e][r].pc \in {"idle", "queued"}
  /\ row' = [row EXCEPT ![p].status = "publishing"]
  /\ Goto(e, p, "call")
  /\ UNCHANGED <<postSched, postPubAt, now, mode, tasks, logs, ghosts, spent>>

EndCycle(e) ==
  /\ mode[e] = "retrying"
  /\ \A p \in PP : thr[e][p].pc = "idle"
  /\ mode' = [mode EXCEPT ![e] = "idle"]
  /\ UNCHANGED <<tables, now, thr, tasks, logs, ghosts, spent>>

-----------------------------------------------------------------------------
(* _publish_platform_post, one thread or retry turn                        *)

\* A statement of engine e raises a database error.
Fault == /\ spent.db < MaxFaults
         /\ spent' = [spent EXCEPT !.db = @ + 1]

\* _dispatch_to_provider: the platform takes the post and says so, ...
DispatchOk(e, p) ==
  /\ thr[e][p].pc = "call"
  /\ Goto(e, p, "saveOk")
  /\ attempts' = [attempts EXCEPT ![p] = @ + 1]
  /\ live' = [live EXCEPT ![p] = @ + 1]
  /\ UNCHANGED <<tables, now, mode, tasks, logs, commentRuns, spent>>

\* ... refuses it with an error that is retryable or not, ...
DispatchError(e, p) ==
  /\ thr[e][p].pc = "call"
  /\ \E again \in BOOLEAN :
       Step(e, p, [thr[e][p] EXCEPT !.pc = "logErr", !.retryable = again])
  /\ attempts' = [attempts EXCEPT ![p] = @ + 1]
  /\ UNCHANGED <<tables, now, mode, tasks, logs, live, commentRuns, spent>>

\* ... or takes it and the reply is lost (a timeout, which is retryable).
DispatchLost(e, p) ==
  /\ thr[e][p].pc = "call"
  /\ spent.lost < MaxLost
  /\ spent' = [spent EXCEPT !.lost = @ + 1]
  /\ Step(e, p, [thr[e][p] EXCEPT !.pc = "logErr", !.retryable = TRUE])
  /\ attempts' = [attempts EXCEPT ![p] = @ + 1]
  /\ live' = [live EXCEPT ![p] = @ + 1]
  /\ UNCHANGED <<tables, now, mode, tasks, logs, commentRuns>>

\* status = PUBLISHED, published_at = now, save(); an error of the save is
\* caught by the same except branch as an error of the dispatch.
SavePublished(e, p) ==
  LET t == [thr[e][p] EXCEPT !.pubAt = now] IN
  /\ thr[e][p].pc = "saveOk"
  /\ \/ /\ FullSave(p, t, "published")
        /\ Step(e, p, [t EXCEPT !.pc = "logOk"])
        /\ UNCHANGED spent
     \/ /\ Fault
        /\ Step(e, p, [t EXCEPT !.pc = "logErr", !.retryable = TRUE])
        /\ UNCHANGED row
  /\ UNCHANGED <<postSched, postPubAt, now, mode, tasks, logs, ghosts>>

\* PublishLog.objects.create after a success, inside the same try.
LogSuccess(e, p) ==
  /\ thr[e][p].pc = "logOk"
  /\ \/ /\ logs' = [logs EXCEPT ![p] = Append(@, thr[e][p].retry + 1)]
        /\ Goto(e, p, "success")
        /\ UNCHANGED spent
     \/ /\ Fault
        /\ Step(e, p, [thr[e][p] EXCEPT !.pc = "logErr", !.retryable = TRUE])
        /\ UNCHANGED logs
  /\ UNCHANGED <<tables, now, mode, tasks, ghosts>>

\* PublishLog.objects.create of the except branch; its own error escapes.
LogFailure(e, p) ==
  /\ thr[e][p].pc = "logErr"
  /\ \/ /\ logs' = [logs EXCEPT ![p] = Append(@, thr[e][p].retry + 1)]
        /\ Goto(e, p, "saveErr")
        /\ UNCHANGED spent
     \/ /\ Fault
        /\ Goto(e, p, "failure")
        /\ UNCHANGED logs
  /\ UNCHANGED <<tables, now, mode, tasks, ghosts>>

Backoff(n) ==
  RETRY_BACKOFF[IF n < Len(RETRY_BACKOFF) - 1 THEN n + 1 ELSE Len(RETRY_BACKOFF)]

\* Mutant: retry_count counts down.
RescheduledDown(t) == [t EXCEPT !.retry = @ - 1, !.next = now + Backoff(t.retry)]

\* The instance as _schedule_retry leaves it for its save().
Rescheduled(t) ==
  [t EXCEPT !.retry = @ + 1, !.next = now + Backoff(t.retry)]

\* _schedule_retry, or _fail_permanently for an error that is not retryable or
\* once the retries are used up; the save's own error escapes.
SaveOutcome(e, p) ==
  LET t == thr[e][p] IN
  /\ t.pc = "saveErr"
  /\ \/ /\ IF t.retryable /\ t.retry < MAX_RETRIES
           THEN FullSave(p, Rescheduled(t), "scheduled")
           ELSE FullSave(p, t, "failed")
        /\ UNCHANGED spent
     \/ /\ Fault
        /\ UNCHANGED row
  /\ Goto(e, p, "failure")
  /\ UNCHANGED <<postSched, postPubAt, now, mode, tasks, logs, ghosts>>

-----------------------------------------------------------------------------
(* After the threads of a group, and after a retry                         *)

\* Mutant: a group in which every attempt failed is never finished.
ReadLatestAfterSuccess(e, q) ==
  LET G == Group(e, q) IN
  /\ \E p \in G : thr[e][p].pc = "success"
  /\ \A p \in G : thr[e][p].pc \in Ended
  /\ StepAll(e, G, [p \in G |-> [thr[e][p] EXCEPT !.pc = "sync",
                                                 !.latest = LatestPubAt(q)]])
  /\ UNCHANGED <<tables, now, mode, tasks, logs, ghosts, spent>>

\* _sync_parent_published_at reads the children of q: for a group when all its
\* threads have ended, in the retry loop after a success.
ReadLatest(e, q) ==
  LET G == Group(e, q) IN
  /\ G # {}
  /\ \A p \in G : thr[e][p].pc \in Ended
  /\ mode[e] = "retrying" => \E p \in G : thr[e][p].pc = "success"
  /\ StepAll(e, G, [p \in G |-> [thr[e][p] EXCEPT !.pc = "sync",
                                                 !.latest = LatestPubAt(q)]])
  /\ UNCHANGED <<tables, now, mode, tasks, logs, ghosts, spent>>

\* ... and writes the maximum to the post, unless the instance of the post that
\* was loaded with the rows has it already.
SyncParentPublishedAt(e, q) ==
  LET G == Group(e, q) IN
  \E g \in G :
    /\ \A p \in G : thr[e][p].pc = "sync"
    /\ postPubAt' = IF thr[e][g].latest \in {0, thr[e][g].postPubAt} THEN postPubAt
                    ELSE [postPubAt EXCEPT ![q] = thr[e][g].latest]
    /\ StepAll(e, G, [p \in G |-> IF mode[e] = "polling"
                                  THEN [thr[e][p] EXCEPT !.pc = "refresh"]
                                  ELSE Idle])
    /\ UNCHANGED <<row, postSched, now, mode, tasks, logs, ghosts, spent>>

\* The retry loop does nothing more for a row that failed again.
EndFailedRetry(e, p) ==
  /\ mode[e] = "retrying"
  /\ thr[e][p].pc = "failure"
  /\ Step(e, p, Idle)
  /\ UNCHANGED <<tables, now, mode, tasks, logs, ghosts, spent>>

\* refresh_from_db of a claimed row, and its first-comment task if it is
\* published.
ScheduleFirstComment(e, p) ==
  /\ thr[e][p].pc = "refresh"
  /\ tasks' = IF row[p].status = "published" /\ p \in HasFirstComment
              THEN [tasks EXCEPT ![p] = @ + 1] ELSE tasks
  /\ Step(e, p, Idle)
  /\ UNCHANGED <<tables, now, mode, logs, ghosts, spent>>

\* _post_first_comment_task: it swallows every error, so it runs once.
RunFirstComment(p) ==
  /\ tasks[p] > 0
  /\ tasks' = [tasks EXCEPT ![p] = @ - 1]
  /\ commentRuns' = [commentRuns EXCEPT ![p] = @ + 1]
  /\ UNCHANGED <<tables, now, mode, thr, logs, attempts, live, spent>>

-----------------------------------------------------------------------------
(* The environment                                                         *)

Tick ==
  /\ now < MaxNow
  /\ now' = now + 1
  /\ UNCHANGED <<tables, mode, thr, tasks, logs, ghosts, spent>>

\* The worker process of engine e dies and a new one starts.
Crash(e) ==
  /\ spent.crash < MaxCrashes
  /\ mode[e] # "idle"
  /\ spent' = [spent EXCEPT !.crash = @ + 1]
  /\ mode' = [mode EXCEPT ![e] = "idle"]
  /\ thr' = [thr EXCEPT ![e] = [p \in PP |-> Idle]]
  /\ UNCHANGED <<tables, now, tasks, logs, ghosts>>

-----------------------------------------------------------------------------

ThreadStep(e, p) ==
  \/ DispatchOk(e, p) \/ DispatchError(e, p) \/ DispatchLost(e, p)
  \/ SavePublished(e, p) \/ LogSuccess(e, p)
  \/ LogFailure(e, p) \/ SaveOutcome(e, p)
  \/ StartRetry(e, p) \/ EndFailedRetry(e, p) \/ ScheduleFirstComment(e, p)

GroupStep(e, q) ==
  ClaimGroup(e, q) \/ ReadLatest(e, q) \/ SyncParentPublishedAt(e, q)

CycleStep(e) == Poll(e) \/ ListRetries(e) \/ EndCycle(e)

Next ==
  \/ \E e \in Engines : \/ CycleStep(e) \/ Crash(e)
                         \/ \E p \in PP : ThreadStep(e, p)
                         \/ \E q \in Posts : GroupStep(e, q)
  \/ \E p \in PP : RunFirstComment(p)
  \/ Tick

Spec == Init /\ [][Next]_vars

\* The engine's loop calls poll_and_publish forever, every thread of its pools
\* is scheduled, provider calls return (their HTTP clients have timeouts), and
\* time passes.  Nothing obliges a platform to accept a post.
Fairness ==
  /\ WF_vars(Tick)
  /\ \A e \in Engines :
       /\ WF_vars(CycleStep(e))
       /\ \A p \in PP : WF_vars(ThreadStep(e, p))
       /\ \A q \in Posts : WF_vars(GroupStep(e, q))

FairSpec == Spec /\ Fairness

-----------------------------------------------------------------------------
(* Properties                                                              *)

\* Engine e is somewhere between the claim of p and the end of its attempt.
InFlight(e, p) == thr[e][p].pc \in Working

\* The attempt of e on p has been dispatched but not logged yet.
Unlogged(e, p) == thr[e][p].pc \in {"saveOk", "logOk", "logErr"}

AllIdle == \A e \in Engines : mode[e] = "idle"

\* The first attempt of a row is claimed under a row lock, so however many
\* engines poll the table, while one of them makes the first attempt of a row
\* no other is working on it (_publish_post_group's select_for_update).
FirstAttemptExclusive ==
  \A p \in PP : \A e, f \in Engines :
    (e # f /\ InFlight(e, p) /\ thr[e][p].retry = 0) => ~InFlight(f, p)

\* What makes it inductive.  The retry loop only holds rows that have failed, ...
QueuedHaveFailed ==
  \A e \in Engines, p \in PP : thr[e][p].pc = "queued" => thr[e][p].retry > 0

\* ... a retry in hand means that the table counts one too, ...
RetriesAreCounted ==
  \A e \in Engines, p \in PP :
    (thr[e][p].pc = "queued" \/ InFlight(e, p)) /\ thr[e][p].retry > 0
      => row[p].retry > 0

\* ... and the row of a first attempt is where the claim, or the attempt's own
\* save, put it, and nobody else works on it.
FirstAttemptHoldsRow ==
  \A e \in Engines, p \in PP : InFlight(e, p) /\ thr[e][p].retry = 0 =>
    /\ row[p].retry = 0 /\ row[p].status \in {"publishing", "published"}
    /\ \A f \in Engines \ {e} : ~InFlight(f, p)

FirstAttemptInv == QueuedHaveFailed /\ RetriesAreCounted /\ FirstAttemptHoldsRow

\* A row that has never been put back for a retry is on its platform at most
\* once, however many engines run and whatever fails: every second copy comes
\* out of the retry machinery (_schedule_retry, _process_retries).
PostedOnceUnlessRetried == \A p \in PP : row[p].retry = 0 => live[p] <= 1

\* What makes it inductive: once a first attempt has reached the platform, no
\* engine can claim the row, and none is about to call the platform for it.
FirstCopyIsLast ==
  \A p \in PP : row[p].retry = 0 /\ live[p] > 0 =>
    /\ live[p] = 1
    /\ row[p].status # "scheduled"
    /\ \A e \in Engines : thr[e][p].pc # "call"

\* A row shown as publishing is being published by somebody, unless a worker
\* died or a database statement failed: nothing else takes it out of there.
PublishingHasAnOwner ==
  \A p \in PP : row[p].status = "publishing" =>
    \/ \E e \in Engines : thr[e][p].pc \in Working \ {"logOk"}
    \/ spent.crash + spent.db > 0

\* With one engine a row is dispatched at most MAX_RETRIES + 1 times, whatever
\* crashes, faults and lost replies occur (retry_count, RETRY_BACKOFF).
AttemptsBounded == \A p \in PP : attempts[p] <= MAX_RETRIES + 1

\* With one engine the platform holds at most one copy of a row's post, plus
\* one per lost reply or failed database statement.
NoDoublePost == \A p \in PP : live[p] <= 1 + spent.lost + spent.db

\* The status a user reads is the truth: a published row exists on the
\* platform, and with one engine a failed row does not, unless a reply was lost
\* or a database statement failed.
OutcomeIsTruthful ==
  \A p \in PP : /\ row[p].status = "published" => live[p] > 0 /\ row[p].pubAt # 0
                /\ row[p].status = "failed" => live[p] <= spent.lost + spent.db

\* "Log entry for every publish attempt (including retries)": with one engine
\* the log of a row numbers its attempts 1, 2, 3, ... without gap or repetition,
\* and lacks only the attempt in progress and those cut off by a crash or a
\* failed statement.
EveryAttemptIsLogged ==
  \A p \in PP :
    /\ \A i \in DOMAIN logs[p] : logs[p][i] = i
    /\ attempts[p] <= Len(logs[p]) + spent.crash + spent.db
                       + Cardinality({e \in Engines : Unlogged(e, p)})

\* Between two cycles of the only engine, Post.published_at is the latest
\* published_at of its children (_sync_parent_published_at).
ParentShowsLatest ==
  (AllIdle /\ spent.crash + spent.db = 0) =>
    \A q \in Posts :
      /\ \A p \in PlatformPosts(q) : row[p].pubAt <= postPubAt[q]
      /\ postPubAt[q] # 0 => \E p \in PlatformPosts(q) : row[p].pubAt = postPubAt[q]

\* The first-comment task of a row is queued at most once, and only for a post
\* that exists on the platform, when there is one engine and no fault.
FirstCommentAtMostOnce ==
  \A p \in PP : /\ tasks[p] + commentRuns[p] <= 1 + spent.db
                /\ tasks[p] + commentRuns[p] > 0 => live[p] > 0

\* No row reaches its platform before its scheduled time.
NeverEarly ==
  [][\A p \in PP : attempts'[p] # attempts[p] =>
       EffectiveAt(p) # 0 /\ EffectiveAt(p) <= now]_vars

\* Everything the engine does to PlatformPost.status is a step of the
\* editorial state machine, VALID_TRANSITIONS, although the engine assigns the
\* column without asking can_transition_to.
RowStatuses == [p \in PP |-> row[p].status]
Lifecycle == INSTANCE PostLifecycle WITH Children <- PP, status <- RowStatuses
FollowsStateMachine ==
  Lifecycle!Init /\ [][row' # row => [Lifecycle!Next]_RowStatuses]_vars

\* With one engine that does not crash, a row that is due is eventually
\* published or failed: older rows and rows that keep failing cannot hold the
\* batch of MAX_CONCURRENT_PUBLISHES forever.
DueIsSettled ==
  \A p \in PP : Due(p) ~> row[p].status \in {"published", "failed"}

-----------------------------------------------------------------------------
(* What the documentation says and the engine does not do                  *)

\* "next _process_retries tick picks it up once next_retry_at passes": a row is
\* not dispatched again before its backoff is over.
BackoffIsRespected ==
  [][\A p \in PP : attempts'[p] # attempts[p] => row[p].next <= now]_vars

\* What one engine leaves in the tables is what happened on the platforms.
BooksAreTrue ==
  /\ OutcomeIsTruthful /\ EveryAttemptIsLogged /\ ParentShowsLatest
  /\ FirstCommentAtMostOnce /\ AttemptsBounded /\ PublishingHasAnOwner

\* A post is sent when its time has come, along the state machine, and in the end.
PostsAreServed == NeverEarly /\ FollowsStateMachine /\ DueIsSettled
=============================================================================
