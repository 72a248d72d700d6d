-------------------------- MODULE PublisherEditors --------------------------
(***************************************************************************)
(* The publishing engine together with the people and agents who edit the  *)
(* posts it works on: the REST routes and MCP tools that re-time, cancel   *)
(* and schedule a post, the calendar's drag and drop, and the composer's   *)
(* save.  Web requests and the worker share nothing but the tables, so a   *)
(* request's objects are copies that age while the engine works.           *)
(*                                                                         *)
(* A transaction.atomic() block is one step, its commit; outside of one    *)
(* every statement is a step.  The set of selected accounts stays as it is *)
(* and the workspace asks for no approval.                                 *)
(***************************************************************************)
EXTENDS Publisher

CONSTANTS Editors,     \* web requests that run at the same time
          Kinds,       \* the edits they make
          MaxEdits,    \* bound: edits begun
          MaxSaves     \* bound: composer saves among them

ASSUME EditorsAssumption ==
  /\ Posts # {}
  /\ MaxEdits \in Nat /\ MaxSaves \in Nat

VARIABLES
  req,       \* the request of each editor
  begun,     \* edits, and composer saves, begun so far
  rearmed    \* history: per row, writes of an editor that left it scheduled

editorVars == <<req, begun, rearmed>>

-----------------------------------------------------------------------------

Edits == {"patch", "cancel", "schedule", "drag", "save"}

\* inst: the PlatformPosts the request has loaded; psched, ppub: the columns of
\* its Post; todo: rows its loop has still to visit; held: the row it is on;
\* time: the time asked for.
Request == [kind : Edits \union {"none"}, post : Posts, time : Times,
            pc : {"none", "loaded", "sync", "parent", "rows", "children", "moving"},
            inst : [PP -> Row], todo : SUBSET PP, held : SUBSET PP,
            psched : Times, ppub : Times, earliest : Times]

NoRequest == [kind |-> "none", post |-> CHOOSE q \in Posts : TRUE, time |-> 0,
              pc |-> "none", inst |-> [p \in PP |-> [status |-> "draft", sched |-> 0,
                                              retry |-> 0, next |-> 0, pubAt |-> 0]],
              todo |-> {}, held |-> {}, psched |-> 0, ppub |-> 0, earliest |-> 0]

EditorsTypeOK ==
  /\ TypeOK
  /\ req \in [Editors -> Request] /\ begun \in [edits : 0 .. MaxEdits, saves : 0 .. MaxSaves]
  /\ rearmed \in [PP -> Nat]

\* The rows R of the table, over what the request has loaded before.
Loaded(r, R) == [r EXCEPT !.inst = [p \in PP |-> IF p \in R THEN row[p] ELSE @[p]]]

\* Editor w begins an edit of post q on the rows R, which it loads.
Begin(w, kind, q, R, t) ==
  /\ req[w].kind = "none" /\ kind \in Kinds /\ begun.edits < MaxEdits
  /\ begun' = [edits |-> begun.edits + 1,
               saves |-> begun.saves + IF kind = "save" THEN 1 ELSE 0]
  /\ req' = [req EXCEPT ![w] =
       [Loaded([NoRequest EXCEPT !.kind = kind, !.post = q, !.time = t, !.pc = "loaded",
                  !.psched = postSched[q], !.ppub = postPubAt[q]], R) EXCEPT !.todo = R]]
  /\ UNCHANGED <<vars, rearmed>>

\* The rest of the engine's state, which no editor writes.
EngineOnly == <<now, mode, thr, tasks, logs, ghosts, spent>>

\* The rows R become f, written by an editor.
WriteRows(R, f) ==
  /\ row' = [p \in PP |-> IF p \in R THEN f[p] ELSE row[p]]
  /\ rearmed' = [p \in PP |-> IF p \in R /\ f[p].status = "scheduled"
                              THEN rearmed[p] + 1 ELSE rearmed[p]]

Done(w) == req' = [req EXCEPT ![w] = NoRequest]

\* The smallest scheduled_at among the children of q, 0 when none has one.
Earliest(tab, q) ==
  LET T == {tab[p].sched : p \in PlatformPosts(q)} \ {0} IN
  IF T = {} THEN 0 ELSE CHOOSE t \in T : \A u \in T : t <= u

\* sync_post_scheduled_at, for a Post instance on which scheduled_at is known.
SyncPostScheduledAt(q, known, e) ==
  postSched' = IF e = known THEN postSched ELSE [postSched EXCEPT ![q] = e]

-----------------------------------------------------------------------------
(* PATCH /posts/{id} with a scheduled_at                                   *)

EDITABLE == {"draft", "changes_requested", "rejected", "approved", "scheduled"}

IsEditable(q) ==
  Lifecycle!DerivePostStatus({row[p].status : p \in PlatformPosts(q)}) \in EDITABLE

BeginPatch(w, q, t) == IsEditable(q) /\ t # 0 /\ Begin(w, "patch", q, PlatformPosts(q), t)

\* One UPDATE re-times the children that are scheduled now; the post gets the
\* time too and is then synchronised with its children.
CommitPatch(w) ==
  LET r == req[w]
      S == {p \in PlatformPosts(r.post) : row[p].status = "scheduled"} IN
  /\ r.kind = "patch"
  /\ row' = [p \in PP |-> IF p \in S THEN [row[p] EXCEPT !.sched = r.time] ELSE row[p]]
  /\ postSched' = [postSched EXCEPT ![r.post] = Earliest(row', r.post)]
  /\ Done(w)
  /\ UNCHANGED <<postPubAt, EngineOnly, begun, rearmed>>

-----------------------------------------------------------------------------
(* POST /posts/{id}/cancel and /schedule, cancel_post and schedule_draft   *)

ChildrenIn(q, s) == {p \in PlatformPosts(q) : row[p].status = s}

BeginCancel(w, q) ==
  /\ ChildrenIn(q, "scheduled") # {}
  /\ Begin(w, "cancel", q, ChildrenIn(q, "scheduled"), 0)

BeginSchedule(w, q, t) ==
  /\ ChildrenIn(q, "draft") # {} /\ t # 0
  /\ Begin(w, "schedule", q, ChildrenIn(q, "draft"), t)

\* transition_platform_post of every loaded child, in one transaction.  The
\* transition is checked on the instance, and a child without a time of its own
\* keeps scheduled_at out of the update.
CommitTransitions(w) ==
  LET r == req[w]
      f == [p \in PP |->
             IF r.kind = "schedule"
             THEN [row[p] EXCEPT !.status = "scheduled", !.sched = r.time]
             ELSE [row[p] EXCEPT !.status = "draft",
                                 !.sched = IF r.inst[p].sched # 0 THEN 0 ELSE @]] IN
  /\ r.kind \in {"cancel", "schedule"}
  /\ WriteRows(r.todo, f)
  /\ SyncPostScheduledAt(r.post, r.psched, Earliest(row', r.post))
  /\ Done(w)
  /\ UNCHANGED <<postPubAt, EngineOnly, begun>>

-----------------------------------------------------------------------------
(* reschedule_post: dragging one chip in the calendar                      *)

BeginDrag(w, p, t) ==
  /\ row[p].status \in {"draft", "approved", "scheduled"} /\ t # 0
  /\ Begin(w, "drag", ParentOf[p], {p}, t)

\* save(update_fields=["status", "scheduled_at", "updated_at"]) ...
SaveDragged(w) ==
  LET r == req[w]
      s == [p \in PP |-> IF r.inst[p].status = "draft" THEN "scheduled"
                         ELSE r.inst[p].status] IN
  /\ r.kind = "drag" /\ r.pc = "loaded"
  /\ WriteRows(r.todo, [p \in PP |-> [row[p] EXCEPT !.status = s[p], !.sched = r.time]])
  /\ req' = [req EXCEPT ![w].pc = "sync"]
  /\ UNCHANGED <<postSched, postPubAt, EngineOnly, begun>>

\* ... then sync_post_scheduled_at: a query and, perhaps, a save.
ReadEarliest(w) ==
  /\ req[w].pc = "sync"
  /\ req' = [req EXCEPT ![w].pc = "parent", ![w].earliest = Earliest(row, req[w].post)]
  /\ UNCHANGED <<vars, begun, rearmed>>

SaveParentSched(w) ==
  /\ req[w].pc = "parent"
  /\ SyncPostScheduledAt(req[w].post, req[w].psched, req[w].earliest)
  /\ Done(w)
  /\ UNCHANGED <<row, postPubAt, EngineOnly, begun, rearmed>>

-----------------------------------------------------------------------------
(* save_post with save_draft (time 0), schedule or publish_now             *)

BeginSave(w, q, t) ==
  (t = 0 \/ t >= now) /\ begun.saves < MaxSaves /\ Begin(w, "save", q, {}, t)

\* post.save(): every column of the instance that was loaded.
SavePost(w) ==
  LET r == req[w] IN
  /\ r.kind = "save" /\ r.pc = "loaded"
  /\ postSched' = [postSched EXCEPT ![r.post] = IF r.time # 0 THEN r.time ELSE r.psched]
  /\ postPubAt' = [postPubAt EXCEPT ![r.post] = r.ppub]
  /\ req' = [req EXCEPT ![w].pc = "rows", ![w].todo = PlatformPosts(r.post)]
  /\ UNCHANGED <<row, EngineOnly, begun, rearmed>>

\* _sync_platform_posts, one account: get_or_create, which here always gets, ...
LoadChild(w, p) ==
  /\ req[w].pc = "rows" /\ p \in req[w].todo /\ req[w].held = {}
  /\ req' = [req EXCEPT ![w] = [Loaded(@, {p}) EXCEPT !.held = {p}]]
  /\ UNCHANGED <<vars, begun, rearmed>>

\* ... and pp.save(), again every column.
SaveChild(w, p) ==
  LET r == req[w] IN
  /\ r.pc = "rows" /\ p \in r.held
  /\ WriteRows({p}, r.inst)
  /\ req' = [req EXCEPT ![w].held = {}, ![w].todo = @ \ {p}]
  /\ UNCHANGED <<postSched, postPubAt, EngineOnly, begun>>

RowsSynced(r) == r.pc = "rows" /\ r.todo = {}

\* A save_draft ends here; the other two propagate the time in one UPDATE to
\* every child that is not protected, ...
EndSaveDraft(w) ==
  /\ RowsSynced(req[w]) /\ req[w].time = 0
  /\ Done(w)
  /\ UNCHANGED <<vars, begun, rearmed>>

Propagate(w) ==
  LET r == req[w]
      S == {p \in PlatformPosts(r.post) : row[p].status \notin Lifecycle!PROTECTED_STATUSES} IN
  /\ RowsSynced(r) /\ r.time # 0
  /\ row' = [p \in PP |-> IF p \in S THEN [row[p] EXCEPT !.sched = r.time] ELSE row[p]]
  /\ req' = [req EXCEPT ![w].pc = "children"]
  /\ UNCHANGED <<postSched, postPubAt, EngineOnly, begun, rearmed>>

\* ... _transition_post_children then reads all children at once ...
ListChildren(w) ==
  LET r == req[w] IN
  /\ r.pc = "children"
  /\ req' = [req EXCEPT ![w] = [Loaded(r, PlatformPosts(r.post)) EXCEPT
                                  !.pc = "moving", !.todo = PlatformPosts(r.post)]]
  /\ UNCHANGED <<vars, begun, rearmed>>

\* The children that reach scheduled, at once or by way of draft.
Schedulable(s) == /\ s # "scheduled"
                  /\ \/ Lifecycle!CanTransition(s, "scheduled")
                     \/ Lifecycle!CanTransition(s, "draft")

\* ... and saves status and published_at of those that can be scheduled.
MoveChild(w, p) ==
  LET r == req[w] IN
  /\ r.pc = "moving" /\ p \in r.todo
  /\ IF Schedulable(r.inst[p].status)
     THEN WriteRows({p}, [row EXCEPT ![p].status = "scheduled", ![p].pubAt = r.inst[p].pubAt])
     ELSE UNCHANGED <<row, rearmed>>
  /\ req' = [req EXCEPT ![w] = IF r.todo = {p} THEN NoRequest
                               ELSE [r EXCEPT !.todo = @ \ {p}]]
  /\ UNCHANGED <<postSched, postPubAt, EngineOnly, begun>>

-----------------------------------------------------------------------------

EditorStep(w) ==
  \/ \E q \in Posts :
       \/ BeginCancel(w, q)
       \/ \E t \in Times : BeginPatch(w, q, t) \/ BeginSchedule(w, q, t) \/ BeginSave(w, q, t)
  \/ \E p \in PP, t \in Times : BeginDrag(w, p, t)
  \/ CommitPatch(w) \/ CommitTransitions(w)
  \/ SaveDragged(w) \/ ReadEarliest(w) \/ SaveParentSched(w)
  \/ SavePost(w) \/ EndSaveDraft(w) \/ Propagate(w) \/ ListChildren(w)
  \/ \E p \in PP : LoadChild(w, p) \/ SaveChild(w, p) \/ MoveChild(w, p)

EditorsInit ==
  /\ Init
  /\ req = [w \in Editors |-> NoRequest] /\ begun = [edits |-> 0, saves |-> 0] /\ rearmed = [p \in PP |-> 0]

EditorsNext ==
  \/ Next /\ UNCHANGED editorVars
  \/ \E w \in Editors : EditorStep(w)

EditorsSpec == EditorsInit /\ [][EditorsNext]_<<vars, editorVars>>

-----------------------------------------------------------------------------
(* Properties                                                              *)

\* A cancellation that has been committed before the first attempt of a row is
\* honoured: _publish_post_group looks at the status again under the
\* row lock, however old its list of due rows is.
CancelledIsNotClaimed ==
  [][req' = req => \A p \in PP : row[p].status = "draft" /\ attempts[p] = 0
                                   => row'[p].status # "publishing"]_<<vars, editorVars>>

\* Whatever edits fall between the engine's reads and writes, the retry limit
\* holds per scheduling: every write of an editor that leaves a row scheduled
\* buys at most one more round of attempts, although a composer save may also
\* put an old retry_count back.
EditsBuyAttempts ==
  \A p \in PP : attempts[p] <= (MAX_RETRIES + 1) * (1 + rearmed[p])

\* A row is posted twice only if an edit has left it scheduled in between.
EditsBuyPosts == \A p \in PP : live[p] <= 1 + rearmed[p] + spent.lost + spent.db

\* A published row is history for the engine and for the re-timing route, which
\* is one UPDATE of the rows that are scheduled now: only an edit that saves
\* copies takes the row out of "published", unless an edit has left it scheduled
\* before (two old saves can mark a row published while it is sent again) or a
\* statement failed after the post was sent.
OnlySavedCopiesReopen ==
  [][\A p \in PP : row[p].status = "published" /\ row'[p].status # "published" =>
       \/ \E w \in Editors : req'[w] # req[w] /\ req[w].kind # "patch"
       \/ rearmed[p] > 0 \/ spent.db > 0]_<<vars, editorVars>>

\* "Existing rows are not touched here" (_sync_platform_posts): syncing the
\* selected accounts never changes the status of a row that exists.
SyncKeepsStatus ==
  [][\A w \in Editors : req[w].pc = "rows" /\ req'[w] # req[w] =>
       \A p \in PP : row'[p].status = row[p].status]_<<vars, editorVars>>

\* What the edits between the engine's steps can cost.
EditsAreBounded == EditorsTypeOK /\ EditsBuyAttempts /\ EditsBuyPosts

\* What neither the engine nor an edit takes away from the other.
EditsAreRespected == CancelledIsNotClaimed /\ OnlySavedCopiesReopen

-----------------------------------------------------------------------------
(* What makes them inductive with one engine                               *)

Bought(p) == (MAX_RETRIES + 1) * (1 + rearmed[p])
Excused(p) == rearmed[p] + spent.lost + spent.db

\* The platform call of row p that is about to be made.
Pending(p) == IF \E e \in Engines : thr[e][p].pc = "call" THEN 1 ELSE 0

\* No copy of a row, however old, counts more retries than there are.
RetriesBounded(p) ==
  /\ row[p].retry <= MAX_RETRIES
  /\ \A e \in Engines : thr[e][p].retry <= MAX_RETRIES
  /\ \A w \in Editors : req[w].inst[p].retry <= MAX_RETRIES

\* What a scheduled row may still cost has been bought, on top of the call that
\* is pending when an edit leaves the row scheduled under a working thread, ...
ScheduledIsPaid(p) ==
  row[p].status = "scheduled" =>
    /\ attempts[p] + Pending(p) + MAX_RETRIES + 1 - row[p].retry <= Bought(p)
    /\ live[p] + Pending(p) <= Excused(p)

\* ... and so has what an attempt in hand may, with the retries that follow it.
AttemptIsPaid(p) ==
  \A e \in Engines :
    /\ thr[e][p].pc \in {"queued", "call"} =>
         attempts[p] + MAX_RETRIES + 1 - thr[e][p].retry <= Bought(p)
    /\ thr[e][p].pc \in {"saveOk", "logOk", "logErr", "saveErr"} =>
         attempts[p] + MAX_RETRIES - thr[e][p].retry <= Bought(p)
    /\ thr[e][p].pc \in {"queued", "call", "logErr", "saveErr"} => live[p] <= Excused(p)

BudgetInv ==
  \A p \in PP : /\ RetriesBounded(p) /\ ScheduledIsPaid(p) /\ AttemptIsPaid(p)
                /\ attempts[p] <= Bought(p) /\ live[p] <= 1 + Excused(p)

\* A row that counts a retry, in any copy, has been tried.
RetryWasTried(p) ==
  \/ row[p].retry > 0
  \/ \E e \in Engines : \/ thr[e][p].retry > 0
                        \/ thr[e][p].pc \in {"queued", "saveOk", "logOk", "logErr", "saveErr"}
  \/ \E w \in Editors : req[w].inst[p].retry > 0
  => attempts[p] > 0

\* A row that was seen published is not worked on until an edit schedules it.
PublishedIsLeft(p) ==
  /\ rearmed[p] = 0 /\ spent.db = 0
  /\ row[p].status = "published" \/ \E w \in Editors : req[w].inst[p].status = "published"
  => /\ row[p].status # "scheduled"
     /\ \A e \in Engines : thr[e][p].pc \notin {"queued", "call", "saveOk", "logErr", "saveErr"}

\* Only the composer's save gets to the statements that save copies of rows.
SavesAreSaves ==
  \A w \in Editors : req[w].pc \in {"rows", "children", "moving"} => req[w].kind = "save"

RespectInv == SavesAreSaves /\ \A p \in PP : RetryWasTried(p) /\ PublishedIsLeft(p)
=============================================================================
