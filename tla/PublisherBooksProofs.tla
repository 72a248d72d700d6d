------------------------ MODULE PublisherBooksProofs ------------------------
(***************************************************************************)
(* What the tables and the platforms say of a row, for every number of     *)
(* rows and posts and whatever crashes, fails or is lost.                  *)
(*                                                                         *)
(* With any number of engines, a row that has never been put back for a    *)
(* retry is on its platform at most once.  FirstCopyIsLast rests on        *)
(* FirstAttemptInv: without it a second engine could be about to call the  *)
(* platform for a row whose first attempt has just succeeded.              *)
(*                                                                         *)
(* With one engine, what the tables say is what happened on the platforms. *)
(* BooksInv relates the status of a row to the statement its thread has    *)
(* reached, and to the copies, attempts, logs and comments there are;      *)
(* ParentsInv relates Post.published_at to the rows of the post.  From     *)
(* BooksInv it follows that the engine implements PostLifecycle; EarlyInv  *)
(* says, for any number of engines, that rows wait for their time.         *)
(*                                                                         *)
(* At the end, what a dispatch tells the engine of the platform: proved of *)
(* Dispatch, which the scripts of all clients in Providers implement.      *)
(* EndsWell and Patient say what a script looks like wherever an attempt   *)
(* is in it; WireInv and MediaInv relate what is left of it to the copies  *)
(* and the media there are.                                                *)
(***************************************************************************)
EXTENDS PublisherProofs, Dispatch, Providers, FiniteSetTheorems

-----------------------------------------------------------------------------
(* Any number of engines *)

\* No thread begins a platform call in this step.
NoNewCall == \A f \in Engines, p \in PP : thr'[f][p].pc = "call" => thr[f][p].pc = "call"

\* A step that neither posts, nor writes the table, nor begins a call.
LEMMA QuietStep ==
  ASSUME FirstCopyIsLast, UNCHANGED <<row, live>>, NoNewCall
  PROVE  FirstCopyIsLast'
  BY DEF FirstCopyIsLast, NoNewCall

\* One thread moves to a statement that is not the call.
LEMMA StepBeginsNoCall ==
  ASSUME TypeOK, NEW e \in Engines, NEW p \in PP, NEW t, Step(e, p, t), t.pc # "call"
  PROVE  NoNewCall
<1> SUFFICES ASSUME NEW f \in Engines, NEW r \in PP, thr'[f][r].pc = "call"
             PROVE  thr[f][r].pc = "call"
  BY DEF NoNewCall
<1> QED BY StepOthers

\* The threads of a group move to statements that are not the call.
LEMMA StepAllBeginsNoCall ==
  ASSUME TypeOK, NEW e \in Engines, NEW G \in SUBSET PP, NEW t, StepAll(e, G, t),
         \A p \in G : t[p].pc # "call"
  PROVE  NoNewCall
<1> SUFFICES ASSUME NEW f \in Engines, NEW r \in PP, thr'[f][r].pc = "call"
             PROVE  thr[f][r].pc = "call"
  BY DEF NoNewCall
<1>1. thr'[f][r] = IF f = e /\ r \in G THEN t[r] ELSE thr[f][r]
  BY DEF StepAll, TypeOK
<1> QED BY <1>1

\* save() of a working thread that does not schedule the row without counting a
\* retry.
LEMMA SaveKeepsCopy ==
  ASSUME TypeOK, FirstAttemptInv, FirstCopyIsLast, NEW e \in Engines, NEW p \in PP,
         InFlight(e, p), NEW u, NEW s, FullSave(p, u, s),
         u.retry \in Nat, u.retry >= thr[e][p].retry, s = "scheduled" => u.retry > 0,
         UNCHANGED live, NoNewCall
  PROVE  FirstCopyIsLast'
<1> SUFFICES ASSUME NEW r \in PP, row'[r].retry = 0, live[r] > 0
             PROVE  /\ live[r] = 1 /\ row'[r].status # "scheduled"
                    /\ \A f \in Engines : thr'[f][r].pc # "call"
  BY DEF FirstCopyIsLast
<1>1. /\ row'[p].retry = u.retry /\ row'[p].status = s
      /\ r # p => row'[r] = row[r]
  BY DEF FullSave, TypeOK
<1>2. thr[e][p].retry \in Nat
  BY ThreadType DEF Thread
<1>3. CASE r = p
  <2>1. thr[e][p].retry = 0
    BY <1>1, <1>2, <1>3
  <2>2. row[p].retry = 0
    BY <2>1 DEF FirstAttemptInv, FirstAttemptHoldsRow
  <2> QED BY <1>1, <1>3, <2>2 DEF FirstCopyIsLast, NoNewCall
<1>4. CASE r # p
  BY <1>1, <1>4 DEF FirstCopyIsLast, NoNewCall
<1> QED BY <1>3, <1>4

\* The platform takes the post of a thread that stood before the call.  If the
\* row has never failed, nothing of it was on the platform, no other engine is at
\* it, and its status is where the claim put it.
LEMMA DeliverKeepsCopy ==
  ASSUME TypeOK, FirstAttemptInv, FirstCopyIsLast, NEW e \in Engines, NEW p \in PP,
         thr[e][p].pc = "call", NEW t, Step(e, p, t), t.pc # "call",
         UNCHANGED row, live' = [live EXCEPT ![p] = @ + 1]
  PROVE  FirstCopyIsLast'
<1> SUFFICES ASSUME NEW r \in PP, row[r].retry = 0, live'[r] > 0
             PROVE  /\ live'[r] = 1 /\ row[r].status # "scheduled"
                    /\ \A f \in Engines : thr'[f][r].pc # "call"
  BY DEF FirstCopyIsLast
<1>1. /\ live'[p] = live[p] + 1 /\ live[p] \in Nat
      /\ r # p => live'[r] = live[r]
  BY DEF TypeOK
<1>2. NoNewCall
  BY StepBeginsNoCall
<1>3. CASE r = p
  <2>1. live[p] = 0
    BY <1>1, <1>3 DEF FirstCopyIsLast
  <2>2. InFlight(e, p) /\ thr[e][p].retry \in Nat
    BY ThreadType DEF InFlight, Working, Thread
  <2>3. thr[e][p].retry = 0
    BY <1>3, <2>2 DEF FirstAttemptInv, RetriesAreCounted
  <2>4. /\ row[p].status \in {"publishing", "published"}
        /\ \A f \in Engines \ {e} : ~InFlight(f, p)
    BY <2>2, <2>3 DEF FirstAttemptInv, FirstAttemptHoldsRow
  <2>5. \A f \in Engines : thr'[f][p].pc # "call"
    <3> SUFFICES ASSUME NEW f \in Engines PROVE thr'[f][p].pc # "call"
      OBVIOUS
    <3>1. CASE f = e
      BY <3>1, StepOthers
    <3>2. CASE f # e
      BY <2>4, <3>2, <1>2 DEF NoNewCall, InFlight, Working
    <3> QED BY <3>1, <3>2
  <2> QED BY <1>1, <1>3, <2>1, <2>4, <2>5
<1>4. CASE r # p
  BY <1>1, <1>2, <1>4 DEF FirstCopyIsLast, NoNewCall
<1> QED BY <1>3, <1>4

\* The claim only begins a call for a row that was scheduled under its lock.
LEMMA ClaimKeepsCopy ==
  ASSUME TypeOK, FirstCopyIsLast, NEW e \in Engines, NEW q \in Posts, ClaimGroup(e, q)
  PROVE  FirstCopyIsLast'
<1> DEFINE L == {p \in PlatformPosts(q) : thr[e][p].pc = "listed"}
           C == {p \in L : row[p].status = "scheduled"}
<1>1. L \subseteq PP /\ C \subseteq L
  BY DEF PlatformPosts
<1>2. /\ \A p \in PP : row'[p].retry = row[p].retry
      /\ \A p \in C : row'[p].status = "publishing"
      /\ \A p \in PP \ C : row'[p] = row[p]
  <2>1. row' = [p \in PP |-> IF p \in C THEN [row[p] EXCEPT !.status = "publishing"]
                            ELSE row[p]]
    BY DEF ClaimGroup
  <2>2. \A p \in PP : row[p] \in Row
    BY DEF TypeOK
  <2>3. \A r \in Row : /\ [r EXCEPT !.status = "publishing"].retry = r.retry
                      /\ [r EXCEPT !.status = "publishing"].status = "publishing"
    BY DEF Row
  <2> HIDE DEF C
  <2> QED BY <1>1, <2>1, <2>2, <2>3
<1>3. \A p \in L \ C : thr'[e][p].pc = "idle"
  BY <1>1 DEF ClaimGroup, StepAll, TypeOK, Idle
<1>4. \A f \in Engines, p \in PP : (f # e \/ p \notin L) => thr'[f][p] = thr[f][p]
  BY DEF ClaimGroup, StepAll, TypeOK
<1>5. \A p \in C : row[p].status = "scheduled"
  OBVIOUS
<1>6. UNCHANGED live
  BY DEF ClaimGroup, ghosts
<1> HIDE DEF L, C
<1> SUFFICES ASSUME NEW r \in PP, row[r].retry = 0, live[r] > 0
             PROVE  /\ live[r] = 1 /\ row'[r].status # "scheduled"
                    /\ \A f \in Engines : thr'[f][r].pc # "call"
  BY <1>2, <1>6 DEF FirstCopyIsLast
<1>7. /\ live[r] = 1 /\ row[r].status # "scheduled"
      /\ \A f \in Engines : thr[f][r].pc # "call"
  BY DEF FirstCopyIsLast
<1>8. r \notin C
  BY <1>5, <1>7
<1> QED BY <1>2, <1>3, <1>4, <1>7, <1>8

\* A retry begins a call for a row that counts a failure.
LEMMA RetryKeepsCopy ==
  ASSUME TypeOK, FirstAttemptInv, FirstCopyIsLast, NEW e \in Engines, NEW p \in PP,
         StartRetry(e, p)
  PROVE  FirstCopyIsLast'
<1>1. /\ \A r \in PP : row'[r].retry = row[r].retry
      /\ \A r \in PP : r # p => row'[r] = row[r]
  BY DEF StartRetry, TypeOK, Row
<1>2. /\ thr[e][p].pc = "queued"
      /\ \A f \in Engines, r \in PP : (f # e \/ r # p) => thr'[f][r] = thr[f][r]
  BY DEF StartRetry, Goto, Step, TypeOK, Thread
<1>3. row[p].retry > 0
  BY <1>2 DEF FirstAttemptInv, QueuedHaveFailed, RetriesAreCounted
<1>4. UNCHANGED live
  BY DEF StartRetry, ghosts
<1> QED BY <1>1, <1>2, <1>3, <1>4 DEF FirstCopyIsLast

\* Every statement of a thread or retry turn preserves it.
LEMMA ThreadKeepsCopy ==
  ASSUME TypeOK, FirstAttemptInv, FirstCopyIsLast,
         NEW e \in Engines, NEW p \in PP, ThreadStep(e, p)
  PROVE  FirstCopyIsLast'
<1>t. thr[e][p] \in Thread
  BY ThreadType
<1>f. \A pc, again : /\ [thr[e][p] EXCEPT !.pc = pc].pc = pc
                     /\ [thr[e][p] EXCEPT !.pc = pc, !.retryable = again].pc = pc
  BY <1>t DEF Thread
<1>g. ASSUME NEW pc, pc # "call", Goto(e, p, pc)
      PROVE  NoNewCall
  <2> DEFINE t == [thr[e][p] EXCEPT !.pc = pc]
  <2>1. Step(e, p, t) /\ t.pc # "call"
    BY <1>f, <1>g DEF Goto
  <2> HIDE DEF t
  <2> QED BY <2>1, StepBeginsNoCall
<1>r. ASSUME NEW again,
             Step(e, p, [thr[e][p] EXCEPT !.pc = "logErr", !.retryable = again])
      PROVE  NoNewCall
  <2> DEFINE t == [thr[e][p] EXCEPT !.pc = "logErr", !.retryable = again]
  <2>1. Step(e, p, t) /\ t.pc # "call"
    BY <1>f, <1>r
  <2> HIDE DEF t
  <2> QED BY <2>1, StepBeginsNoCall
<1>1. CASE DispatchOk(e, p)
  <2> DEFINE t == [thr[e][p] EXCEPT !.pc = "saveOk"]
  <2>1. Step(e, p, t) /\ t.pc # "call"
    BY <1>1, <1>f DEF DispatchOk, Goto
  <2>2. /\ thr[e][p].pc = "call" /\ UNCHANGED row
        /\ live' = [live EXCEPT ![p] = @ + 1]
    BY <1>1 DEF DispatchOk, tables
  <2> HIDE DEF t
  <2> QED BY <2>1, <2>2, DeliverKeepsCopy
<1>2. CASE DispatchError(e, p)
  <2>1. PICK again \in BOOLEAN :
          Step(e, p, [thr[e][p] EXCEPT !.pc = "logErr", !.retryable = again])
    BY <1>2 DEF DispatchError
  <2>2. UNCHANGED <<row, live>>
    BY <1>2 DEF DispatchError, tables
  <2>3. NoNewCall
    BY ONLY <2>1, <1>r
  <2> QED BY <2>2, <2>3, QuietStep
<1>3. CASE DispatchLost(e, p)
  <2> DEFINE t == [thr[e][p] EXCEPT !.pc = "logErr", !.retryable = TRUE]
  <2>1. Step(e, p, t) /\ t.pc # "call"
    BY <1>3, <1>f DEF DispatchLost
  <2>2. /\ thr[e][p].pc = "call" /\ UNCHANGED row
        /\ live' = [live EXCEPT ![p] = @ + 1]
    BY <1>3 DEF DispatchLost, tables
  <2> HIDE DEF t
  <2> QED BY <2>1, <2>2, DeliverKeepsCopy
<1>4. CASE SavePublished(e, p)
  <2> DEFINE t == [thr[e][p] EXCEPT !.pubAt = now]
             u == [t EXCEPT !.pc = "logOk"]
             w == [t EXCEPT !.pc = "logErr", !.retryable = TRUE]
  <2>1. /\ t.retry \in Nat /\ t.retry >= thr[e][p].retry
        /\ u.pc # "call" /\ w.pc # "call"
    BY <1>t DEF Thread
  <2>2. \/ FullSave(p, t, "published") /\ Step(e, p, u)
        \/ UNCHANGED row /\ Step(e, p, w)
    BY <1>4 DEF SavePublished
  <2>3. InFlight(e, p) /\ UNCHANGED live
    BY <1>4 DEF SavePublished, InFlight, Working, ghosts
  <2> HIDE DEF t, u, w
  <2>4. NoNewCall
    BY <2>1, <2>2, StepBeginsNoCall
  <2>5. CASE FullSave(p, t, "published")
    BY <2>1, <2>3, <2>4, <2>5, SaveKeepsCopy
  <2>6. CASE UNCHANGED row
    BY <2>3, <2>4, <2>6, QuietStep
  <2> QED BY <2>2, <2>5, <2>6
<1>5. CASE LogSuccess(e, p)
  <2>1. UNCHANGED <<row, live>>
    BY <1>5 DEF LogSuccess, tables, ghosts
  <2>2. NoNewCall
    BY <1>5, <1>g, <1>r DEF LogSuccess
  <2> QED BY <2>1, <2>2, QuietStep
<1>6. CASE LogFailure(e, p)
  <2>1. UNCHANGED <<row, live>>
    BY <1>6 DEF LogFailure, tables, ghosts
  <2>2. NoNewCall
    BY <1>6, <1>g DEF LogFailure
  <2> QED BY <2>1, <2>2, QuietStep
<1>7. CASE SaveOutcome(e, p)
  <2> DEFINE u == Rescheduled(thr[e][p])
  <2>1. /\ thr[e][p].retry \in Nat
        /\ u.retry \in Nat /\ u.retry > 0 /\ u.retry >= thr[e][p].retry
    BY <1>t DEF Rescheduled, Thread
  <2>2. InFlight(e, p) /\ UNCHANGED live
    BY <1>7 DEF SaveOutcome, InFlight, Working, ghosts
  <2>3. NoNewCall
    BY <1>7, <1>g DEF SaveOutcome
  <2> HIDE DEF u
  <2>4. CASE FullSave(p, u, "scheduled")
    BY <2>1, <2>2, <2>3, <2>4, SaveKeepsCopy
  <2>5. CASE FullSave(p, thr[e][p], "failed")
    BY <2>1, <2>2, <2>3, <2>5, SaveKeepsCopy
  <2>6. CASE UNCHANGED row
    BY <2>2, <2>3, <2>6, QuietStep
  <2> QED BY <1>7, <2>4, <2>5, <2>6 DEF SaveOutcome, u
<1>8. CASE StartRetry(e, p)
  BY <1>8, RetryKeepsCopy
<1>9. CASE EndFailedRetry(e, p)
  <2>1. Step(e, p, Idle) /\ Idle.pc # "call" /\ UNCHANGED <<row, live>>
    BY <1>9 DEF EndFailedRetry, Idle, tables, ghosts
  <2> QED BY <2>1, StepBeginsNoCall, QuietStep
<1>10. CASE ScheduleFirstComment(e, p)
  <2>1. Step(e, p, Idle) /\ Idle.pc # "call" /\ UNCHANGED <<row, live>>
    BY <1>10 DEF ScheduleFirstComment, Idle, tables, ghosts
  <2> QED BY <2>1, StepBeginsNoCall, QuietStep
<1> QED BY <1>1, <1>2, <1>3, <1>4, <1>5, <1>6, <1>7, <1>8, <1>9, <1>10 DEF ThreadStep

\* Every statement between the threads of a group preserves it.
LEMMA GroupKeepsCopy ==
  ASSUME TypeOK, FirstCopyIsLast, NEW e \in Engines, NEW q \in Posts, GroupStep(e, q)
  PROVE  FirstCopyIsLast'
<1> DEFINE G == Group(e, q)
<1>1. G \in SUBSET PP /\ \A p \in G : thr[e][p] \in Thread
  BY ThreadType DEF Group, PlatformPosts
<1>2. CASE ClaimGroup(e, q)
  BY <1>2, ClaimKeepsCopy
<1>3. CASE ReadLatest(e, q)
  <2> DEFINE t == [p \in G |-> [thr[e][p] EXCEPT !.pc = "sync", !.latest = LatestPubAt(q)]]
  <2>1. \A p \in G : t[p].pc # "call"
    <3> HIDE DEF G
    <3> QED BY <1>1 DEF Thread
  <2>2. StepAll(e, G, t) /\ UNCHANGED <<row, live>>
    BY <1>3, ZenonT(30) DEF ReadLatest, tables, ghosts
  <2> HIDE DEF t, G
  <2>3. NoNewCall
    BY <1>1, <2>1, <2>2, StepAllBeginsNoCall
  <2> QED BY <2>2, <2>3, QuietStep
<1>4. CASE SyncParentPublishedAt(e, q)
  <2> DEFINE t == [p \in G |-> IF mode[e] = "polling"
                              THEN [thr[e][p] EXCEPT !.pc = "refresh"] ELSE Idle]
  <2>1. \A p \in G : t[p].pc # "call"
    <3> HIDE DEF G
    <3> QED BY <1>1 DEF Thread, Idle
  <2>2. StepAll(e, G, t) /\ UNCHANGED <<row, live>>
    BY <1>4 DEF SyncParentPublishedAt, ghosts
  <2> HIDE DEF t, G
  <2>3. NoNewCall
    BY <1>1, <2>1, <2>2, StepAllBeginsNoCall
  <2> QED BY <2>2, <2>3, QuietStep
<1> QED BY <1>2, <1>3, <1>4 DEF GroupStep

\* Every step of the system preserves it.
LEMMA NextKeepsCopy ==
  TypeOK /\ FirstAttemptInv /\ FirstCopyIsLast /\ [Next]_vars => FirstCopyIsLast'
<1> SUFFICES ASSUME TypeOK, FirstAttemptInv, FirstCopyIsLast, [Next]_vars
             PROVE  FirstCopyIsLast'
  OBVIOUS
<1>1. ASSUME NEW e \in Engines, Poll(e) PROVE FirstCopyIsLast'
  <2>1. PICK B \in SUBSET PP :
          StepAll(e, B, [p \in B |-> [Idle EXCEPT !.pc = "listed",
                                        !.postPubAt = postPubAt[ParentOf[p]]]])
    BY <1>1 DEF Poll
  <2> DEFINE t == [p \in B |-> [Idle EXCEPT !.pc = "listed",
                                           !.postPubAt = postPubAt[ParentOf[p]]]]
  <2>2. \A p \in B : t[p].pc # "call"
    BY DEF Idle
  <2>3. StepAll(e, B, t) /\ UNCHANGED <<row, live>>
    <3>1. UNCHANGED <<tables, ghosts>>
      BY <1>1 DEF Poll
    <3> QED BY <2>1, <3>1 DEF tables, ghosts
  <2> HIDE DEF t
  <2> QED BY <2>2, <2>3, StepAllBeginsNoCall, QuietStep
<1>2. ASSUME NEW e \in Engines, ListRetries(e) PROVE FirstCopyIsLast'
  <2> DEFINE R == {p \in PP : RetryDue(p)}
             t == [p \in R |-> Load(p, "queued")]
  <2>1. \A p \in R : t[p].pc # "call"
    BY DEF Load
  <2>2. StepAll(e, R, t) /\ UNCHANGED <<row, live>>
    BY <1>2 DEF ListRetries, tables, ghosts
  <2>3. R \in SUBSET PP
    OBVIOUS
  <2> HIDE DEF t, R
  <2> QED BY <2>1, <2>2, <2>3, StepAllBeginsNoCall, QuietStep
<1>3. ASSUME NEW e \in Engines, NEW p \in PP, ThreadStep(e, p) PROVE FirstCopyIsLast'
  BY <1>3, ThreadKeepsCopy
<1>4. ASSUME NEW e \in Engines, NEW q \in Posts, GroupStep(e, q) PROVE FirstCopyIsLast'
  BY <1>4, GroupKeepsCopy
<1>5. ASSUME NEW e \in Engines, Crash(e) PROVE FirstCopyIsLast'
  <2>1. UNCHANGED <<row, live>>
    BY <1>5 DEF Crash, tables, ghosts
  <2>2. \A f \in Engines, p \in PP : thr'[f][p] = thr[f][p] \/ thr'[f][p] = Idle
    BY <1>5 DEF Crash, TypeOK
  <2>3. NoNewCall
    BY <2>2 DEF NoNewCall, Idle
  <2> QED BY <2>1, <2>3, QuietStep
<1>6. CASE UNCHANGED <<row, thr, live>>
  BY <1>6, QuietStep DEF NoNewCall
<1>7. ASSUME NEW e \in Engines, EndCycle(e) PROVE UNCHANGED <<row, thr, live>>
  BY <1>7 DEF EndCycle, tables, ghosts
<1>8. ASSUME NEW p \in PP, RunFirstComment(p) PROVE UNCHANGED <<row, thr, live>>
  BY <1>8 DEF RunFirstComment, tables
<1>9. Tick \/ UNCHANGED vars => UNCHANGED <<row, thr, live>>
  BY DEF Tick, vars, tables, ghosts
<1> QED BY <1>1, <1>2, <1>3, <1>4, <1>5, <1>6, <1>7, <1>8, <1>9 DEF Next, CycleStep

\* A row that was never put back for a retry is on its platform at most once,
\* however many engines poll the table and whatever crashes, fails or is lost: a
\* second copy of a post can only come out of _schedule_retry and _process_retries.
THEOREM PostedOnce == Spec => []PostedOnceUnlessRetried
<1>1. Init => FirstAttemptInv /\ FirstCopyIsLast
  BY DEF Init, Idle, FirstAttemptInv, QueuedHaveFailed, RetriesAreCounted,
         FirstAttemptHoldsRow, InFlight, Working, FirstCopyIsLast
<1>2. TypeOK /\ FirstAttemptInv /\ FirstCopyIsLast /\ [Next]_vars
        => FirstAttemptInv' /\ FirstCopyIsLast'
  BY NextFirstAttempt, NextKeepsCopy
<1>3. TypeOK /\ FirstCopyIsLast => PostedOnceUnlessRetried
  <2> SUFFICES ASSUME TypeOK, FirstCopyIsLast, NEW p \in PP, row[p].retry = 0
               PROVE  live[p] <= 1
    BY DEF PostedOnceUnlessRetried
  <2>1. live[p] \in Nat
    BY DEF TypeOK
  <2> QED BY <2>1 DEF FirstCopyIsLast
<1> QED BY <1>1, <1>2, <1>3, TypeCorrect, PTL DEF Spec

-----------------------------------------------------------------------------
(* One engine *)


\* What excuses a copy too many, and what cuts an attempt off.
Forgiven == spent.lost + spent.db
Disturbed == spent.crash + spent.db

Unloggable == {"saveOk", "logOk", "logErr"}

\* The status of a row is what the statements of its thread have made of it.
StatusFits(e, p) ==
  /\ row[p].status \in {"scheduled", "publishing", "published", "failed"}
  /\ thr[e][p].pc \in Waiting => row[p].status = "scheduled"
  /\ thr[e][p].pc \in {"call", "saveOk"} => row[p].status = "publishing"
  /\ thr[e][p].pc \in {"logOk", "success"} => row[p].status = "published"
  /\ thr[e][p].pc \in {"logErr", "saveErr"} =>
       row[p].status = "publishing" \/ (row[p].status = "published" /\ spent.db > 0)
  /\ row[p].status = "publishing" => thr[e][p].pc \in Working \ {"logOk"} \/ Disturbed > 0

\* Before a call, and when the row may be called for again, every copy is forgiven.
CopiesFit(e, p) ==
  /\ live[p] <= 1 + Forgiven
  /\ row[p].status \in {"scheduled", "failed"} \/ thr[e][p].pc \in {"call", "logErr", "saveErr"}
       => live[p] <= Forgiven
  /\ row[p].status = "published" => row[p].pubAt # 0
  /\ row[p].status = "published" \/ thr[e][p].pc = "saveOk" => live[p] > 0

\* retry_count counts the attempts, and the log numbers them.
AttemptsFit(e, p) ==
  /\ row[p].retry <= MAX_RETRIES /\ attempts[p] <= row[p].retry + 1
  /\ thr[e][p].pc \in InHand => thr[e][p].retry = row[p].retry
  /\ row[p].status = "scheduled" \/ thr[e][p].pc = "call"
       => attempts[p] <= row[p].retry /\ Len(logs[p]) = row[p].retry
  /\ thr[e][p].pc \in Unloggable => Len(logs[p]) = row[p].retry
  /\ thr[e][p].pc = "saveErr" => Len(logs[p]) = row[p].retry + 1
  /\ \A i \in DOMAIN logs[p] : logs[p][i] = i
  /\ attempts[p] <= Len(logs[p]) + Disturbed + 1
  /\ thr[e][p].pc \in Unloggable \/ attempts[p] <= Len(logs[p]) + Disturbed

\* A row has its comment when all is done with it.
CommentsFit(e, p) ==
  tasks[p] + commentRuns[p] > 0 =>
    /\ tasks[p] + commentRuns[p] = 1
    /\ row[p].status = "published" /\ thr[e][p].pc = "idle"

Book(e, p) == StatusFits(e, p) /\ CopiesFit(e, p) /\ AttemptsFit(e, p) /\ CommentsFit(e, p)
BooksInv(e) == \A p \in PP : Book(e, p)

\* The post has been told of every publication but those still to be synced, and
\* no thread holds an instance of the post that is ahead of the table.
RowLags(e, p) ==
  /\ mode[e] = "idle" => thr[e][p].pc = "idle"
  /\ thr[e][p].pc # "idle" => thr[e][p].postPubAt <= postPubAt[ParentOf[p]]
  /\ row[p].status # "published" => row[p].pubAt = 0
  /\ thr[e][p].pc \in {"queued", "call", "saveOk", "logErr", "saveErr"} => thr[e][p].pubAt = 0
  /\ row[p].pubAt <= postPubAt[ParentOf[p]] \/ thr[e][p].pc \in {"logOk", "success", "sync"}

\* The maximum that was read is still the maximum when it is written: nothing of
\* the post is in flight between the two statements.
SyncFits(e, p) ==
  thr[e][p].pc = "sync" =>
    /\ \A c \in PlatformPosts(ParentOf[p]) :
         thr[e][c].pc \in {"idle", "queued", "sync"} /\ row[c].pubAt <= thr[e][p].latest
    /\ thr[e][p].latest # 0 =>
         \E c \in PlatformPosts(ParentOf[p]) : row[c].pubAt = thr[e][p].latest

PostFits(q) == postPubAt[q] # 0 => \E c \in PlatformPosts(q) : row[c].pubAt = postPubAt[q]

ParentsFit(e) ==
  /\ \A p \in PP : RowLags(e, p) /\ SyncFits(e, p)
  /\ \A q \in Posts : PostFits(q)

ParentsInv(e) == Disturbed = 0 => ParentsFit(e)

-----------------------------------------------------------------------------
(* A book that no step touches                                             *)

\* A book that is not touched still fits, however many failures are counted.
LEMMA UntouchedFits ==
  ASSUME TypeOK, TypeOK', NEW e \in Engines, NEW p \in PP,
         Book(e, p), SpentGrows, Untouched(e, p)
  PROVE  Book(e, p)'
<1>1. /\ spent.lost \in Nat /\ spent.db \in Nat /\ spent.crash \in Nat
      /\ spent'.lost \in Nat /\ spent'.db \in Nat /\ spent'.crash \in Nat
  BY BookTypes DEF TypeOK, Faults
<1>2. Forgiven' >= Forgiven /\ Disturbed' >= Disturbed /\ (spent.db > 0 => spent'.db > 0)
      /\ Forgiven' \in Nat /\ Disturbed' \in Nat /\ Forgiven \in Nat /\ Disturbed \in Nat
  BY <1>1 DEF SpentGrows, Forgiven, Disturbed
<1>3. StatusFits(e, p)'
  BY <1>2 DEF Book, StatusFits, Untouched
<1>4. CopiesFit(e, p)'
  BY <1>2, BookTypes DEF Book, CopiesFit, Untouched
<1>5. AttemptsFit(e, p)'
  <2>1. \A i \in DOMAIN logs'[p] : logs'[p][i] = i
    BY DEF Book, AttemptsFit, Untouched
  <2> QED BY <1>2, <2>1, BookTypes DEF Book, AttemptsFit, Untouched
<1>6. CommentsFit(e, p)'
  BY DEF Book, CommentsFit, Untouched
<1> QED BY <1>3, <1>4, <1>5, <1>6 DEF Book

\* A step of one thread: the books of the other rows are not touched.
LEMMA OneThread ==
  ASSUME TypeOK, TypeOK', NEW e \in Engines, NEW p \in PP, BooksInv(e), SpentGrows,
         \A r \in PP : r # p => Untouched(e, r), Book(e, p)'
  PROVE  BooksInv(e)'
  BY UntouchedFits DEF BooksInv

\* A thread that has nothing in hand, or dies, and does not write: it takes up a
\* row to look at only if the row is scheduled.
LEMMA CalmBook ==
  ASSUME TypeOK, TypeOK', NEW e \in Engines, NEW p \in PP, Book(e, p), SpentGrows,
         row'[p] = row[p], logs'[p] = logs[p], live'[p] = live[p],
         attempts'[p] = attempts[p], tasks'[p] + commentRuns'[p] = tasks[p] + commentRuns[p],
         thr'[e][p].pc \notin Working \union {"success"},
         thr'[e][p].pc \in Waiting => row[p].status = "scheduled",
         thr'[e][p].pc = "queued" => thr'[e][p].retry = row[p].retry,
         thr'[e][p].pc = "idle" \/ thr[e][p].pc # "idle" \/ row[p].status = "scheduled",
         thr[e][p].pc \in Working => Disturbed' > Disturbed
  PROVE  Book(e, p)'
<1>1. /\ spent.lost \in Nat /\ spent.db \in Nat /\ spent.crash \in Nat
      /\ spent'.lost \in Nat /\ spent'.db \in Nat /\ spent'.crash \in Nat
  BY BookTypes DEF TypeOK, Faults
<1>2. Forgiven' >= Forgiven /\ Disturbed' >= Disturbed /\ (spent.db > 0 => spent'.db > 0)
      /\ Forgiven' \in Nat /\ Disturbed' \in Nat /\ Forgiven \in Nat /\ Disturbed \in Nat
  BY <1>1 DEF SpentGrows, Forgiven, Disturbed
<1>3. StatusFits(e, p)'
  BY <1>2 DEF Book, StatusFits, Working, Waiting
<1>4. CopiesFit(e, p)'
  BY <1>2, BookTypes DEF Book, CopiesFit, Working
<1>5. AttemptsFit(e, p)'
  <2>1. \A i \in DOMAIN logs'[p] : logs'[p][i] = i
    BY DEF Book, AttemptsFit
  <2> QED BY SMTT(30), <1>2, <2>1, BookTypes DEF Book, AttemptsFit, Working, Unloggable, InHand
<1>6. CommentsFit(e, p)'
  BY DEF Book, CommentsFit
<1> QED BY <1>3, <1>4, <1>5, <1>6 DEF Book

-----------------------------------------------------------------------------
(* The book of the row whose thread takes a step                           *)

\* The platform call: nothing that was there before it counts.
LEMMA DispatchBook ==
  ASSUME TypeOK, TypeOK', NEW e \in Engines, NEW p \in PP, Book(e, p),
         DispatchOk(e, p) \/ DispatchError(e, p) \/ DispatchLost(e, p)
  PROVE  Book(e, p)'
<1>1. /\ UNCHANGED <<row, tasks, logs, commentRuns>> /\ thr[e][p].pc = "call"
      /\ attempts'[p] = attempts[p] + 1
  BY DEF DispatchOk, DispatchError, DispatchLost, tables, TypeOK
<1>n. /\ spent.lost \in Nat /\ spent.db \in Nat /\ spent.crash \in Nat
      /\ spent \in Faults /\ live[p] \in Nat
  BY DEF TypeOK, Faults
<1>2. /\ thr'[e][p].retry = thr[e][p].retry
      /\ \/ thr'[e][p].pc = "saveOk" /\ live'[p] = live[p] + 1 /\ UNCHANGED spent
         \/ thr'[e][p].pc = "logErr" /\ live'[p] = live[p] /\ UNCHANGED spent
         \/ /\ thr'[e][p].pc = "logErr" /\ live'[p] = live[p] + 1
            /\ spent'.lost = spent.lost + 1 /\ spent'.db = spent.db
            /\ spent'.crash = spent.crash
  <2>1. CASE DispatchOk(e, p)
    <3>1. live'[p] = live[p] + 1 /\ UNCHANGED spent /\ Goto(e, p, "saveOk")
      BY <2>1 DEF DispatchOk, TypeOK
    <3> QED BY <3>1, GotoHolds
  <2>2. CASE DispatchError(e, p)
    <3>1. live'[p] = live[p] /\ UNCHANGED spent /\ CallRaises(e, p)
      BY <2>2 DEF DispatchError, CallRaises
    <3> QED BY <3>1, RaiseHolds
  <2>3. CASE DispatchLost(e, p)
    <3>1. /\ spent'.lost = spent.lost + 1 /\ spent'.db = spent.db
          /\ spent'.crash = spent.crash /\ live'[p] = live[p] + 1
      BY <1>n, <2>3 DEF DispatchLost, Faults, TypeOK
    <3>2. CallRaises(e, p)
      BY <2>3 DEF DispatchLost, CallRaises
    <3> QED BY <3>1, <3>2, RaiseHolds
  <2> QED BY <2>1, <2>2, <2>3
<1>4. StatusFits(e, p)'
  BY <1>1, <1>2 DEF Book, StatusFits, Working, Waiting
<1>d. /\ Disturbed' = Disturbed /\ Disturbed \in Nat /\ Forgiven \in Nat
      /\ Forgiven' = Forgiven \/ Forgiven' = Forgiven + 1
      /\ live'[p] = live[p] + 1 /\ thr'[e][p].pc = "logErr" => Forgiven' = Forgiven + 1
  BY <1>2, <1>n DEF Forgiven, Disturbed
<1>l. row[p].status = "publishing" /\ live[p] <= Forgiven
  BY <1>1 DEF Book, StatusFits, CopiesFit
<1>5. CopiesFit(e, p)'
  BY <1>1, <1>2, <1>d, <1>l, <1>n DEF CopiesFit
<1>6. AttemptsFit(e, p)'
  <2>1. row[p].retry \in Nat /\ attempts[p] \in Nat /\ Len(logs[p]) \in Nat
    BY BookTypes DEF TypeOK, Row
  <2>2. /\ attempts[p] <= row[p].retry /\ Len(logs[p]) = row[p].retry
        /\ row[p].retry <= MAX_RETRIES /\ thr[e][p].retry = row[p].retry
        /\ attempts[p] <= Len(logs[p]) + Disturbed
        /\ \A i \in DOMAIN logs[p] : logs[p][i] = i
    BY <1>1 DEF Book, AttemptsFit, InHand, Working, Unloggable
  <2>3. /\ row' = row /\ logs' = logs /\ thr'[e][p].pc \in Unloggable
        /\ thr'[e][p].pc \notin {"call", "saveErr"}
    BY <1>1, <1>2 DEF Unloggable
  <2> QED BY <1>1, <1>2, <1>d, <1>l, <2>1, <2>2, <2>3 DEF AttemptsFit
<1>7. CommentsFit(e, p)'
  BY <1>1, <1>2 DEF Book, StatusFits, CommentsFit
<1> QED BY <1>4, <1>5, <1>6, <1>7 DEF Book

\* The save of a success and, if it raises, the way into the except branch.
LEMMA SavePublishedBook ==
  ASSUME TypeOK, TypeOK', NEW e \in Engines, NEW p \in PP, Book(e, p), SavePublished(e, p)
  PROVE  Book(e, p)'
<1>n. /\ spent.lost \in Nat /\ spent.db \in Nat /\ spent.crash \in Nat
      /\ spent'.lost \in Nat /\ spent'.db \in Nat /\ spent'.crash \in Nat
  BY DEF TypeOK, Faults
<1>1. /\ UNCHANGED <<tasks, logs, commentRuns, attempts, live>> /\ thr[e][p].pc = "saveOk"
  BY DEF SavePublished, ghosts
<1> DEFINE t == [thr[e][p] EXCEPT !.pubAt = now]
           u == [t EXCEPT !.pc = "logOk"]
           w == [t EXCEPT !.pc = "logErr", !.retryable = TRUE]
<1>t. /\ t.retry = thr[e][p].retry /\ t.pubAt = now
      /\ u.pc = "logOk" /\ w.pc = "logErr"
      /\ u.retry = thr[e][p].retry /\ w.retry = thr[e][p].retry
  BY ThreadType DEF Thread
<1>s. \/ FullSave(p, t, "published") /\ Step(e, p, u) /\ UNCHANGED spent
      \/ UNCHANGED row /\ Step(e, p, w) /\ Fault
  BY DEF SavePublished
<1> HIDE DEF t, u, w
<1>3. thr'[e][p] = u \/ thr'[e][p] = w
  BY <1>s, StepOthers
<1>2. \/ /\ thr'[e][p].pc = "logOk" /\ UNCHANGED spent
         /\ row'[p].status = "published" /\ row'[p].retry = thr[e][p].retry /\ row'[p].pubAt # 0
      \/ /\ thr'[e][p].pc = "logErr" /\ row' = row
         /\ spent'.lost = spent.lost /\ spent'.db = spent.db + 1 /\ spent'.crash = spent.crash
  <2>1. ASSUME FullSave(p, t, "published"), Step(e, p, u)
        PROVE  /\ row'[p].status = "published" /\ row'[p].retry = t.retry
               /\ row'[p].pubAt = t.pubAt /\ thr'[e][p] = u
    BY <2>1, StepOthers DEF FullSave, TypeOK
  <2>2. ASSUME Step(e, p, w) PROVE thr'[e][p] = w
    BY <2>2, StepOthers
  <2>3. now # 0
    BY DEF TypeOK
  <2> QED BY <1>s, <1>t, <2>1, <2>2, <2>3, FaultCounts
<1>4. StatusFits(e, p)'
  BY <1>1, <1>2, <1>n DEF Book, StatusFits, Working, Waiting, Disturbed
<1>5. CopiesFit(e, p)'
  BY <1>1, <1>2, <1>n, BookTypes DEF Book, StatusFits, CopiesFit, Forgiven
<1>6. AttemptsFit(e, p)'
  <2>1. row[p].retry \in Nat
    BY DEF TypeOK, Row
  <2>2. thr[e][p].retry = row[p].retry
    BY <1>1 DEF Book, AttemptsFit, InHand, Working
  <2>3. /\ row'[p].retry = row[p].retry /\ row'[p].status # "scheduled"
        /\ thr'[e][p].pc \in Unloggable
        /\ Disturbed \in Nat /\ Disturbed' \in Nat /\ Disturbed' >= Disturbed
    BY <1>1, <1>2, <1>n, <2>2 DEF Book, StatusFits, Unloggable, Disturbed
  <2>4. /\ row[p].retry <= MAX_RETRIES /\ attempts[p] <= row[p].retry + 1
        /\ Len(logs[p]) = row[p].retry /\ attempts[p] <= Len(logs[p]) + Disturbed + 1
        /\ \A i \in DOMAIN logs[p] : logs[p][i] = i
    BY <1>1 DEF Book, AttemptsFit, Unloggable
  <2>5. thr'[e][p].pc \notin {"call", "saveErr"}
    BY <1>2
  <2>6. attempts[p] \in Nat /\ Len(logs[p]) \in Nat
    BY BookTypes
  <2>7. thr'[e][p].pc \in InHand => thr'[e][p].retry = row[p].retry
    BY <1>3, <1>t, <2>2
  <2>8. attempts'[p] = attempts[p] /\ logs'[p] = logs[p]
    BY <1>1
  <2>9. /\ row'[p].retry <= MAX_RETRIES /\ attempts'[p] <= row'[p].retry + 1
        /\ Len(logs'[p]) = row'[p].retry
        /\ attempts'[p] <= Len(logs'[p]) + Disturbed' + 1
    BY <2>3, <2>4, <2>6, <2>8
  <2> QED BY <2>3, <2>4, <2>5, <2>7, <2>8, <2>9 DEF AttemptsFit
<1>7. CommentsFit(e, p)'
  BY <1>1, <1>2 DEF Book, StatusFits, CommentsFit
<1> QED BY <1>4, <1>5, <1>6, <1>7 DEF Book

\* PublishLog.objects.create, after a success and in the except branch: the log
\* grows by the number of this attempt.
LEMMA LogBook ==
  ASSUME TypeOK, TypeOK', NEW e \in Engines, NEW p \in PP, Book(e, p),
         LogSuccess(e, p) \/ LogFailure(e, p)
  PROVE  Book(e, p)'
<1>n. /\ spent.lost \in Nat /\ spent.db \in Nat /\ spent.crash \in Nat
      /\ row[p].retry \in Nat /\ attempts[p] \in Nat /\ live[p] \in Nat
      /\ logs[p] \in Seq(Nat)
  BY DEF TypeOK, Faults, Row
<1>1. /\ UNCHANGED <<row, tasks, commentRuns, attempts, live>>
      /\ thr[e][p].pc \in {"logOk", "logErr"}
  BY DEF LogSuccess, LogFailure, tables, ghosts
<1>2. /\ thr[e][p].retry = row[p].retry /\ Len(logs[p]) = row[p].retry
      /\ row[p].retry <= MAX_RETRIES /\ attempts[p] <= row[p].retry + 1
      /\ \A i \in DOMAIN logs[p] : logs[p][i] = i
      /\ attempts[p] <= Len(logs[p]) + Disturbed + 1
  BY <1>1 DEF Book, AttemptsFit, InHand, Working, Unloggable
<1>3. /\ thr'[e][p].retry = thr[e][p].retry
      /\ \/ /\ thr[e][p].pc = "logOk" /\ thr'[e][p].pc = "success" /\ UNCHANGED spent
            /\ logs' = [logs EXCEPT ![p] = Append(logs[p], thr[e][p].retry + 1)]
         \/ /\ thr[e][p].pc = "logErr" /\ thr'[e][p].pc = "saveErr" /\ UNCHANGED spent
            /\ logs' = [logs EXCEPT ![p] = Append(logs[p], thr[e][p].retry + 1)]
         \/ /\ thr[e][p].pc = "logOk" /\ thr'[e][p].pc = "logErr" /\ logs' = logs /\ Fault
         \/ /\ thr[e][p].pc = "logErr" /\ thr'[e][p].pc = "failure" /\ logs' = logs /\ Fault
  <2>1. CASE LogSuccess(e, p)
    <3>1. \/ /\ Goto(e, p, "success") /\ UNCHANGED spent
             /\ logs' = [logs EXCEPT ![p] = Append(logs[p], thr[e][p].retry + 1)]
          \/ CallRaises(e, p) /\ logs' = logs /\ Fault
      BY <2>1 DEF LogSuccess, CallRaises
    <3> QED BY <2>1, <3>1, GotoHolds, RaiseHolds DEF LogSuccess
  <2>2. CASE LogFailure(e, p)
    <3>1. \/ /\ Goto(e, p, "saveErr") /\ UNCHANGED spent
             /\ logs' = [logs EXCEPT ![p] = Append(logs[p], thr[e][p].retry + 1)]
          \/ Goto(e, p, "failure") /\ logs' = logs /\ Fault
      BY <2>2 DEF LogFailure
    <3> QED BY <2>2, <3>1, GotoHolds DEF LogFailure
  <2> QED BY <2>1, <2>2
<1>4. ASSUME logs' = [logs EXCEPT ![p] = Append(logs[p], thr[e][p].retry + 1)]
      PROVE  /\ Len(logs'[p]) = row[p].retry + 1
             /\ \A i \in DOMAIN logs'[p] : logs'[p][i] = i
  <2>1. logs'[p] = Append(logs[p], row[p].retry + 1)
    BY <1>2, <1>4 DEF TypeOK
  <2> QED BY <1>2, <1>n, <2>1
<1>5. /\ Disturbed \in Nat /\ Forgiven \in Nat
      /\ \/ UNCHANGED spent /\ Disturbed' = Disturbed /\ Forgiven' = Forgiven
         \/ Fault /\ Disturbed' = Disturbed + 1 /\ Forgiven' = Forgiven + 1 /\ spent'.db > 0
  <2>1. CASE UNCHANGED spent
    BY <1>n, <2>1 DEF Disturbed, Forgiven
  <2>2. CASE Fault
    <3>1. /\ spent'.lost = spent.lost /\ spent'.db = spent.db + 1
          /\ spent'.crash = spent.crash
      BY <2>2, FaultCounts
    <3>2. spent.lost \in Nat /\ spent.db \in Nat /\ spent.crash \in Nat
      BY <1>n
    <3>3. /\ Disturbed \in Nat /\ Forgiven \in Nat /\ spent'.db > 0
          /\ Disturbed' = Disturbed + 1 /\ Forgiven' = Forgiven + 1
      BY <3>1, <3>2 DEF Disturbed, Forgiven
    <3> QED BY <2>2, <3>3
  <2>3. UNCHANGED spent \/ Fault
    BY <1>3
  <2> QED BY <2>1, <2>2, <2>3
<1>6. StatusFits(e, p)'
  <2>1. CASE thr'[e][p].pc = "success"
    BY <1>1, <1>3, <2>1 DEF Book, StatusFits, Working, Waiting
  <2>2. CASE thr'[e][p].pc = "saveErr"
    BY <1>1, <1>3, <2>2 DEF Book, StatusFits, Working, Waiting
  <2>3. CASE Fault
    <3>1. spent'.db > 0 /\ Disturbed' > 0
      BY <1>5, <1>n, <2>3, FaultCounts DEF Disturbed
    <3> QED BY <1>1, <1>3, <3>1 DEF Book, StatusFits, Working, Waiting
  <2> QED BY <1>3, <2>1, <2>2, <2>3
<1>7. CopiesFit(e, p)'
  <2>1. /\ live[p] \in Nat /\ live'[p] = live[p] /\ row'[p] = row[p]
        /\ row[p].status \notin {"scheduled", "failed"}
        /\ CopiesFit(e, p)
    BY <1>1, <1>n DEF Book, StatusFits
  <2>2. /\ Forgiven \in Nat /\ Forgiven' \in Nat /\ Forgiven <= Forgiven'
        /\ Fault \/ Forgiven' = Forgiven
        /\ Fault => Forgiven' = Forgiven + 1
    <3>1. UNCHANGED spent => ~Fault
      BY <1>n, FaultCounts
    <3> QED BY <1>3, <1>5, <3>1
  <2>3. /\ thr'[e][p].pc \in {"success", "saveErr", "logErr", "failure"}
        /\ thr[e][p].pc = "logErr" => live[p] <= Forgiven
        /\ thr'[e][p].pc = "saveErr" => thr[e][p].pc = "logErr"
        /\ thr'[e][p].pc = "logErr" => Fault
    BY <1>1, <1>3, <2>1 DEF CopiesFit
  <2> QED BY <2>1, <2>2, <2>3 DEF CopiesFit
<1>8. AttemptsFit(e, p)'
  <2>1. row[p].status # "scheduled" /\ thr'[e][p].pc # "call"
    BY <1>1, <1>3 DEF Book, StatusFits
  <2>2. CASE logs' = logs
    <3>1. Fault /\ thr'[e][p].pc # "saveErr"
      BY <1>3, <1>4, <1>2, <1>n, <2>2
    <3>2. Disturbed' = Disturbed + 1
      BY <1>n, <3>1, FaultCounts DEF Disturbed
    <3>3. attempts[p] <= Len(logs[p]) + Disturbed'
      BY <1>2, <1>5, <1>n, <3>2
    <3>4. Disturbed' \in Nat /\ Len(logs[p]) \in Nat
      BY <1>5, <1>n, <3>2
    <3> QED BY <1>1, <1>2, <1>3, <1>n, <2>1, <2>2, <3>1, <3>3, <3>4 DEF AttemptsFit
  <2>3. CASE logs' = [logs EXCEPT ![p] = Append(logs[p], thr[e][p].retry + 1)]
    <3>1. thr'[e][p].pc \notin Unloggable
      <4>1. logs' # logs
        BY <1>2, <1>4, <1>n, <2>3
      <4> QED BY <1>3, <4>1 DEF Unloggable
    <3>2. /\ Len(logs'[p]) = row[p].retry + 1 /\ Disturbed' \in Nat
          /\ \A i \in DOMAIN logs'[p] : logs'[p][i] = i
      BY <1>4, <1>5, <2>3
    <3>3. attempts[p] <= Len(logs'[p]) + Disturbed'
      BY <1>2, <1>n, <3>2
    <3> QED BY SMTT(30), <1>1, <1>2, <1>3, <1>n, <2>1, <3>1, <3>2, <3>3 DEF AttemptsFit
  <2> QED BY <1>3, <2>2, <2>3
<1>9. CommentsFit(e, p)'
  BY <1>1, <1>3 DEF Book, CommentsFit
<1> QED BY <1>6, <1>7, <1>8, <1>9 DEF Book

\* The save of _schedule_retry or _fail_permanently: the retry it counts is the
\* attempt that was logged.
LEMMA SaveOutcomeBook ==
  ASSUME TypeOK, TypeOK', NEW e \in Engines, NEW p \in PP, Book(e, p), SaveOutcome(e, p)
  PROVE  Book(e, p)'
<1>n. /\ spent.lost \in Nat /\ spent.db \in Nat /\ spent.crash \in Nat
      /\ row[p].retry \in Nat /\ attempts[p] \in Nat /\ live[p] \in Nat
      /\ Len(logs[p]) \in Nat /\ thr[e][p] \in Thread /\ thr[e][p].retry \in Nat
  BY BookTypes DEF TypeOK, Faults, Row, Thread
<1>1. /\ UNCHANGED <<logs, tasks, commentRuns, attempts, live>>
      /\ thr[e][p].pc = "saveErr" /\ Goto(e, p, "failure")
  BY DEF SaveOutcome, ghosts
<1>2. thr'[e][p].pc = "failure"
  BY <1>1, GotoHolds
<1>3. /\ thr[e][p].retry = row[p].retry /\ Len(logs[p]) = row[p].retry + 1
      /\ row[p].retry <= MAX_RETRIES /\ attempts[p] <= row[p].retry + 1
      /\ \A i \in DOMAIN logs[p] : logs[p][i] = i
      /\ attempts[p] <= Len(logs[p]) + Disturbed /\ live[p] <= Forgiven
      /\ row[p].status \in {"publishing", "published"}
      /\ tasks[p] + commentRuns[p] = 0 \/ ~(tasks[p] + commentRuns[p] > 0)
  BY <1>1 DEF Book, StatusFits, CopiesFit, AttemptsFit, CommentsFit, InHand, Working, Unloggable
<1>4. \/ /\ row'[p].status = "scheduled" /\ row'[p].retry = row[p].retry + 1
         /\ row[p].retry < MAX_RETRIES /\ UNCHANGED spent
      \/ row'[p].status = "failed" /\ row'[p].retry = row[p].retry /\ UNCHANGED spent
      \/ row' = row /\ Fault
  <2>1. Rescheduled(thr[e][p]).retry = thr[e][p].retry + 1
    BY <1>n DEF Rescheduled, Thread
  <2>2. ASSUME NEW u, NEW s, FullSave(p, u, s)
        PROVE  row'[p].status = s /\ row'[p].retry = u.retry
    BY <2>2 DEF FullSave, TypeOK
  <2>3. \/ /\ thr[e][p].retry < MAX_RETRIES /\ UNCHANGED spent
           /\ FullSave(p, Rescheduled(thr[e][p]), "scheduled")
        \/ FullSave(p, thr[e][p], "failed") /\ UNCHANGED spent
        \/ row' = row /\ Fault
    BY DEF SaveOutcome
  <2> QED BY <1>3, <2>1, <2>2, <2>3
<1>5. /\ Disturbed \in Nat /\ Forgiven \in Nat
      /\ \/ Disturbed' = Disturbed /\ Forgiven' = Forgiven /\ row' # row
         \/ row' = row /\ Disturbed' = Disturbed + 1 /\ Forgiven' = Forgiven + 1 /\ spent'.db > 0
  <2>1. Disturbed \in Nat /\ Forgiven \in Nat
    BY <1>n DEF Disturbed, Forgiven
  <2>2. CASE row'[p].status \in {"scheduled", "failed"} /\ UNCHANGED spent
    <3>1. Disturbed' = Disturbed /\ Forgiven' = Forgiven
      BY <2>2 DEF Disturbed, Forgiven
    <3>2. row' # row
      BY <1>3, <2>2
    <3> QED BY <2>1, <3>1, <3>2
  <2>3. CASE row' = row /\ Fault
    <3>1. /\ spent'.lost = spent.lost /\ spent'.db = spent.db + 1
          /\ spent'.crash = spent.crash
      BY <2>3, FaultCounts
    <3>2. Disturbed' = Disturbed + 1 /\ Forgiven' = Forgiven + 1 /\ spent'.db > 0
      BY SMTT(30), <1>n, <3>1 DEF Disturbed, Forgiven
    <3> QED BY <2>1, <2>3, <3>2
  <2> QED BY <1>4, <2>2, <2>3
<1>6. StatusFits(e, p)'
  BY <1>2, <1>3, <1>4, <1>5, <1>n DEF Book, StatusFits, Working, Waiting
<1>7. CopiesFit(e, p)'
  BY <1>1, <1>2, <1>3, <1>4, <1>5, <1>n DEF Book, CopiesFit
<1>8. AttemptsFit(e, p)'
  <2>1. /\ row'[p].retry \in Nat /\ row'[p].retry <= MAX_RETRIES
        /\ attempts[p] <= row'[p].retry + 1
        /\ row'[p].status = "scheduled" => row'[p].retry = row[p].retry + 1
    <3>1. CASE row'[p].retry = row[p].retry + 1 /\ row[p].retry < MAX_RETRIES
      <4>1. MAX_RETRIES \in Nat
        BY PublisherAssumption
      <4> QED BY <1>3, <1>n, <3>1, <4>1
    <3>2. CASE row'[p].retry = row[p].retry /\ row'[p].status # "scheduled"
      BY <1>3, <1>n, <3>2
    <3>3. \/ row'[p].retry = row[p].retry + 1 /\ row[p].retry < MAX_RETRIES
          \/ row'[p].retry = row[p].retry /\ row'[p].status # "scheduled"
      BY <1>3, <1>4
    <3> QED BY <3>1, <3>2, <3>3
  <2>2. thr'[e][p].pc \notin InHand \union Unloggable
    BY <1>2 DEF InHand, Working, Unloggable
  <2>3. attempts[p] <= Len(logs[p]) + Disturbed' /\ Disturbed' \in Nat
    BY SMTT(30), <1>3, <1>5, <1>n
  <2>4. thr'[e][p].pc \notin {"call", "saveErr"}
    BY <1>2
  <2>5. row'[p].status = "scheduled" => attempts[p] <= row'[p].retry
    BY <1>3, <1>n, <2>1
  <2> QED BY <1>1, <1>3, <1>n, <2>1, <2>2, <2>3, <2>4, <2>5 DEF AttemptsFit
<1>9. CommentsFit(e, p)'
  BY <1>1 DEF Book, CommentsFit
<1> QED BY <1>6, <1>7, <1>8, <1>9 DEF Book

\* The retry loop takes up a row that is still as it was listed.
LEMMA StartRetryBook ==
  ASSUME TypeOK, TypeOK', NEW e \in Engines, NEW p \in PP, Book(e, p), StartRetry(e, p)
  PROVE  Book(e, p)'
<1>1. /\ UNCHANGED <<logs, tasks, commentRuns, attempts, live, spent>>
      /\ thr[e][p].pc = "queued" /\ row[p].status = "scheduled"
      /\ thr[e][p].retry = row[p].retry /\ Goto(e, p, "call")
  BY DEF StartRetry, ghosts, Book, StatusFits, AttemptsFit, InHand, Waiting
<1>2. thr'[e][p].pc = "call" /\ thr'[e][p].retry = row[p].retry
  BY <1>1, GotoHolds
<1>3. row'[p].status = "publishing" /\ row'[p].retry = row[p].retry
      /\ row'[p].pubAt = row[p].pubAt
  BY DEF StartRetry, TypeOK, Row
<1>4. StatusFits(e, p)'
  BY <1>2, <1>3 DEF StatusFits, Working, Waiting
<1>5. CopiesFit(e, p)'
  BY <1>1, <1>2, <1>3 DEF Book, CopiesFit, Forgiven
<1>6. AttemptsFit(e, p)'
  <2>1. thr'[e][p].pc \notin Unloggable /\ thr[e][p].pc \notin Unloggable
    BY <1>1, <1>2 DEF Unloggable
  <2>2. Disturbed' = Disturbed
    BY <1>1 DEF Disturbed
  <2> QED BY <1>1, <1>2, <1>3, <2>1, <2>2 DEF Book, AttemptsFit
<1>7. CommentsFit(e, p)'
  BY <1>1 DEF Book, CommentsFit
<1> QED BY <1>4, <1>5, <1>6, <1>7 DEF Book

\* refresh_from_db and the first-comment task: all is done with the row then.
LEMMA CommentBook ==
  ASSUME TypeOK, TypeOK', NEW e \in Engines, NEW p \in PP, Book(e, p),
         ScheduleFirstComment(e, p)
  PROVE  Book(e, p)'
<1>1. /\ UNCHANGED <<row, logs, commentRuns, attempts, live, spent>>
      /\ thr[e][p].pc = "refresh" /\ thr'[e][p].pc = "idle"
      /\ \/ tasks' = tasks
         \/ tasks'[p] = tasks[p] + 1 /\ row[p].status = "published"
  <2>1. thr'[e][p] = Idle
    BY StepOthers DEF ScheduleFirstComment
  <2> QED BY <2>1 DEF ScheduleFirstComment, Idle, tables, ghosts, TypeOK
<1>2. tasks[p] \in Nat /\ commentRuns[p] \in Nat
  BY BookTypes
<1>3. StatusFits(e, p)'
  BY <1>1 DEF Book, StatusFits, Waiting, Working, Disturbed
<1>4. CopiesFit(e, p)'
  BY <1>1 DEF Book, CopiesFit, Forgiven
<1>5. AttemptsFit(e, p)'
  <2>1. /\ thr[e][p].pc \notin Unloggable /\ Disturbed' = Disturbed
        /\ thr'[e][p].pc \notin InHand \union Unloggable
    BY <1>1 DEF Unloggable, InHand, Working, Disturbed
  <2> QED BY <1>1, <2>1 DEF Book, AttemptsFit
<1>6. CommentsFit(e, p)'
  BY <1>1, <1>2 DEF Book, CommentsFit
<1> QED BY <1>3, <1>4, <1>5, <1>6 DEF Book

-----------------------------------------------------------------------------
(* The steps of the groups, of the cycle and of the environment            *)

\* The claim: every listed row of one engine is still scheduled, and is taken.
LEMMA ClaimBooks ==
  ASSUME TypeOK, TypeOK', NEW e \in Engines, NEW q \in Posts, BooksInv(e), ClaimGroup(e, q)
  PROVE  BooksInv(e)'
<1> DEFINE L == {p \in PlatformPosts(q) : thr[e][p].pc = "listed"}
           C == {p \in L : row[p].status = "scheduled"}
           t == [p \in L |->
                  IF p \in C
                  THEN [Load(p, "call") EXCEPT !.postPubAt = thr[e][p].postPubAt]
                  ELSE Idle]
<1>1. L \in SUBSET PP
  BY DEF PlatformPosts
<1>2. StepAll(e, L, t)
  BY DEF ClaimGroup
<1>3. UNCHANGED <<logs, tasks, commentRuns, attempts, live, spent>>
  BY DEF ClaimGroup, ghosts
<1>4. row' = [p \in PP |-> IF p \in C THEN [row[p] EXCEPT !.status = "publishing"]
                          ELSE row[p]]
  BY DEF ClaimGroup
<1>5. \A p \in L : p \in C
  BY <1>1 DEF BooksInv, Book, StatusFits, Waiting
<1>6. \A p \in L : t[p].pc = "call" /\ t[p].retry = row[p].retry
  BY <1>5 DEF Load
<1>7. \A p \in L : thr[e][p].pc = "listed" /\ row[p].status = "scheduled"
  BY <1>5
<1>s. SpentGrows
  BY <1>3, NothingSpent
<1> HIDE DEF L, C, t
<1> SUFFICES ASSUME NEW r \in PP PROVE Book(e, r)'
  BY DEF BooksInv
<1>b. Book(e, r)
  BY DEF BooksInv
<1>8. CASE r \notin L
  <2>1. r \notin C
    BY <1>8 DEF C
  <2>2. Untouched(e, r)
    BY ZenonT(60), <1>1, <1>2, <1>3, <1>4, <1>8, <2>1, StepAllAt DEF Untouched
  <2> QED BY <1>b, <1>s, <2>2, UntouchedFits
<1>9. CASE r \in L
  <2>1. thr'[e][r].pc = "call" /\ thr'[e][r].retry = row[r].retry
    BY <1>1, <1>2, <1>6, <1>9, StepAllAt
  <2>2. row'[r].status = "publishing" /\ row'[r].retry = row[r].retry
    <3>1. row'[r] = [row[r] EXCEPT !.status = "publishing"] /\ row[r] \in Row
      BY <1>4, <1>5, <1>9 DEF TypeOK
    <3> QED BY <3>1 DEF Row
  <2>3. StatusFits(e, r)'
    BY <2>1, <2>2 DEF StatusFits, Working, Waiting
  <2>4. CopiesFit(e, r)'
    BY <1>3, <1>7, <1>9, <1>b, <2>1, <2>2 DEF Book, CopiesFit, Forgiven
  <2>5. AttemptsFit(e, r)'
    <3>1. thr'[e][r].pc \notin Unloggable /\ thr[e][r].pc \notin Unloggable
      BY <1>7, <1>9, <2>1 DEF Unloggable
    <3>2. Disturbed' = Disturbed
      BY <1>3 DEF Disturbed
    <3> QED BY <1>3, <1>7, <1>9, <1>b, <2>1, <2>2, <3>1, <3>2 DEF Book, AttemptsFit
  <2>6. CommentsFit(e, r)'
    BY <1>3, <1>7, <1>9, <1>b DEF Book, CommentsFit
  <2> QED BY <2>3, <2>4, <2>5, <2>6 DEF Book
<1> QED BY <1>8, <1>9

\* Threads that have nothing in hand move, and nothing is written: what each of
\* them takes up is a scheduled row.
LEMMA CalmBooks ==
  ASSUME TypeOK, TypeOK', NEW e \in Engines, BooksInv(e),
         UNCHANGED <<row, logs, live, attempts, tasks, commentRuns, spent>>,
         NEW G \in SUBSET PP, NEW t, StepAll(e, G, t),
         \A p \in G : /\ t[p].pc \in {"idle", "sync", "refresh"} \union Waiting
                      /\ t[p].pc \in Waiting => row[p].status = "scheduled"
                      /\ t[p].pc = "queued" => t[p].retry = row[p].retry
                      /\ thr[e][p].pc \in {"listed", "sync"} \union Ended
                           \/ row[p].status = "scheduled"
  PROVE  BooksInv(e)'
<1>s. SpentGrows
  BY NothingSpent
<1> SUFFICES ASSUME NEW r \in PP PROVE Book(e, r)'
  BY DEF BooksInv
<1>b. Book(e, r)
  BY DEF BooksInv
<1>1. CASE r \notin G
  <2>1. Untouched(e, r)
    BY SMTT(30), <1>1, StepAllAt DEF Untouched
  <2> QED BY <1>b, <1>s, <2>1, UntouchedFits
<1>2. CASE r \in G
  <2>1. thr'[e][r] = t[r]
    BY <1>2, StepAllAt
  <2>2. thr[e][r].pc \notin Working
    BY <1>2, <1>b DEF Book, StatusFits, Working, Ended
  <2>3. thr'[e][r].pc \notin Working \union {"success"}
    BY <1>2, <2>1 DEF Working, Waiting
  <2>4. /\ thr'[e][r].pc \in Waiting => row[r].status = "scheduled"
        /\ thr'[e][r].pc = "queued" => thr'[e][r].retry = row[r].retry
        /\ thr'[e][r].pc = "idle" \/ thr[e][r].pc # "idle" \/ row[r].status = "scheduled"
    BY <1>2, <2>1 DEF Ended
  <2> QED BY <1>b, <1>s, <2>2, <2>3, <2>4, CalmBook
<1> QED BY <1>1, <1>2

\* The statements of the cycle and between the threads of a group.
LEMMA CycleBooks ==
  ASSUME TypeOK, TypeOK', NEW e \in Engines, BooksInv(e), CycleStep(e)
  PROVE  BooksInv(e)'
<1>1. CASE Poll(e)
  <2>1. PICK B \in SUBSET PP :
          /\ DueBatch(B)
          /\ StepAll(e, B, [p \in B |-> [Idle EXCEPT !.pc = "listed",
                                          !.postPubAt = postPubAt[ParentOf[p]]]])
    BY <1>1 DEF Poll
  <2> DEFINE t == [p \in B |-> [Idle EXCEPT !.pc = "listed",
                                           !.postPubAt = postPubAt[ParentOf[p]]]]
  <2>2. \A p \in B : t[p].pc = "listed"
    BY DEF Idle
  <2>3. \A p \in B : row[p].status = "scheduled"
    BY <2>1 DEF DueBatch, Due
  <2>4. StepAll(e, B, t) /\ UNCHANGED <<row, logs, live, attempts, tasks, commentRuns, spent>>
    <3>1. UNCHANGED <<row, logs, live, attempts, tasks, commentRuns, spent>>
      BY <1>1 DEF Poll, tables, ghosts
    <3> QED BY <2>1, <3>1
  <2> HIDE DEF t
  <2> QED BY <2>2, <2>3, <2>4, CalmBooks DEF Waiting
<1>2. CASE ListRetries(e)
  <2> DEFINE R == {p \in PP : RetryDue(p)}
             t == [p \in R |-> Load(p, "queued")]
  <2>1. \A p \in R : /\ t[p].pc = "queued" /\ t[p].retry = row[p].retry
                     /\ row[p].status = "scheduled"
    BY DEF Load, RetryDue
  <2>2. StepAll(e, R, t) /\ UNCHANGED <<row, logs, live, attempts, tasks, commentRuns, spent>>
    <3>1. UNCHANGED <<row, logs, live, attempts, tasks, commentRuns, spent>>
      BY <1>2 DEF ListRetries, tables, ghosts
    <3> QED BY <1>2, <3>1 DEF ListRetries
  <2>3. R \in SUBSET PP
    OBVIOUS
  <2> HIDE DEF R, t
  <2> QED BY <2>1, <2>2, <2>3, CalmBooks DEF Waiting
<1>3. CASE EndCycle(e)
  <2>1. UNCHANGED <<row, thr, logs, live, attempts, tasks, commentRuns, spent>>
    BY <1>3 DEF EndCycle, tables, ghosts
  <2>2. SpentGrows /\ \A r \in PP : Untouched(e, r)
    BY <2>1, NothingSpent DEF Untouched
  <2> QED BY <2>2, UntouchedFits DEF BooksInv
<1> QED BY <1>1, <1>2, <1>3 DEF CycleStep

\* No step of a group of rows breaks the books.
LEMMA GroupBooks ==
  ASSUME TypeOK, TypeOK', NEW e \in Engines, NEW q \in Posts, BooksInv(e), GroupStep(e, q)
  PROVE  BooksInv(e)'
<1> DEFINE G == Group(e, q)
<1>1. G \in SUBSET PP /\ \A p \in G : thr[e][p] \in Thread
  BY ThreadType DEF Group, PlatformPosts
<1>2. CASE ClaimGroup(e, q)
  BY <1>2, ClaimBooks
<1>3. CASE ReadLatest(e, q)
  <2> DEFINE t == [p \in G |-> [thr[e][p] EXCEPT !.pc = "sync", !.latest = LatestPubAt(q)]]
  <2>1. \A p \in G : t[p].pc = "sync"
    <3> HIDE DEF G
    <3> QED BY <1>1 DEF Thread
  <2>2. StepAll(e, G, t) /\ \A p \in G : thr[e][p].pc \in Ended
    BY <1>3, ZenonT(30) DEF ReadLatest
  <2>3. UNCHANGED <<row, logs, live, attempts, tasks, commentRuns, spent>>
    BY <1>3 DEF ReadLatest, tables, ghosts
  <2> HIDE DEF t, G
  <2> QED BY <1>1, <2>1, <2>2, <2>3, CalmBooks DEF Waiting
<1>4. CASE SyncParentPublishedAt(e, q)
  <2> DEFINE t == [p \in G |-> IF mode[e] = "polling"
                              THEN [thr[e][p] EXCEPT !.pc = "refresh"] ELSE Idle]
  <2>1. \A p \in G : t[p].pc \in {"refresh", "idle"}
    <3> HIDE DEF G
    <3> QED BY <1>1 DEF Thread, Idle
  <2>2. StepAll(e, G, t) /\ \A p \in G : thr[e][p].pc = "sync"
    BY <1>4, ZenonT(30) DEF SyncParentPublishedAt
  <2>3. UNCHANGED <<row, logs, live, attempts, tasks, commentRuns, spent>>
    BY <1>4 DEF SyncParentPublishedAt, ghosts
  <2> HIDE DEF t, G
  <2> QED BY <1>1, <2>1, <2>2, <2>3, CalmBooks DEF Waiting
<1> QED BY <1>2, <1>3, <1>4 DEF GroupStep

\* The statements of the thread or retry turn of one row.
LEMMA ThreadBooks ==
  ASSUME TypeOK, TypeOK', NEW e \in Engines, NEW p \in PP, BooksInv(e), ThreadStep(e, p)
  PROVE  BooksInv(e)'
<1>1. SpentGrows /\ \A r \in PP : r # p => Untouched(e, r)
  BY ThreadFrame
<1>b. Book(e, p)
  BY DEF BooksInv
<1>2. CASE EndFailedRetry(e, p)
  <2>1. thr'[e][p].pc = "idle" /\ thr[e][p].pc = "failure"
    BY <1>2, StepOthers DEF EndFailedRetry, Idle
  <2>2. UNCHANGED <<row, logs, live, attempts, tasks, commentRuns>>
    BY <1>2 DEF EndFailedRetry, tables, ghosts
  <2> QED BY <1>1, <1>b, <2>1, <2>2, CalmBook, OneThread DEF Working, Waiting
<1>3. CASE ~EndFailedRetry(e, p)
  <2>1. Book(e, p)'
    BY <1>b, <1>3, DispatchBook, SavePublishedBook, LogBook, SaveOutcomeBook,
       StartRetryBook, CommentBook DEF ThreadStep
  <2> QED BY <1>1, <2>1, OneThread
<1> QED BY <1>2, <1>3

\* A worker that dies drops what its threads had in hand.
LEMMA CrashBooks ==
  ASSUME TypeOK, TypeOK', NEW e \in Engines, BooksInv(e), Crash(e)
  PROVE  BooksInv(e)'
<1>1. /\ UNCHANGED <<row, logs, live, attempts, tasks, commentRuns>>
      /\ \A r \in PP : thr'[e][r].pc = "idle"
  BY DEF Crash, tables, ghosts, TypeOK, Idle
<1>2. /\ spent.lost \in Nat /\ spent.db \in Nat /\ spent.crash \in Nat
      /\ spent'.lost = spent.lost /\ spent'.db = spent.db
      /\ spent'.crash = spent.crash + 1
  BY DEF Crash, TypeOK, Faults
<1>3. SpentGrows /\ Disturbed' > Disturbed
  BY <1>2 DEF SpentGrows, Disturbed
<1> SUFFICES ASSUME NEW r \in PP PROVE Book(e, r)'
  BY DEF BooksInv
<1> QED BY <1>1, <1>3, CalmBook DEF BooksInv, Working, Waiting

\* With one engine every step of the system keeps the books.
LEMMA NextBooks ==
  ASSUME NEW e, Engines = {e}, TypeOK, TypeOK', BooksInv(e), [Next]_vars
  PROVE  BooksInv(e)'
<1>e. e \in Engines
  OBVIOUS
<1>1. ASSUME UNCHANGED <<row, thr, logs, live, attempts, spent>>,
             \A r \in PP : tasks'[r] + commentRuns'[r] = tasks[r] + commentRuns[r]
      PROVE  BooksInv(e)'
  <2>1. SpentGrows /\ \A r \in PP : Untouched(e, r)
    BY <1>1, NothingSpent DEF Untouched
  <2> QED BY <1>e, <2>1, UntouchedFits DEF BooksInv
<1>2. ASSUME NEW p \in PP, RunFirstComment(p) PROVE BooksInv(e)'
  <2>1. UNCHANGED <<row, thr, logs, live, attempts, spent>>
    BY <1>2 DEF RunFirstComment, tables
  <2>2. \A r \in PP : tasks'[r] + commentRuns'[r] = tasks[r] + commentRuns[r]
    <3>1. tasks \in [PP -> Nat] /\ commentRuns \in [PP -> Nat]
      BY DEF TypeOK
    <3> QED BY <1>2, <3>1 DEF RunFirstComment
  <2> QED BY <1>1, <2>1, <2>2
<1>3. CASE Tick \/ UNCHANGED vars
  BY <1>1, <1>3 DEF Tick, vars, tables, ghosts
<1>4. CASE CycleStep(e)
  BY <1>e, <1>4, CycleBooks
<1>5. CASE Crash(e)
  BY <1>e, <1>5, CrashBooks
<1>6. ASSUME NEW p \in PP, ThreadStep(e, p) PROVE BooksInv(e)'
  BY <1>e, <1>6, ThreadBooks
<1>7. ASSUME NEW q \in Posts, GroupStep(e, q) PROVE BooksInv(e)'
  BY <1>e, <1>7, GroupBooks
<1> QED BY <1>e, <1>2, <1>3, <1>4, <1>5, <1>6, <1>7 DEF Next

\* At the start there is nothing in the books.
LEMMA InitBooks ==
  ASSUME NEW e \in Engines, Init
  PROVE  BooksInv(e)
<1> SUFFICES ASSUME NEW p \in PP PROVE Book(e, p)
  BY DEF BooksInv
<1>1. /\ row[p].status = "scheduled" /\ row[p].retry = 0
      /\ thr[e][p].pc = "idle" /\ tasks[p] = 0 /\ commentRuns[p] = 0 /\ logs[p] = <<>>
      /\ attempts[p] = 0 /\ live[p] = 0
      /\ spent.lost = 0 /\ spent.db = 0 /\ spent.crash = 0
  BY DEF Init, Idle
<1>2. StatusFits(e, p) /\ CommentsFit(e, p)
  BY <1>1 DEF StatusFits, CommentsFit, Waiting, Working
<1>3. CopiesFit(e, p)
  BY <1>1 DEF CopiesFit, Forgiven
<1>4. AttemptsFit(e, p)
  <2>1. MAX_RETRIES \in Nat
    BY PublisherAssumption
  <2>2. Len(logs[p]) = 0 /\ DOMAIN logs[p] = {}
    BY <1>1
  <2> QED BY <1>1, <2>1, <2>2 DEF AttemptsFit, Disturbed, InHand, Working, Unloggable
<1> QED BY <1>2, <1>3, <1>4 DEF Book

\* With one engine the platform holds at most one copy of a row's post, plus one
\* per lost reply or failed statement, for every number of rows and retries and
\* wherever the worker dies (the status written before the call, and the retries
\* that are only scheduled after a failure).
THEOREM NoDoublePostWithOneEngine ==
  ASSUME NEW e, Engines = {e}
  PROVE  Spec => []NoDoublePost
<1>1. Init => TypeOK /\ BooksInv(e)
  BY InitTypeOK, InitBooks
<1>2. TypeOK /\ BooksInv(e) /\ [Next]_vars => (TypeOK /\ BooksInv(e))'
  BY NextTypeOK, NextBooks
<1>3. TypeOK /\ BooksInv(e) => NoDoublePost
  <2> SUFFICES ASSUME TypeOK, NEW p \in PP, Book(e, p)
               PROVE  live[p] <= 1 + spent.lost + spent.db
    BY DEF BooksInv, NoDoublePost
  <2>1. live[p] <= 1 + (spent.lost + spent.db)
    BY DEF Book, CopiesFit, Forgiven
  <2>2. live[p] \in Nat /\ spent.lost \in Nat /\ spent.db \in Nat
    BY DEF TypeOK, Faults
  <2> QED BY <2>1, <2>2
<1> QED BY <1>1, <1>2, <1>3, PTL DEF Spec

-----------------------------------------------------------------------------
(* Post.published_at is the latest published_at of its rows                *)

\* One thread moves and writes at most its own row: what the others have read of
\* the post still holds, since this thread is not among those that are synced.
LEMMA OneThreadParents ==
  ASSUME TypeOK, TypeOK', NEW e \in Engines, NEW p \in PP, NEW t, Step(e, p, t),
         ParentsFit(e), UNCHANGED <<postPubAt, mode>>,
         \A r \in PP : r # p => row'[r] = row[r],
         \/ thr[e][p].pc \notin {"idle", "queued", "sync"}
         \/ \A r \in PP : thr[e][r].pc # "sync",
         t.pc # "sync", RowLags(e, p)',
         row'[p].pubAt = row[p].pubAt \/ row[p].pubAt = 0
  PROVE  ParentsFit(e)'
<1>1. thr'[e][p] = t /\ \A r \in PP : r # p => thr'[e][r] = thr[e][r]
  BY StepOthers
<1>2. ASSUME NEW r \in PP PROVE RowLags(e, r)'
  <2>1. CASE r = p
    BY <2>1
  <2>2. CASE r # p
    BY <1>1, <2>2 DEF ParentsFit, RowLags
  <2> QED BY <2>1, <2>2
<1>3. ASSUME NEW r \in PP PROVE SyncFits(e, r)'
  <2> SUFFICES ASSUME thr'[e][r].pc = "sync"
      PROVE /\ \A c \in PlatformPosts(ParentOf[r]) :
                 thr'[e][c].pc \in {"idle", "queued", "sync"} /\ row'[c].pubAt <= thr'[e][r].latest
            /\ thr'[e][r].latest # 0 =>
                 \E c \in PlatformPosts(ParentOf[r]) : row'[c].pubAt = thr'[e][r].latest
    BY DEF SyncFits
  <2>1. r # p /\ thr'[e][r] = thr[e][r]
    BY <1>1
  <2>2. SyncFits(e, r) /\ thr[e][r].pc = "sync"
    BY <2>1 DEF ParentsFit
  <2>3. p \notin PlatformPosts(ParentOf[r])
    BY <2>2 DEF SyncFits
  <2>4. \A c \in PlatformPosts(ParentOf[r]) : row'[c] = row[c] /\ thr'[e][c] = thr[e][c]
    BY <1>1, <2>3 DEF PlatformPosts
  <2> QED BY <2>1, <2>2, <2>4 DEF SyncFits
<1>4. ASSUME NEW q \in Posts PROVE PostFits(q)'
  <2> SUFFICES ASSUME postPubAt[q] # 0
               PROVE  \E c \in PlatformPosts(q) : row'[c].pubAt = postPubAt[q]
    BY DEF PostFits
  <2>1. PICK c \in PlatformPosts(q) : row[c].pubAt = postPubAt[q]
    BY DEF ParentsFit, PostFits
  <2>2. row'[c].pubAt = row[c].pubAt
    BY <2>1 DEF PlatformPosts
  <2> QED BY <2>1, <2>2
<1> QED BY <1>2, <1>3, <1>4 DEF ParentsFit

\* LatestPubAt is the maximum it is meant to be.
LEMMA LatestIsMax ==
  ASSUME TypeOK, NEW q \in Posts
  PROVE  /\ LatestPubAt(q) \in Times
         /\ \A p \in PlatformPosts(q) : row[p].pubAt <= LatestPubAt(q)
         /\ LatestPubAt(q) # 0 => \E p \in PlatformPosts(q) : row[p].pubAt = LatestPubAt(q)
<1> DEFINE S == {row[p].pubAt : p \in PlatformPosts(q)} \union {0}
<1>1. S \in SUBSET Times /\ S # {}
  BY PublisherAssumption DEF TypeOK, Row, Times, PlatformPosts
<1>2. \E t \in S : \A s \in S : s <= t
  BY <1>1, LargestTick
<1>3. \E t \in S : \A p \in PlatformPosts(q) : row[p].pubAt <= t
  BY <1>2
<1>4. LatestPubAt(q) \in S /\ \A p \in PlatformPosts(q) : row[p].pubAt <= LatestPubAt(q)
  BY <1>3 DEF LatestPubAt
<1> QED BY <1>1, <1>4

\* The statements of a thread, when none of them fails.
LEMMA ThreadParents ==
  ASSUME TypeOK, TypeOK', NEW e \in Engines, NEW p \in PP, BooksInv(e), ParentsFit(e),
         ThreadStep(e, p), Disturbed' = 0
  PROVE  ParentsFit(e)'
<1>f. ~Fault
  <2> SUFFICES ASSUME Fault PROVE FALSE
    OBVIOUS
  <2>1. spent'.db = spent.db + 1 /\ spent'.crash = spent.crash
    BY FaultCounts
  <2>2. spent.db \in Nat /\ spent.crash \in Nat
    BY DEF TypeOK, Faults
  <2> QED BY <2>1, <2>2 DEF Disturbed
<1>b. Book(e, p) /\ RowLags(e, p)
  BY DEF BooksInv, ParentsFit
<1>o. \A r \in PP : r # p => row'[r] = row[r]
  BY ThreadFrame DEF Untouched
<1>n. /\ spent.db \in Nat /\ spent.crash \in Nat /\ row[p] \in Row /\ thr[e][p] \in Thread
  BY DEF TypeOK, Faults
<1> DEFINE Known == /\ thr'[e][p].postPubAt = thr[e][p].postPubAt
                    /\ thr'[e][p].pubAt = thr[e][p].pubAt
           Elsewhere == \/ thr[e][p].pc \notin {"idle", "queued", "sync"}
                        \/ \A r \in PP : thr[e][r].pc # "sync"
<1>1. CASE DispatchOk(e, p)
  <2>1. UNCHANGED <<row, postPubAt, mode>> /\ thr[e][p].pc = "call" /\ Goto(e, p, "saveOk")
    BY <1>1 DEF DispatchOk, tables
  <2>2. thr'[e][p].pc = "saveOk" /\ Known
    BY <2>1, GotoHolds
  <2>3. RowLags(e, p)'
    BY <1>b, <2>1, <2>2 DEF RowLags
  <2> QED BY <2>1, <2>2, <2>3, OneThreadParents, StepOthers DEF Goto
<1>2. CASE DispatchError(e, p) \/ DispatchLost(e, p)
  <2>1. UNCHANGED <<row, postPubAt, mode>> /\ thr[e][p].pc = "call" /\ CallRaises(e, p)
    BY <1>2 DEF DispatchError, DispatchLost, tables, CallRaises
  <2>2. thr'[e][p].pc = "logErr" /\ Known
    BY <2>1, RaiseHolds
  <2>3. RowLags(e, p)'
    BY <1>b, <2>1, <2>2 DEF RowLags
  <2>4. PICK t : Step(e, p, t)
    BY <2>1 DEF CallRaises
  <2> QED BY <2>1, <2>2, <2>3, <2>4, OneThreadParents, StepOthers
<1>3. CASE SavePublished(e, p)
  <2> DEFINE t == [thr[e][p] EXCEPT !.pubAt = now]
             u == [t EXCEPT !.pc = "logOk"]
  <2>1. FullSave(p, t, "published") /\ Step(e, p, u) /\ UNCHANGED <<postPubAt, mode>>
    BY <1>3, <1>f DEF SavePublished
  <2>2. /\ t.pubAt = now /\ u.pc = "logOk" /\ u.postPubAt = thr[e][p].postPubAt
    BY <1>n DEF Thread
  <2>3. thr[e][p].pc = "saveOk"
    BY <1>3 DEF SavePublished
  <2> HIDE DEF t, u
  <2>4. row'[p].status = "published" /\ row'[p].pubAt = now
    BY <2>1, <2>2 DEF FullSave, TypeOK
  <2>5. thr'[e][p] = u
    BY <2>1, StepOthers
  <2>6. RowLags(e, p)'
    BY <1>b, <2>1, <2>2, <2>3, <2>4, <2>5 DEF RowLags
  <2>7. row[p].pubAt = 0
    BY <1>b, <2>3 DEF RowLags, Book, StatusFits
  <2> QED BY <1>o, <2>1, <2>2, <2>3, <2>6, <2>7, OneThreadParents
<1>4. CASE LogSuccess(e, p)
  <2>1. UNCHANGED <<row, postPubAt, mode>> /\ thr[e][p].pc = "logOk" /\ Goto(e, p, "success")
    BY <1>4, <1>f DEF LogSuccess, tables
  <2>2. thr'[e][p].pc = "success" /\ Known
    BY <2>1, GotoHolds
  <2>3. RowLags(e, p)'
    BY <1>b, <2>1, <2>2 DEF RowLags
  <2> QED BY <2>1, <2>2, <2>3, OneThreadParents, StepOthers DEF Goto
<1>5. CASE LogFailure(e, p)
  <2>1. UNCHANGED <<row, postPubAt, mode>> /\ thr[e][p].pc = "logErr" /\ Goto(e, p, "saveErr")
    BY <1>5, <1>f DEF LogFailure, tables
  <2>2. thr'[e][p].pc = "saveErr" /\ Known
    BY <2>1, GotoHolds
  <2>3. RowLags(e, p)'
    BY <1>b, <2>1, <2>2 DEF RowLags
  <2> QED BY <2>1, <2>2, <2>3, OneThreadParents, StepOthers DEF Goto
<1>6. CASE SaveOutcome(e, p)
  <2>1. /\ UNCHANGED <<postPubAt, mode, spent>> /\ thr[e][p].pc = "saveErr"
        /\ Goto(e, p, "failure")
        /\ \/ FullSave(p, Rescheduled(thr[e][p]), "scheduled")
           \/ FullSave(p, thr[e][p], "failed")
    BY <1>6, <1>f DEF SaveOutcome
  <2>2. thr'[e][p].pc = "failure" /\ Known
    BY <2>1, GotoHolds
  <2>3. Rescheduled(thr[e][p]).pubAt = thr[e][p].pubAt
    BY <1>n DEF Rescheduled, Thread
  <2>4. ASSUME NEW u, NEW s, FullSave(p, u, s)
        PROVE  row'[p].status = s /\ row'[p].pubAt = u.pubAt
    BY <2>4 DEF FullSave, TypeOK
  <2>5. row'[p].status # "published" /\ row'[p].pubAt = thr[e][p].pubAt
    BY <2>1, <2>3, <2>4
  <2>6. thr[e][p].pubAt = 0 /\ row[p].pubAt = 0
    <3>1. ~(spent.db > 0)
      BY <1>n, <2>1 DEF Disturbed
    <3> QED BY <1>b, <2>1, <3>1 DEF RowLags, Book, StatusFits
  <2>7. postPubAt[ParentOf[p]] \in Times
    BY PublisherAssumption DEF TypeOK
  <2>8. RowLags(e, p)'
    BY <1>b, <2>1, <2>2, <2>5, <2>6, <2>7 DEF RowLags, Times
  <2> QED BY <1>o, <2>1, <2>2, <2>5, <2>6, <2>8, OneThreadParents, StepOthers DEF Goto
<1>7. CASE StartRetry(e, p)
  <2>1. UNCHANGED <<postPubAt, mode>> /\ thr[e][p].pc = "queued" /\ Goto(e, p, "call")
        /\ \A r \in PP : thr[e][r].pc # "sync"
    BY <1>7 DEF StartRetry
  <2>2. thr'[e][p].pc = "call" /\ Known
    BY <2>1, GotoHolds
  <2>3. row'[p].status = "publishing" /\ row'[p].pubAt = row[p].pubAt
        /\ row[p].status = "scheduled"
    BY <1>7, <1>b, <1>n DEF StartRetry, TypeOK, Row, Book, StatusFits, Waiting
  <2>4. RowLags(e, p)'
    BY <1>b, <2>1, <2>2, <2>3 DEF RowLags
  <2> QED BY <1>o, <2>1, <2>2, <2>3, <2>4, OneThreadParents, StepOthers DEF Goto
<1>8. CASE EndFailedRetry(e, p) \/ ScheduleFirstComment(e, p)
  <2>1. /\ UNCHANGED <<row, postPubAt, mode>> /\ thr[e][p].pc \in {"failure", "refresh"}
        /\ Step(e, p, Idle)
    BY <1>8 DEF EndFailedRetry, ScheduleFirstComment, tables
  <2>2. thr'[e][p].pc = "idle"
    BY <2>1, StepOthers DEF Idle
  <2>3. RowLags(e, p)'
    BY <1>b, <2>1, <2>2 DEF RowLags
  <2> QED BY <2>1, <2>2, <2>3, OneThreadParents, StepOthers
<1> QED BY <1>1, <1>2, <1>3, <1>4, <1>5, <1>6, <1>7, <1>8 DEF ThreadStep

\* Nothing of a group of rows is written: each post has the row it had.
LEMMA PostsKeep ==
  ASSUME NEW e, ParentsFit(e), UNCHANGED postPubAt,
         \A p \in PP : row'[p].pubAt = row[p].pubAt
  PROVE  \A q \in Posts : PostFits(q)'
  BY DEF ParentsFit, PostFits, PlatformPosts

\* The statements of the cycle.
LEMMA CycleParents ==
  ASSUME TypeOK, TypeOK', NEW e \in Engines, BooksInv(e), ParentsFit(e), CycleStep(e)
  PROVE  ParentsFit(e)'
<1>1. /\ UNCHANGED <<row, postPubAt>>
      /\ \A p \in PP : thr[e][p].pc = "idle"
  BY DEF CycleStep, Poll, ListRetries, EndCycle, tables, ParentsFit, RowLags
<1>2. \A p \in PP : PostFits(ParentOf[p])
  BY PublisherAssumption DEF ParentsFit
<1>3. \A p \in PP : /\ postPubAt[ParentOf[p]] \in Nat /\ row[p].pubAt \in Nat
  BY PublisherAssumption DEF TypeOK, Times, Row
<1>4. \A p \in PP :
        \/ thr'[e][p].pc = "idle"
        \/ /\ mode'[e] # "idle" /\ thr'[e][p].postPubAt = postPubAt[ParentOf[p]]
           /\ \/ thr'[e][p].pc = "listed"
              \/ /\ thr'[e][p].pc = "queued" /\ thr'[e][p].pubAt = row[p].pubAt
                 /\ row[p].status = "scheduled"
  <2>1. CASE Poll(e)
    <3>1. PICK B \in SUBSET PP :
            StepAll(e, B, [p \in B |-> [Idle EXCEPT !.pc = "listed",
                                          !.postPubAt = postPubAt[ParentOf[p]]]])
      BY <2>1 DEF Poll
    <3> DEFINE t == [p \in B |-> [Idle EXCEPT !.pc = "listed",
                                             !.postPubAt = postPubAt[ParentOf[p]]]]
    <3>2. \A p \in B : t[p].pc = "listed" /\ t[p].postPubAt = postPubAt[ParentOf[p]]
      BY DEF Idle
    <3>3. StepAll(e, B, t) /\ mode'[e] # "idle"
      BY <2>1, <3>1 DEF Poll, TypeOK
    <3> HIDE DEF t
    <3>4. \A p \in PP : thr'[e][p] = IF p \in B THEN t[p] ELSE thr[e][p]
      BY <3>3, StepAllAt
    <3> QED BY <1>1, <3>2, <3>3, <3>4
  <2>2. CASE ListRetries(e)
    <3> DEFINE R == {p \in PP : RetryDue(p)}
               t == [p \in R |-> Load(p, "queued")]
    <3>1. \A p \in R : /\ t[p].pc = "queued" /\ t[p].postPubAt = postPubAt[ParentOf[p]]
                       /\ t[p].pubAt = row[p].pubAt /\ row[p].status = "scheduled"
      BY DEF Load, RetryDue
    <3>2. StepAll(e, R, t) /\ R \in SUBSET PP /\ mode'[e] # "idle"
      BY <2>2 DEF ListRetries, TypeOK
    <3> HIDE DEF R, t
    <3>3. \A p \in PP : thr'[e][p] = IF p \in R THEN t[p] ELSE thr[e][p]
      BY <3>2, StepAllAt
    <3> QED BY <1>1, <3>1, <3>2, <3>3
  <2>3. CASE EndCycle(e)
    BY <1>1, <2>3 DEF EndCycle
  <2> QED BY <2>1, <2>2, <2>3 DEF CycleStep
<1>5. ASSUME NEW p \in PP PROVE RowLags(e, p)' /\ SyncFits(e, p)'
  <2>1. RowLags(e, p)
    BY DEF ParentsFit
  <2> QED BY <1>1, <1>3, <1>4, <2>1 DEF RowLags, SyncFits
<1> QED BY <1>1, <1>5, PostsKeep DEF ParentsFit

\* The claim loads rows that were never published.
LEMMA ClaimParents ==
  ASSUME TypeOK, TypeOK', NEW e \in Engines, NEW q \in Posts, BooksInv(e), ParentsFit(e),
         ClaimGroup(e, q)
  PROVE  ParentsFit(e)'
<1> DEFINE L == {p \in PlatformPosts(q) : thr[e][p].pc = "listed"}
           C == {p \in L : row[p].status = "scheduled"}
           t == [p \in L |->
                  IF p \in C
                  THEN [Load(p, "call") EXCEPT !.postPubAt = thr[e][p].postPubAt]
                  ELSE Idle]
<1>1. L \in SUBSET PP /\ \A p \in L : thr[e][p].pc = "listed"
  BY DEF PlatformPosts
<1>2. StepAll(e, L, t) /\ UNCHANGED <<postPubAt, mode>>
  BY DEF ClaimGroup
<1>3. \A p \in L : p \in C
  BY <1>1 DEF BooksInv, Book, StatusFits, Waiting
<1>4. \A p \in L : /\ t[p].pc = "call" /\ t[p].pubAt = row[p].pubAt
                   /\ t[p].postPubAt = thr[e][p].postPubAt
  BY <1>3 DEF Load
<1>5. /\ \A p \in L : row[p].status = "scheduled"
      /\ \A p \in PP : row'[p].pubAt = row[p].pubAt
      /\ \A p \in PP : p \notin L => row'[p] = row[p]
  <2>1. row' = [p \in PP |-> IF p \in C THEN [row[p] EXCEPT !.status = "publishing"]
                            ELSE row[p]]
    BY DEF ClaimGroup
  <2>2. \A p \in PP : row[p] \in Row
    BY DEF TypeOK
  <2>3. \A r \in Row : [r EXCEPT !.status = "publishing"].pubAt = r.pubAt
    BY DEF Row
  <2>4. \A p \in L : row[p].status = "scheduled"
    BY <1>3
  <2>5. \A p \in C : p \in L
    OBVIOUS
  <2> HIDE DEF C, L
  <2> QED BY <2>1, <2>2, <2>3, <2>4, <2>5
<1> HIDE DEF L, C, t
<1>6. \A p \in PP : thr'[e][p] = IF p \in L THEN t[p] ELSE thr[e][p]
  BY <1>1, <1>2, StepAllAt
<1>7. ASSUME NEW p \in PP PROVE RowLags(e, p)'
  <2>1. RowLags(e, p)
    BY DEF ParentsFit
  <2>2. CASE p \in L
    <3>1. row[p].pubAt = 0 /\ row'[p].pubAt = 0 /\ thr'[e][p].pc = "call"
          /\ thr'[e][p].pubAt = 0 /\ thr'[e][p].postPubAt = thr[e][p].postPubAt
      BY <1>4, <1>5, <1>6, <2>1, <2>2 DEF RowLags
    <3> QED BY <1>1, <1>2, <2>1, <2>2, <3>1 DEF RowLags
  <2>3. CASE p \notin L
    BY <1>2, <1>5, <1>6, <2>1, <2>3 DEF RowLags
  <2> QED BY <2>2, <2>3
<1>8. ASSUME NEW p \in PP PROVE SyncFits(e, p)'
  <2> SUFFICES ASSUME thr'[e][p].pc = "sync"
      PROVE /\ \A c \in PlatformPosts(ParentOf[p]) :
                 thr'[e][c].pc \in {"idle", "queued", "sync"} /\ row'[c].pubAt <= thr'[e][p].latest
            /\ thr'[e][p].latest # 0 =>
                 \E c \in PlatformPosts(ParentOf[p]) : row'[c].pubAt = thr'[e][p].latest
    BY DEF SyncFits
  <2>1. p \notin L /\ thr'[e][p] = thr[e][p]
    BY <1>4, <1>6
  <2>2. SyncFits(e, p)
    BY DEF ParentsFit
  <2>3. \A c \in PlatformPosts(ParentOf[p]) : c \in PP /\ c \notin L
    BY <1>1, <2>1, <2>2 DEF SyncFits, PlatformPosts
  <2> QED BY <1>5, <1>6, <2>1, <2>2, <2>3 DEF SyncFits
<1> QED BY <1>2, <1>5, <1>7, <1>8, PostsKeep DEF ParentsFit

\* The maximum is read when every thread of the group has ended, so the rows of the
\* post are all at rest.
LEMMA ReadParents ==
  ASSUME TypeOK, TypeOK', NEW e \in Engines, NEW q \in Posts, ParentsFit(e), ReadLatest(e, q)
  PROVE  ParentsFit(e)'
<1> DEFINE G == Group(e, q)
           t == [p \in G |-> [thr[e][p] EXCEPT !.pc = "sync", !.latest = LatestPubAt(q)]]
<1>1. G \in SUBSET PP /\ G \subseteq PlatformPosts(q)
  BY DEF Group, PlatformPosts
<1>2. /\ UNCHANGED <<row, postPubAt, mode>> /\ StepAll(e, G, t)
      /\ \A p \in G : thr[e][p].pc \in Ended
  BY ZenonT(30) DEF ReadLatest, tables
<1>3. \A p \in G : t[p].pc = "sync" /\ t[p].latest = LatestPubAt(q)
                   /\ t[p].postPubAt = thr[e][p].postPubAt
  <2>1. \A p \in G : thr[e][p] \in Thread
    BY <1>1, ThreadType
  <2> HIDE DEF G
  <2> QED BY <2>1 DEF Thread
<1>4. \A p \in PlatformPosts(q) \ G : thr[e][p].pc \in {"idle", "queued"}
  BY DEF Group
<1> HIDE DEF G, t
<1>5. \A p \in PP : thr'[e][p] = IF p \in G THEN t[p] ELSE thr[e][p]
  BY <1>1, <1>2, StepAllAt
<1>6. ASSUME NEW p \in PP PROVE RowLags(e, p)'
  <2>1. RowLags(e, p)
    BY DEF ParentsFit
  <2> QED BY <1>2, <1>3, <1>5, <2>1 DEF RowLags, Ended
<1>7. ASSUME NEW p \in PP PROVE SyncFits(e, p)'
  <2> SUFFICES ASSUME thr'[e][p].pc = "sync"
      PROVE /\ \A c \in PlatformPosts(ParentOf[p]) :
                 thr'[e][c].pc \in {"idle", "queued", "sync"} /\ row'[c].pubAt <= thr'[e][p].latest
            /\ thr'[e][p].latest # 0 =>
                 \E c \in PlatformPosts(ParentOf[p]) : row'[c].pubAt = thr'[e][p].latest
    BY DEF SyncFits
  <2>1. CASE p \in G
    <3>1. ParentOf[p] = q /\ thr'[e][p].latest = LatestPubAt(q)
      BY <1>1, <1>3, <1>5, <2>1 DEF PlatformPosts
    <3>2. \A c \in PlatformPosts(q) : thr'[e][c].pc \in {"idle", "queued", "sync"}
      BY <1>3, <1>4, <1>5 DEF PlatformPosts
    <3> QED BY <1>2, <3>1, <3>2, LatestIsMax
  <2>2. CASE p \notin G
    <3>1. SyncFits(e, p) /\ thr'[e][p] = thr[e][p]
      BY <1>5, <2>2 DEF ParentsFit
    <3>2. \A c \in PlatformPosts(ParentOf[p]) : c \in PP /\ c \notin G
      BY <1>2, <3>1 DEF SyncFits, Ended, PlatformPosts
    <3> QED BY <1>2, <1>5, <3>1, <3>2 DEF SyncFits
  <2> QED BY <2>1, <2>2
<1> QED BY <1>2, <1>6, <1>7, PostsKeep DEF ParentsFit

\* The post gets the maximum, and never loses a later time by it.
LEMMA SyncParents ==
  ASSUME TypeOK, TypeOK', NEW e \in Engines, NEW q \in Posts, ParentsFit(e),
         SyncParentPublishedAt(e, q)
  PROVE  ParentsFit(e)'
<1> DEFINE G == Group(e, q)
           t == [p \in G |-> IF mode[e] = "polling"
                            THEN [thr[e][p] EXCEPT !.pc = "refresh"] ELSE Idle]
<1>1. G \in SUBSET PP /\ G \subseteq PlatformPosts(q)
  BY DEF Group, PlatformPosts
<1>2. PICK g \in G :
        /\ \A p \in G : thr[e][p].pc = "sync"
        /\ postPubAt' = IF thr[e][g].latest \in {0, thr[e][g].postPubAt} THEN postPubAt
                        ELSE [postPubAt EXCEPT ![q] = thr[e][g].latest]
        /\ StepAll(e, G, t)
  BY ZenonT(30) DEF SyncParentPublishedAt
<1>3. UNCHANGED <<row, mode>>
  BY DEF SyncParentPublishedAt
<1>4. \A p \in G : \/ t[p].pc = "idle"
                   \/ t[p].pc = "refresh" /\ t[p].postPubAt = thr[e][p].postPubAt
                      /\ mode[e] = "polling"
  <2>1. \A p \in G : thr[e][p] \in Thread
    BY <1>1, ThreadType
  <2> HIDE DEF G
  <2> QED BY <2>1 DEF Thread, Idle
<1> HIDE DEF G, t
<1>5. \A p \in PP : thr'[e][p] = IF p \in G THEN t[p] ELSE thr[e][p]
  BY <1>1, <1>2, StepAllAt
<1>6. /\ g \in PP /\ ParentOf[g] = q /\ SyncFits(e, g) /\ RowLags(e, g)
      /\ thr[e][g].pc = "sync" /\ PostFits(q)
  BY <1>1, <1>2 DEF ParentsFit, PlatformPosts
<1>7. /\ postPubAt[q] \in Nat /\ postPubAt'[q] \in Nat
      /\ thr[e][g].latest \in Nat /\ thr[e][g].postPubAt \in Nat
      /\ \A c \in PP : row[c].pubAt \in Nat
  <2>1. postPubAt[q] \in Times /\ postPubAt'[q] \in Times /\ \A c \in PP : row[c] \in Row
    BY DEF TypeOK
  <2>2. thr[e][g] \in Thread
    BY <1>6, ThreadType
  <2>3. thr[e][g].latest \in Times /\ thr[e][g].postPubAt \in Times
        /\ \A c \in PP : row[c].pubAt \in Times
    BY <2>1, <2>2 DEF Thread, Row
  <2>4. Times \subseteq Nat
    BY DEF Times
  <2> QED BY <2>1, <2>3, <2>4
<1>8. /\ postPubAt'[q] = IF thr[e][g].latest \in {0, thr[e][g].postPubAt} THEN postPubAt[q]
                         ELSE thr[e][g].latest
      /\ \A r \in Posts : r # q => postPubAt'[r] = postPubAt[r]
  BY <1>2 DEF TypeOK
<1>9. /\ \A c \in PlatformPosts(q) : row[c].pubAt <= thr[e][g].latest
      /\ thr[e][g].latest # 0 => \E c \in PlatformPosts(q) : row[c].pubAt = thr[e][g].latest
      /\ thr[e][g].postPubAt <= postPubAt[q]
  BY <1>6 DEF SyncFits, RowLags
<1>10. postPubAt[q] <= thr[e][g].latest
  <2>1. CASE postPubAt[q] = 0
    BY <1>7, <2>1
  <2>2. CASE postPubAt[q] # 0
    BY <1>6, <1>9, <2>2 DEF PostFits
  <2> QED BY <2>1, <2>2
<1>11. /\ postPubAt[q] <= postPubAt'[q]
       /\ \A c \in PlatformPosts(q) : row[c].pubAt <= postPubAt'[q]
  <2>1. thr[e][g].latest <= postPubAt'[q] /\ postPubAt[q] <= postPubAt'[q]
    BY <1>7, <1>8, <1>9, <1>10
  <2> QED BY <1>7, <1>9, <2>1 DEF PlatformPosts
<1>12. ASSUME NEW p \in PP PROVE RowLags(e, p)'
  <2>1. RowLags(e, p) /\ ParentOf[p] \in Posts
    BY PublisherAssumption DEF ParentsFit
  <2>2. postPubAt[ParentOf[p]] <= postPubAt'[ParentOf[p]]
        /\ postPubAt[ParentOf[p]] \in Nat /\ postPubAt'[ParentOf[p]] \in Nat
    <3>1. postPubAt[ParentOf[p]] \in Nat /\ postPubAt'[ParentOf[p]] \in Nat
      BY <2>1 DEF TypeOK, Times
    <3>2. ParentOf[p] # q => postPubAt'[ParentOf[p]] = postPubAt[ParentOf[p]]
      BY <1>8, <2>1
    <3> QED BY <1>11, <3>1, <3>2
  <2>3. thr[e][p].postPubAt \in Nat /\ row[p].pubAt \in Nat
    BY <1>7, ThreadType DEF Thread, Times
  <2>4. CASE p \in G
    <3>1. row'[p].pubAt <= postPubAt'[ParentOf[p]]
      BY <1>1, <1>3, <1>11, <2>4 DEF PlatformPosts
    <3>2. thr'[e][p].pc # "idle" => thr'[e][p].postPubAt <= postPubAt'[ParentOf[p]]
          /\ mode'[e] # "idle" /\ thr'[e][p].pc = "refresh"
      BY <1>2, <1>3, <1>4, <1>5, <2>1, <2>2, <2>3, <2>4 DEF RowLags
    <3> QED BY <1>3, <2>1, <3>1, <3>2 DEF RowLags
  <2>5. CASE p \notin G
    BY <1>3, <1>5, <2>1, <2>2, <2>3, <2>5 DEF RowLags
  <2> QED BY <2>4, <2>5
<1>13. ASSUME NEW p \in PP PROVE SyncFits(e, p)'
  <2> SUFFICES ASSUME thr'[e][p].pc = "sync"
      PROVE /\ \A c \in PlatformPosts(ParentOf[p]) :
                 thr'[e][c].pc \in {"idle", "queued", "sync"} /\ row'[c].pubAt <= thr'[e][p].latest
            /\ thr'[e][p].latest # 0 =>
                 \E c \in PlatformPosts(ParentOf[p]) : row'[c].pubAt = thr'[e][p].latest
    BY DEF SyncFits
  <2>1. p \notin G /\ thr'[e][p] = thr[e][p] /\ SyncFits(e, p)
    BY <1>4, <1>5 DEF ParentsFit
  <2>2. ParentOf[p] # q
    BY <2>1 DEF Group, PlatformPosts, G
  <2>3. \A c \in PlatformPosts(ParentOf[p]) : c \in PP /\ c \notin G
    BY <1>1, <2>2 DEF PlatformPosts
  <2> QED BY <1>3, <1>5, <2>1, <2>3 DEF SyncFits
<1>14. ASSUME NEW r \in Posts PROVE PostFits(r)'
  <2>1. CASE postPubAt'[r] = postPubAt[r]
    BY <1>3, <2>1 DEF ParentsFit, PostFits
  <2>2. CASE r = q /\ postPubAt'[q] = thr[e][g].latest
    BY <1>3, <1>9, <2>2 DEF PostFits
  <2> QED BY <1>8, <2>1, <2>2
<1> QED BY <1>12, <1>13, <1>14 DEF ParentsFit

\* A failure is never forgotten.
LEMMA DisturbedGrows ==
  ASSUME NEW e, Engines = {e}, TypeOK, TypeOK', [Next]_vars, Disturbed' = 0
  PROVE  Disturbed = 0 /\ ~Crash(e)
<1>n. /\ spent.db \in Nat /\ spent.crash \in Nat /\ spent'.db \in Nat /\ spent'.crash \in Nat
      /\ spent \in Faults
  BY DEF TypeOK, Faults
<1>1. spent'.db = 0 /\ spent'.crash = 0
  BY <1>n DEF Disturbed
<1>2. ~Crash(e)
  <2> SUFFICES ASSUME Crash(e) PROVE FALSE
    OBVIOUS
  <2>1. spent'.crash = spent.crash + 1
    BY <1>n DEF Crash, Faults
  <2> QED BY <1>1, <1>n, <2>1
<1>3. SpentGrows
  <2>1. UNCHANGED spent => SpentGrows
    BY NothingSpent
  <2>2. ASSUME NEW p \in PP, ThreadStep(e, p) PROVE SpentGrows
    BY <2>2, ThreadFrame
  <2>3. ASSUME NEW q \in Posts, GroupStep(e, q) PROVE UNCHANGED spent
    BY <2>3 DEF GroupStep, ClaimGroup, ReadLatest, SyncParentPublishedAt
  <2>4. CycleStep(e) => UNCHANGED spent
    BY DEF CycleStep, Poll, ListRetries, EndCycle
  <2>5. ASSUME NEW p \in PP, RunFirstComment(p) PROVE UNCHANGED spent
    BY <2>5 DEF RunFirstComment
  <2>6. Tick \/ UNCHANGED vars => UNCHANGED spent
    BY DEF Tick, vars
  <2> QED BY <1>2, <2>1, <2>2, <2>3, <2>4, <2>5, <2>6 DEF Next
<1>4. spent.db = 0 /\ spent.crash = 0
  BY <1>1, <1>3, <1>n DEF SpentGrows
<1> QED BY <1>2, <1>4 DEF Disturbed

\* With one engine every undisturbed step keeps the posts up to date.
LEMMA NextParents ==
  ASSUME NEW e, Engines = {e}, TypeOK, TypeOK', BooksInv(e), ParentsInv(e), [Next]_vars
  PROVE  ParentsInv(e)'
<1> SUFFICES ASSUME Disturbed' = 0 PROVE ParentsFit(e)'
  BY DEF ParentsInv
<1>e. e \in Engines
  OBVIOUS
<1>1. ParentsFit(e) /\ ~Crash(e)
  BY DisturbedGrows DEF ParentsInv
<1>2. ASSUME UNCHANGED <<row, postPubAt, mode, thr>> PROVE ParentsFit(e)'
  <2>1. \A p \in PP : RowLags(e, p)' /\ SyncFits(e, p)'
    BY <1>1, <1>2 DEF ParentsFit, RowLags, SyncFits
  <2> QED BY <1>1, <1>2, <2>1, PostsKeep DEF ParentsFit
<1>3. ASSUME NEW p \in PP, RunFirstComment(p) PROVE ParentsFit(e)'
  BY <1>2, <1>3 DEF RunFirstComment, tables
<1>4. CASE Tick \/ UNCHANGED vars
  BY <1>2, <1>4 DEF Tick, vars, tables
<1>5. CASE CycleStep(e)
  BY <1>1, <1>5, <1>e, CycleParents
<1>6. ASSUME NEW p \in PP, ThreadStep(e, p) PROVE ParentsFit(e)'
  BY <1>1, <1>6, <1>e, ThreadParents
<1>7. ASSUME NEW q \in Posts, GroupStep(e, q) PROVE ParentsFit(e)'
  BY <1>1, <1>7, <1>e, ClaimParents, ReadParents, SyncParents DEF GroupStep
<1> QED BY <1>1, <1>e, <1>3, <1>4, <1>5, <1>6, <1>7 DEF Next

\* At the start no post has been published.
LEMMA InitParents ==
  ASSUME NEW e \in Engines, Init
  PROVE  ParentsInv(e)
<1>1. /\ \A p \in PP : /\ row[p].pubAt = 0 /\ thr[e][p].pc = "idle"
                       /\ postPubAt[ParentOf[p]] = 0
      /\ \A q \in Posts : postPubAt[q] = 0
  BY PublisherAssumption DEF Init, Idle
<1> QED BY <1>1 DEF ParentsInv, ParentsFit, RowLags, SyncFits, PostFits

\* What the invariants say of a state.
LEMMA BooksTrue ==
  ASSUME NEW e, Engines = {e}, TypeOK, BooksInv(e), ParentsInv(e)
  PROVE  BooksAreTrue
<1>e. e \in Engines
  OBVIOUS
<1>n. /\ spent.lost \in Nat /\ spent.db \in Nat /\ spent.crash \in Nat
      /\ MAX_RETRIES \in Nat
  BY PublisherAssumption DEF TypeOK, Faults
<1>b. ASSUME NEW p \in PP
      PROVE  /\ StatusFits(e, p) /\ CopiesFit(e, p) /\ AttemptsFit(e, p) /\ CommentsFit(e, p)
             /\ live[p] \in Nat /\ attempts[p] \in Nat /\ Len(logs[p]) \in Nat
             /\ tasks[p] \in Nat /\ commentRuns[p] \in Nat /\ row[p].retry \in Nat
  <2>1. row[p].retry \in Nat
    BY DEF TypeOK, Row
  <2> QED BY <1>e, <2>1, BookTypes DEF BooksInv, Book
<1>1. OutcomeIsTruthful
  BY <1>b, <1>n DEF OutcomeIsTruthful, CopiesFit, Forgiven
<1>2. EveryAttemptIsLogged
  <2> SUFFICES ASSUME NEW p \in PP
      PROVE /\ \A i \in DOMAIN logs[p] : logs[p][i] = i
            /\ attempts[p] <= Len(logs[p]) + spent.crash + spent.db
                               + Cardinality({f \in Engines : Unlogged(f, p)})
    BY DEF EveryAttemptIsLogged
  <2> DEFINE U == {f \in Engines : Unlogged(f, p)}
  <2>1. AttemptsFit(e, p)
    BY <1>b
  <2>2. Disturbed \in Nat /\ Disturbed = spent.crash + spent.db
    BY <1>n DEF Disturbed
  <2>3. attempts[p] \in Nat /\ Len(logs[p]) \in Nat
    BY <1>b
  <2>4. CASE thr[e][p].pc \in Unloggable
    <3>1. U = {e}
      BY <2>4 DEF Unlogged, Unloggable
    <3>2. Cardinality(U) = 1
      BY <3>1, FS_Singleton
    <3>3. attempts[p] <= Len(logs[p]) + Disturbed + 1
      BY <2>1 DEF AttemptsFit
    <3> HIDE DEF U
    <3>4. attempts[p] <= Len(logs[p]) + spent.crash + spent.db + Cardinality(U)
      BY <1>n, <2>2, <2>3, <3>2, <3>3
    <3> QED BY <2>1, <3>4 DEF AttemptsFit, U
  <2>5. CASE thr[e][p].pc \notin Unloggable
    <3>1. U = {}
      BY <2>5 DEF Unlogged, Unloggable
    <3>2. Cardinality(U) = 0
      BY <3>1, FS_EmptySet
    <3>3. attempts[p] <= Len(logs[p]) + Disturbed
      BY <2>1, <2>5 DEF AttemptsFit
    <3> HIDE DEF U
    <3>4. attempts[p] <= Len(logs[p]) + spent.crash + spent.db + Cardinality(U)
      BY <1>n, <2>2, <2>3, <3>2, <3>3
    <3> QED BY <2>1, <3>4 DEF AttemptsFit, U
  <2> QED BY <2>4, <2>5
<1>3. ParentShowsLatest
  <2> SUFFICES ASSUME mode[e] = "idle", spent.crash + spent.db = 0, NEW q \in Posts
      PROVE /\ \A p \in PlatformPosts(q) : row[p].pubAt <= postPubAt[q]
            /\ postPubAt[q] # 0 => \E p \in PlatformPosts(q) : row[p].pubAt = postPubAt[q]
    BY <1>e DEF ParentShowsLatest, AllIdle
  <2>1. ParentsFit(e)
    BY DEF ParentsInv, Disturbed
  <2> QED BY <2>1 DEF ParentsFit, RowLags, PostFits, PlatformPosts
<1>4. FirstCommentAtMostOnce
  <2> SUFFICES ASSUME NEW p \in PP
      PROVE /\ tasks[p] + commentRuns[p] <= 1 + spent.db
            /\ tasks[p] + commentRuns[p] > 0 => live[p] > 0
    BY DEF FirstCommentAtMostOnce
  <2> QED BY <1>b, <1>n DEF CommentsFit, CopiesFit
<1>5. AttemptsBounded
  BY <1>b, <1>n DEF AttemptsBounded, AttemptsFit
<1>6. PublishingHasAnOwner
  BY <1>e, <1>b, <1>n DEF PublishingHasAnOwner, StatusFits, Disturbed
<1> QED BY <1>1, <1>2, <1>3, <1>4, <1>5, <1>6 DEF BooksAreTrue

\* With one engine the tables tell the truth about the platforms: outcomes, the
\* publish log, Post.published_at, the first comments and the number of attempts
\* (_publish_platform_post, _schedule_retry, _sync_parent_published_at), for every
\* number of rows, posts and retries and whatever crashes, fails or is lost.
THEOREM BooksAreTrueWithOneEngine ==
  ASSUME NEW e, Engines = {e}
  PROVE  Spec => []BooksAreTrue
<1>1. Init => TypeOK /\ BooksInv(e) /\ ParentsInv(e)
  BY InitTypeOK, InitBooks, InitParents
<1>2. TypeOK /\ BooksInv(e) /\ ParentsInv(e) /\ [Next]_vars
        => (TypeOK /\ BooksInv(e) /\ ParentsInv(e))'
  BY NextTypeOK, NextBooks, NextParents
<1>3. TypeOK /\ BooksInv(e) /\ ParentsInv(e) => BooksAreTrue
  BY BooksTrue
<1> QED BY <1>1, <1>2, <1>3, PTL DEF Spec

-----------------------------------------------------------------------------
(* The engine implements the state machine                                 *)

\* The transitions of the state machine that the engine makes.
LEMMA EngineTransitions ==
  /\ Lifecycle!CanTransition("scheduled", "publishing")
  /\ Lifecycle!CanTransition("publishing", "published")
  /\ Lifecycle!CanTransition("publishing", "scheduled")
  /\ Lifecycle!CanTransition("publishing", "failed")
  BY DEF Lifecycle!CanTransition, Lifecycle!VALID_TRANSITIONS, Lifecycle!Status

\* Rows that move along transitions, together, are a step of the state machine.
LEMMA RowsWalk ==
  ASSUME TypeOK, TypeOK', NEW R \in SUBSET PP,
         \A p \in R : Lifecycle!CanTransition(row[p].status, row'[p].status),
         \A p \in PP \ R : row'[p].status = row[p].status
  PROVE  [Lifecycle!Next]_RowStatuses
<1>1. \A p \in PP : row[p].status \in Status /\ row'[p].status \in Status
  BY DEF TypeOK, Row
<1>2. Status = Lifecycle!Status /\ "none" \notin Status
  BY DEF Status, Lifecycle!Status
<1>3. CASE R = {}
  BY <1>3 DEF RowStatuses
<1>4. CASE R # {}
  <2>1. PICK target \in [R -> Lifecycle!Status] : \A p \in R : target[p] = row'[p].status
    <3>1. [p \in R |-> row'[p].status] \in [R -> Lifecycle!Status]
      BY <1>1, <1>2
    <3> QED BY <3>1
  <2>2. Lifecycle!Rows = PP
    BY <1>1, <1>2 DEF Lifecycle!Rows, RowStatuses
  <2>3. \A p \in R : Lifecycle!CanTransition(RowStatuses[p], target[p])
    BY <2>1 DEF RowStatuses
  <2>4. Lifecycle!Write(R, target)
    BY <2>1 DEF Lifecycle!Write, RowStatuses
  <2>5. Lifecycle!Transition
    BY <1>4, <2>2, <2>3, <2>4 DEF Lifecycle!Transition
  <2> QED BY <2>5 DEF Lifecycle!Next
<1> QED BY <1>3, <1>4

\* One row moves along a transition.
LEMMA RowWalks ==
  ASSUME TypeOK, TypeOK', NEW p \in PP, \A r \in PP : r # p => row'[r] = row[r],
         Lifecycle!CanTransition(row[p].status, row'[p].status)
  PROVE  [Lifecycle!Next]_RowStatuses
<1>1. {p} \in SUBSET PP
  OBVIOUS
<1> QED BY <1>1, RowsWalk

\* The claim of a group is one step of all its rows.
LEMMA ClaimWalks ==
  ASSUME TypeOK, TypeOK', NEW e \in Engines, NEW q \in Posts, ClaimGroup(e, q)
  PROVE  [Lifecycle!Next]_RowStatuses
<1>1. PICK C \in SUBSET PP :
        /\ C = {p \in {r \in PlatformPosts(q) : thr[e][r].pc = "listed"} : row[p].status = "scheduled"}
        /\ row' = [p \in PP |-> IF p \in C THEN [row[p] EXCEPT !.status = "publishing"] ELSE row[p]]
  BY DEF ClaimGroup, PlatformPosts
<1>2. \A p \in PP : row[p] \in Row
  BY DEF TypeOK
<1>3. \A r \in Row : [r EXCEPT !.status = "publishing"].status = "publishing"
  BY DEF Row
<1>4. \A p \in C : row[p].status = "scheduled" /\ row'[p].status = "publishing"
  BY <1>1, <1>2, <1>3
<1>5. \A p \in PP \ C : row'[p] = row[p]
  BY <1>1
<1>6. \A p \in C : Lifecycle!CanTransition(row[p].status, row'[p].status)
  BY <1>4, EngineTransitions
<1> QED BY <1>5, <1>6, RowsWalk

\* A thread writes the status of its row along the state machine: while no statement
\* fails, the row it saves is still in publishing, and the one it retries scheduled.
LEMMA ThreadWalks ==
  ASSUME TypeOK, TypeOK', NEW e \in Engines, NEW p \in PP, Book(e, p), spent.db = 0, MaxFaults = 0,
         ThreadStep(e, p)
  PROVE  [Lifecycle!Next]_RowStatuses
<1>0. ~Fault
  BY DEF Fault
<1>1. row[p] \in Row /\ row \in [PP -> Row]
  BY DEF TypeOK
<1>2. ASSUME UNCHANGED row PROVE [Lifecycle!Next]_RowStatuses
  BY <1>2 DEF RowStatuses
<1>3. ASSUME NEW t, NEW s, FullSave(p, t, s)
      PROVE  row'[p].status = s /\ \A r \in PP : r # p => row'[r] = row[r]
  BY <1>1, <1>3 DEF FullSave
<1>4. CASE SavePublished(e, p)
  <2>1. row[p].status = "publishing"
    BY <1>4 DEF SavePublished, Book, StatusFits
  <2>2. PICK t : FullSave(p, t, "published")
    BY <1>0, <1>4 DEF SavePublished
  <2> QED BY <1>3, <2>1, <2>2, EngineTransitions, RowWalks
<1>5. CASE SaveOutcome(e, p)
  <2>1. row[p].status = "publishing"
    BY <1>5 DEF SaveOutcome, Book, StatusFits
  <2>2. PICK s \in {"scheduled", "failed"} : \E t : FullSave(p, t, s)
    BY <1>0, <1>5 DEF SaveOutcome
  <2> QED BY <1>3, <2>1, <2>2, EngineTransitions, RowWalks
<1>6. CASE StartRetry(e, p)
  <2>1. row[p].status = "scheduled"
    BY <1>6 DEF StartRetry, Book, StatusFits, Waiting
  <2>2. row' = [row EXCEPT ![p].status = "publishing"]
    BY <1>6 DEF StartRetry
  <2>3. row'[p].status = "publishing" /\ \A r \in PP : r # p => row'[r] = row[r]
    BY <1>1, <2>2 DEF Row
  <2> QED BY <2>1, <2>3, EngineTransitions, RowWalks
<1>7. CASE ~(SavePublished(e, p) \/ SaveOutcome(e, p) \/ StartRetry(e, p))
  BY <1>2, <1>7 DEF ThreadStep, DispatchOk, DispatchError, DispatchLost, LogSuccess, LogFailure,
                    EndFailedRetry, ScheduleFirstComment, tables
<1> QED BY <1>4, <1>5, <1>6, <1>7

\* Every step of the system is a step of the state machine or leaves the statuses.
LEMMA StepWalks ==
  ASSUME NEW e, Engines = {e}, MaxFaults = 0, TypeOK, TypeOK', BooksInv(e), [Next]_vars
  PROVE  [Lifecycle!Next]_RowStatuses
<1>0. e \in Engines /\ spent.db = 0
  BY DEF TypeOK, Faults
<1>1. ASSUME UNCHANGED row PROVE [Lifecycle!Next]_RowStatuses
  BY <1>1 DEF RowStatuses
<1>2. ASSUME NEW p \in PP, ThreadStep(e, p) PROVE [Lifecycle!Next]_RowStatuses
  BY <1>0, <1>2, ThreadWalks DEF BooksInv
<1>3. ASSUME NEW q \in Posts, ClaimGroup(e, q) PROVE [Lifecycle!Next]_RowStatuses
  BY <1>0, <1>3, ClaimWalks
<1>4. CASE \/ CycleStep(e) \/ Crash(e) \/ Tick \/ UNCHANGED vars
           \/ \E p \in PP : RunFirstComment(p)
           \/ \E q \in Posts : ReadLatest(e, q) \/ SyncParentPublishedAt(e, q)
  <2>1. UNCHANGED row
    BY <1>4 DEF CycleStep, Poll, ListRetries, EndCycle, Crash, Tick, vars, tables, RunFirstComment,
                ReadLatest, SyncParentPublishedAt
  <2> QED BY <1>1, <2>1
<1> QED BY <1>0, <1>2, <1>3, <1>4 DEF Next, GroupStep

\* What the engine writes to PlatformPost.status follows VALID_TRANSITIONS, which it
\* never asks (engine.py assigns the column): with one engine, for every number of rows
\* and posts, wherever the worker dies and whatever replies are lost, as long as no
\* statement fails.
THEOREM EngineFollowsStateMachine ==
  ASSUME NEW e, Engines = {e}, MaxFaults = 0
  PROVE  Spec => FollowsStateMachine
<1>1. Init => TypeOK /\ BooksInv(e)
  BY InitTypeOK, InitBooks
<1>2. TypeOK /\ BooksInv(e) /\ [Next]_vars => (TypeOK /\ BooksInv(e))'
  BY NextTypeOK, NextBooks
<1>3. Init => Lifecycle!Init
  <2> SUFFICES ASSUME Init PROVE Lifecycle!Init
    OBVIOUS
  <2>1. \A p \in PP : row[p].status = "scheduled"
    BY DEF Init
  <2> QED BY <2>1 DEF Lifecycle!Init, Lifecycle!INITIAL_STATUSES, RowStatuses
<1>4. TypeOK /\ BooksInv(e) /\ [Next]_vars => [row' # row => [Lifecycle!Next]_RowStatuses]_vars
  BY <1>2, StepWalks
<1> QED BY <1>1, <1>2, <1>3, <1>4, PTL DEF Spec, FollowsStateMachine

-----------------------------------------------------------------------------
(* No row is early                                                         *)

\* The time of row p has come.
Arrived(p) == EffectiveAt(p) # 0 /\ EffectiveAt(p) <= now

\* What is being worked on, and what has failed, had arrived; and who has the row in
\* hand will write back the time it has.
EarlyInv ==
  \A p \in PP :
    /\ row[p].retry > 0 => Arrived(p)
    /\ \A e \in Engines :
         /\ thr[e][p].pc \in Waiting \union Working => Arrived(p)
         /\ thr[e][p].pc \in InHand => thr[e][p].sched = row[p].sched

\* No step changes a scheduled time or turns back the clock.
TimesStay ==
  /\ postSched' = postSched /\ now' \in Nat /\ now' >= now
  /\ \A p \in PP : row'[p].sched = row[p].sched

\* Who goes on with row r keeps its time; who takes it up finds that it has come.
KeepsTime(f, r) ==
  /\ thr'[f][r].pc \in Waiting \union Working => thr[f][r].pc \in Waiting \union Working \/ Arrived(r)
  /\ thr'[f][r].pc \in InHand =>
       thr'[f][r].sched = row[r].sched
       \/ (thr[f][r].pc \in InHand /\ thr'[f][r].sched = thr[f][r].sched)

\* A step that keeps the times keeps who works on rows in time.
LEMMA TimeKept ==
  ASSUME TypeOK, EarlyInv, TimesStay,
         \A p \in PP : row'[p].retry = row[p].retry \/ Arrived(p),
         \A f \in Engines, r \in PP : KeepsTime(f, r)
  PROVE  EarlyInv'
<1>1. \A p \in PP : Arrived(p) => Arrived(p)'
  <2> SUFFICES ASSUME NEW p \in PP, Arrived(p) PROVE Arrived(p)'
    OBVIOUS
  <2>1. EffectiveAt(p)' = EffectiveAt(p)
    BY DEF EffectiveAt, TimesStay
  <2>2. EffectiveAt(p) \in Nat /\ now \in Nat
    BY PublisherAssumption DEF TypeOK, EffectiveAt, Row, Times
  <2> QED BY <2>1, <2>2 DEF Arrived, TimesStay
<1>2. ASSUME NEW p \in PP, row'[p].retry > 0 PROVE Arrived(p)
  BY <1>2 DEF EarlyInv
<1>3. ASSUME NEW p \in PP, NEW e \in Engines, thr'[e][p].pc \in Waiting \union Working PROVE Arrived(p)
  BY <1>3 DEF EarlyInv, KeepsTime
<1>4. ASSUME NEW p \in PP, NEW e \in Engines, thr'[e][p].pc \in InHand PROVE thr'[e][p].sched = row'[p].sched
  BY <1>4 DEF EarlyInv, KeepsTime, TimesStay
<1> QED BY <1>1, <1>2, <1>3, <1>4 DEF EarlyInv

\* One thread moves on with the time it has.
LEMMA OneKeepsTime ==
  ASSUME TypeOK, NEW e \in Engines, NEW p \in PP, NEW t, Step(e, p, t),
         t.pc \in Waiting \union Working => thr[e][p].pc \in Waiting \union Working,
         t.pc \in InHand => thr[e][p].pc \in InHand /\ t.sched = thr[e][p].sched
  PROVE  \A f \in Engines, r \in PP : KeepsTime(f, r)
<1> SUFFICES ASSUME NEW f \in Engines, NEW r \in PP PROVE KeepsTime(f, r)
  OBVIOUS
<1>1. CASE f = e /\ r = p
  BY <1>1, StepOthers DEF KeepsTime
<1>2. CASE f # e \/ r # p
  BY <1>2, StepOthers DEF KeepsTime
<1> QED BY <1>1, <1>2

\* Some threads of an engine take rows up whose time has come, or leave theirs.
LEMMA SomeKeepTime ==
  ASSUME TypeOK, NEW e \in Engines, NEW G \in SUBSET PP, NEW t, StepAll(e, G, t),
         \A p \in G : /\ t[p].pc \in Waiting \union Working => thr[e][p].pc \in Waiting \union Working \/ Arrived(p)
                      /\ t[p].pc \in InHand => t[p].sched = row[p].sched
  PROVE  \A f \in Engines, r \in PP : KeepsTime(f, r)
<1> SUFFICES ASSUME NEW f \in Engines, NEW r \in PP PROVE KeepsTime(f, r)
  OBVIOUS
<1>1. thr'[f][r] = IF f = e /\ r \in G THEN t[r] ELSE thr[f][r]
  BY DEF StepAll, TypeOK
<1> QED BY <1>1 DEF KeepsTime

\* A thread goes on, and writes back the time it has loaded.
LEMMA ThreadInTime ==
  ASSUME TypeOK, EarlyInv, NEW e \in Engines, NEW p \in PP, ThreadStep(e, p)
  PROVE  EarlyInv'
<1>0. row[p] \in Row /\ row \in [PP -> Row] /\ thr[e][p] \in Thread /\ now \in Nat
  BY PublisherAssumption, ThreadType DEF TypeOK
<1>c. postSched' = postSched /\ now' = now
  BY DEF ThreadStep, DispatchOk, DispatchError, DispatchLost, SavePublished, LogSuccess, LogFailure, SaveOutcome,
         StartRetry, EndFailedRetry, ScheduleFirstComment, tables
<1>n. now' \in Nat /\ now' >= now
  BY <1>0, <1>c
<1>w. InHand \subseteq Waiting \union Working
  BY DEF InHand, Waiting
<1>1. ASSUME UNCHANGED row, \A f \in Engines, r \in PP : KeepsTime(f, r) PROVE EarlyInv'
  BY <1>1, <1>c, <1>n, TimeKept DEF TimesStay
<1>2. ASSUME thr[e][p].pc \in Working, NEW u, NEW s, FullSave(p, u, s), u.sched = thr[e][p].sched,
             \A f \in Engines, r \in PP : KeepsTime(f, r)
      PROVE  EarlyInv'
  <2>1. /\ row'[p].sched = thr[e][p].sched /\ \A r \in PP : r # p => row'[r] = row[r]
    BY <1>0, <1>2 DEF FullSave
  <2>2. Arrived(p) /\ thr[e][p].sched = row[p].sched
    BY <1>2 DEF EarlyInv, InHand
  <2>3. \A r \in PP : row'[r].sched = row[r].sched
    BY <2>1, <2>2
  <2>4. \A r \in PP : row'[r].retry = row[r].retry \/ Arrived(r)
    BY <2>1, <2>2
  <2> QED BY <1>2, <1>c, <1>n, <2>3, <2>4, TimeKept DEF TimesStay
<1>3. ASSUME NEW t, Step(e, p, t), t.sched = thr[e][p].sched, thr[e][p].pc \in InHand
      PROVE  \A f \in Engines, r \in PP : KeepsTime(f, r)
  BY <1>3, <1>w, OneKeepsTime
<1>4. ASSUME NEW t, Step(e, p, t), t.pc \notin Waiting \union Working
      PROVE  \A f \in Engines, r \in PP : KeepsTime(f, r)
  BY <1>4, <1>w, OneKeepsTime
<1>5. ASSUME NEW pc, Goto(e, p, pc), thr[e][p].pc \in InHand
      PROVE  \A f \in Engines, r \in PP : KeepsTime(f, r)
  <2>1. PICK t : t = [thr[e][p] EXCEPT !.pc = pc]
    OBVIOUS
  <2>2. t.sched = thr[e][p].sched /\ Step(e, p, t)
    BY <1>0, <1>5, <2>1 DEF Goto, Thread
  <2> QED BY <1>3, <1>5, <2>2
<1>6. ASSUME NEW again \in BOOLEAN, Step(e, p, [thr[e][p] EXCEPT !.pc = "logErr", !.retryable = again]),
             thr[e][p].pc \in InHand
      PROVE  \A f \in Engines, r \in PP : KeepsTime(f, r)
  <2>1. PICK t : t = [thr[e][p] EXCEPT !.pc = "logErr", !.retryable = again]
    OBVIOUS
  <2>2. t.sched = thr[e][p].sched /\ Step(e, p, t)
    BY <1>0, <1>6, <2>1 DEF Thread
  <2> QED BY <1>3, <1>6, <2>2
<1>7. CASE DispatchOk(e, p) \/ LogFailure(e, p)
  <2>1. thr[e][p].pc \in InHand /\ UNCHANGED row
    BY <1>7 DEF DispatchOk, LogFailure, tables, InHand, Working
  <2>2. \E pc : Goto(e, p, pc)
    BY <1>7 DEF DispatchOk, LogFailure
  <2> QED BY <1>1, <1>5, <2>1, <2>2
<1>8. CASE DispatchError(e, p) \/ DispatchLost(e, p)
  <2>1. thr[e][p].pc \in InHand /\ UNCHANGED row
    BY <1>8 DEF DispatchError, DispatchLost, tables, InHand, Working
  <2>2. \E again \in BOOLEAN : Step(e, p, [thr[e][p] EXCEPT !.pc = "logErr", !.retryable = again])
    BY <1>8 DEF DispatchError, DispatchLost
  <2> QED BY <1>1, <1>6, <2>1, <2>2
<1>9. CASE LogSuccess(e, p)
  <2>1. thr[e][p].pc \in InHand /\ UNCHANGED row
    BY <1>9 DEF LogSuccess, tables, InHand, Working
  <2>2. \/ \E pc : Goto(e, p, pc)
        \/ \E again \in BOOLEAN : Step(e, p, [thr[e][p] EXCEPT !.pc = "logErr", !.retryable = again])
    BY <1>9 DEF LogSuccess
  <2> QED BY <1>1, <1>5, <1>6, <2>1, <2>2
<1>10. CASE SavePublished(e, p)
  <2>1. PICK u : u = [thr[e][p] EXCEPT !.pubAt = now]
    OBVIOUS
  <2>n. now \in Times
    BY DEF TypeOK, Times
  <2>2. u.sched = thr[e][p].sched /\ u \in Thread
    BY <1>0, <2>n, <2>1 DEF Thread
  <2>3. thr[e][p].pc \in Working /\ thr[e][p].pc \in InHand
    BY <1>10 DEF SavePublished, InHand, Working
  <2>4. PICK t : \E fails \in BOOLEAN :
             /\ Step(e, p, t)
             /\ fails => t = [u EXCEPT !.pc = "logErr", !.retryable = TRUE] /\ UNCHANGED row
             /\ ~fails => t = [u EXCEPT !.pc = "logOk"] /\ FullSave(p, u, "published")
    <3>1. \/ FullSave(p, u, "published") /\ Step(e, p, [u EXCEPT !.pc = "logOk"])
          \/ UNCHANGED row /\ Step(e, p, [u EXCEPT !.pc = "logErr", !.retryable = TRUE])
      BY <1>10, <2>1 DEF SavePublished
    <3>2. CASE FullSave(p, u, "published") /\ Step(e, p, [u EXCEPT !.pc = "logOk"])
      BY <3>2
    <3>3. CASE UNCHANGED row /\ Step(e, p, [u EXCEPT !.pc = "logErr", !.retryable = TRUE])
      BY <3>3
    <3> QED BY <3>1, <3>2, <3>3
  <2>5. t.sched = thr[e][p].sched
    BY <2>2, <2>4 DEF Thread
  <2>6. \A f \in Engines, r \in PP : KeepsTime(f, r)
    BY <1>3, <2>3, <2>4, <2>5
  <2> QED BY <1>1, <1>2, <2>2, <2>3, <2>4, <2>6
<1>11. CASE SaveOutcome(e, p)
  <2>1. thr[e][p].pc \in Working /\ thr[e][p].pc \in InHand /\ Goto(e, p, "failure")
    BY <1>11 DEF SaveOutcome, InHand, Working
  <2>2. \A f \in Engines, r \in PP : KeepsTime(f, r)
    BY <1>5, <2>1
  <2>3. Rescheduled(thr[e][p]).sched = thr[e][p].sched
    BY <1>0 DEF Rescheduled, Thread
  <2>4. \/ UNCHANGED row
        \/ \E s : FullSave(p, Rescheduled(thr[e][p]), s)
        \/ \E s : FullSave(p, thr[e][p], s)
    BY <1>11 DEF SaveOutcome
  <2> QED BY <1>1, <1>2, <2>1, <2>2, <2>3, <2>4
<1>12. CASE StartRetry(e, p)
  <2>1. thr[e][p].pc \in InHand /\ Goto(e, p, "call") /\ row' = [row EXCEPT ![p].status = "publishing"]
    BY <1>12 DEF StartRetry, InHand
  <2>2. \A r \in PP : row'[r].sched = row[r].sched /\ row'[r].retry = row[r].retry
    BY <1>0, <2>1 DEF Row
  <2>3. \A f \in Engines, r \in PP : KeepsTime(f, r)
    BY <1>5, <2>1
  <2> QED BY <1>c, <1>n, <2>2, <2>3, TimeKept DEF TimesStay
<1>13. CASE EndFailedRetry(e, p) \/ ScheduleFirstComment(e, p)
  <2>1. Idle.pc \notin Waiting \union Working /\ Step(e, p, Idle) /\ UNCHANGED row
    BY <1>13 DEF EndFailedRetry, ScheduleFirstComment, Idle, Waiting, Working, tables
  <2> QED BY <1>1, <1>4, <2>1
<1> QED BY <1>7, <1>8, <1>9, <1>10, <1>11, <1>12, <1>13 DEF ThreadStep

\* A poll, a claim and the list of retries take up what is due or has failed.
LEMMA CycleInTime ==
  ASSUME TypeOK, EarlyInv, NEW e \in Engines, CycleStep(e) \/ Crash(e) \/ \E q \in Posts : GroupStep(e, q)
  PROVE  EarlyInv'
<1>0. row \in [PP -> Row] /\ now \in Nat
  BY PublisherAssumption DEF TypeOK
<1>c. postSched' = postSched /\ now' \in Nat /\ now' >= now
  <2>1. postSched' = postSched /\ now' = now
    BY DEF CycleStep, Poll, ListRetries, EndCycle, Crash, GroupStep, ClaimGroup, ReadLatest, SyncParentPublishedAt, tables
  <2> QED BY <1>0, <2>1
<1>i. Idle.pc = "idle" /\ "idle" \notin Waiting \union Working /\ "idle" \notin InHand
  BY DEF Idle, Waiting, Working, InHand
<1>1. ASSUME UNCHANGED row, \A f \in Engines, r \in PP : KeepsTime(f, r) PROVE EarlyInv'
  BY <1>1, <1>c, TimeKept DEF TimesStay
<1>2. CASE Poll(e)
  <2>1. PICK B \in SUBSET PP : /\ DueBatch(B)
          /\ StepAll(e, B, [p \in B |-> [Idle EXCEPT !.pc = "listed", !.postPubAt = postPubAt[ParentOf[p]]]])
    BY <1>2 DEF Poll
  <2>2. \A p \in B : Arrived(p)
    BY <2>1 DEF DueBatch, Due, Arrived
  <2>3. PICK t : /\ t = [p \in B |-> [Idle EXCEPT !.pc = "listed", !.postPubAt = postPubAt[ParentOf[p]]]]
    OBVIOUS
  <2>4. \A p \in B : t[p].pc = "listed"
    BY <2>3 DEF Idle
  <2>5. \A f \in Engines, r \in PP : KeepsTime(f, r)
    BY <2>1, <2>2, <2>3, <2>4, SomeKeepTime DEF InHand, Working
  <2> QED BY <1>1, <1>2, <2>5 DEF Poll, tables
<1>3. CASE ListRetries(e)
  <2>g. PICK G \in SUBSET PP : G = {p \in PP : RetryDue(p)}
    OBVIOUS
  <2>1. PICK t : t = [p \in G |-> Load(p, "queued")] /\ StepAll(e, G, t)
    BY <1>3, <2>g DEF ListRetries
  <2>2. \A p \in G : Arrived(p) /\ t[p].sched = row[p].sched
    BY <2>g, <2>1 DEF RetryDue, EarlyInv, Load
  <2>3. \A f \in Engines, r \in PP : KeepsTime(f, r)
    BY <2>1, <2>2, SomeKeepTime
  <2> QED BY <1>1, <1>3, <2>3 DEF ListRetries, tables
<1>4. CASE EndCycle(e)
  <2>1. \A f \in Engines, r \in PP : KeepsTime(f, r)
    BY <1>4 DEF EndCycle, KeepsTime
  <2> QED BY <1>1, <1>4, <2>1 DEF EndCycle, tables
<1>5. CASE Crash(e)
  <2>1. thr' = [thr EXCEPT ![e] = [p \in PP |-> Idle]] /\ UNCHANGED row
    BY <1>5 DEF Crash, tables
  <2>2. \A f \in Engines, r \in PP : thr'[f][r] = thr[f][r] \/ thr'[f][r] = Idle
    BY <2>1 DEF TypeOK
  <2>3. \A f \in Engines, r \in PP : KeepsTime(f, r)
    BY <1>i, <2>2 DEF KeepsTime
  <2> QED BY <1>1, <2>1, <2>3
<1>6. ASSUME NEW q \in Posts, ClaimGroup(e, q) PROVE EarlyInv'
  <2>l. PICK L \in SUBSET PP : L = {p \in PlatformPosts(q) : thr[e][p].pc = "listed"}
    BY DEF PlatformPosts
  <2>c. PICK C \in SUBSET L : C = {p \in L : row[p].status = "scheduled"}
    OBVIOUS
  <2>1. PICK t :
          /\ row' = [p \in PP |-> IF p \in C THEN [row[p] EXCEPT !.status = "publishing"] ELSE row[p]]
          /\ t = [p \in L |-> IF p \in C THEN [Load(p, "call") EXCEPT !.postPubAt = thr[e][p].postPubAt] ELSE Idle]
          /\ StepAll(e, L, t)
    BY <1>6, <2>l, <2>c DEF ClaimGroup
  <2>2. \A p \in PP : row'[p].sched = row[p].sched /\ row'[p].retry = row[p].retry
    <3>1. \A r \in Row : [r EXCEPT !.status = "publishing"].sched = r.sched
                         /\ [r EXCEPT !.status = "publishing"].retry = r.retry
      BY DEF Row
    <3> QED BY <1>0, <2>1, <3>1
  <2>3. \A p \in L : t[p].sched = row[p].sched \/ t[p] = Idle
    <3>1. \A p \in C : [Load(p, "call") EXCEPT !.postPubAt = thr[e][p].postPubAt].sched = row[p].sched
      BY DEF Load
    <3> QED BY <2>1, <3>1
  <2>4. \A p \in L : thr[e][p].pc \in Waiting \union Working
    BY <2>l DEF Waiting
  <2>5. \A p \in L : /\ t[p].pc \in Waiting \union Working => thr[e][p].pc \in Waiting \union Working \/ Arrived(p)
                     /\ t[p].pc \in InHand => t[p].sched = row[p].sched
    BY <1>i, <2>3, <2>4
  <2>s. StepAll(e, L, t) /\ L \in SUBSET PP
    BY <2>1, <2>l DEF PlatformPosts
  <2>6. \A f \in Engines, r \in PP : KeepsTime(f, r)
    BY <2>s, <2>5, SomeKeepTime
  <2> QED BY <1>c, <2>2, <2>6, TimeKept DEF TimesStay
<1>7. ASSUME NEW q \in Posts, ReadLatest(e, q) PROVE EarlyInv'
  <2>g. PICK G \in SUBSET PP : G = Group(e, q)
    BY DEF Group, PlatformPosts
  <2>1. PICK t : /\ t = [p \in G |-> [thr[e][p] EXCEPT !.pc = "sync", !.latest = LatestPubAt(q)]]
                 /\ StepAll(e, G, t)
    BY <1>7, <2>g DEF ReadLatest
  <2>2. \A p \in G : t[p].pc = "sync"
    <3>1. \A p \in G : thr[e][p] \in Thread
      BY ThreadType
    <3> QED BY <2>1, <3>1 DEF Thread
  <2>3. \A f \in Engines, r \in PP : KeepsTime(f, r)
    BY <2>1, <2>2, SomeKeepTime DEF InHand, Waiting, Working
  <2> QED BY <1>1, <1>7, <2>3 DEF ReadLatest, tables
<1>8. ASSUME NEW q \in Posts, SyncParentPublishedAt(e, q) PROVE EarlyInv'
  <2>g. PICK G \in SUBSET PP : G = Group(e, q)
    BY DEF Group, PlatformPosts
  <2>1. PICK t :
          /\ t = [p \in G |-> IF mode[e] = "polling" THEN [thr[e][p] EXCEPT !.pc = "refresh"] ELSE Idle]
          /\ StepAll(e, G, t)
    BY <1>8, <2>g DEF SyncParentPublishedAt
  <2>2. \A p \in G : t[p].pc = "refresh" \/ t[p] = Idle
    <3>1. \A p \in G : thr[e][p] \in Thread
      BY ThreadType
    <3> QED BY <2>1, <3>1 DEF Thread
  <2>3. "refresh" \notin Waiting \union Working /\ "refresh" \notin InHand
    BY DEF InHand, Waiting, Working
  <2>4. \A p \in G : t[p].pc \notin Waiting \union Working /\ t[p].pc \notin InHand
    BY <1>i, <2>2, <2>3
  <2>5. \A f \in Engines, r \in PP : KeepsTime(f, r)
    BY <2>1, <2>4, SomeKeepTime
  <2> QED BY <1>1, <1>8, <2>5 DEF SyncParentPublishedAt
<1> QED BY <1>2, <1>3, <1>4, <1>5, <1>6, <1>7, <1>8 DEF CycleStep, GroupStep

\* Every step keeps the work in time.
LEMMA NextInTime ==
  ASSUME TypeOK, EarlyInv, [Next]_vars
  PROVE  EarlyInv'
<1>0. now \in Nat
  BY PublisherAssumption DEF TypeOK
<1>1. ASSUME NEW p \in PP, RunFirstComment(p) PROVE EarlyInv'
  <2>1. UNCHANGED <<row, thr, postSched, now>>
    BY <1>1 DEF RunFirstComment, tables
  <2> QED BY <1>0, <2>1, TimeKept DEF TimesStay, KeepsTime
<1>2. CASE Tick
  <2>1. UNCHANGED <<row, thr, postSched>> /\ now' = now + 1
    BY <1>2 DEF Tick, tables
  <2> QED BY <1>0, <2>1, TimeKept DEF TimesStay, KeepsTime
<1>3. CASE UNCHANGED vars
  <2>1. UNCHANGED <<row, thr, postSched, now>>
    BY <1>3 DEF vars, tables
  <2> QED BY <1>0, <2>1, TimeKept DEF TimesStay, KeepsTime
<1> QED BY <1>1, <1>2, <1>3, ThreadInTime, CycleInTime DEF Next

\* A platform is called for a row whose time has come.
LEMMA CallsInTime ==
  ASSUME TypeOK, EarlyInv, [Next]_vars, NEW p \in PP, attempts'[p] # attempts[p]
  PROVE  Arrived(p)
<1>a. ASSUME NEW e \in Engines, CycleStep(e) \/ Crash(e) PROVE attempts' = attempts
  BY <1>a DEF CycleStep, Poll, ListRetries, EndCycle, Crash, ghosts
<1>b. ASSUME NEW e \in Engines, NEW q \in Posts, GroupStep(e, q) PROVE attempts' = attempts
  BY <1>b DEF GroupStep, ClaimGroup, ReadLatest, SyncParentPublishedAt, ghosts
<1>c. ASSUME Tick \/ UNCHANGED vars \/ \E r \in PP : RunFirstComment(r) PROVE attempts' = attempts
  BY <1>c DEF Tick, RunFirstComment, vars, ghosts
<1>d. ASSUME NEW e \in Engines, NEW r \in PP, ThreadStep(e, r), attempts' # attempts
      PROVE  DispatchOk(e, r) \/ DispatchError(e, r) \/ DispatchLost(e, r)
  BY <1>d DEF ThreadStep, SavePublished, LogSuccess, LogFailure, SaveOutcome, StartRetry, EndFailedRetry,
         ScheduleFirstComment, ghosts
<1>e. PICK e \in Engines, r \in PP : DispatchOk(e, r) \/ DispatchError(e, r) \/ DispatchLost(e, r)
  BY <1>a, <1>b, <1>c, <1>d DEF Next
<1>1. thr[e][r].pc = "call" /\ attempts' = [attempts EXCEPT ![r] = @ + 1]
  BY <1>e DEF DispatchOk, DispatchError, DispatchLost
<1>2. r = p
  BY <1>1 DEF TypeOK
<1> QED BY <1>1, <1>2 DEF EarlyInv, Working

\* No platform is called for a row before its scheduled time, neither at first nor in a
\* retry: for every number of engines, rows and posts, and whatever fails or dies.
THEOREM NeverBeforeItsTime == Spec => NeverEarly
<1>1. Init => EarlyInv
  <2> SUFFICES ASSUME Init PROVE EarlyInv
    OBVIOUS
  <2>1. \A p \in PP : row[p].retry = 0 /\ \A e \in Engines : thr[e][p].pc = "idle"
    BY DEF Init, Idle
  <2> QED BY <2>1 DEF EarlyInv, Waiting, Working, InHand
<1>2. TypeOK /\ EarlyInv /\ [Next]_vars => EarlyInv'
  BY NextInTime
<1>3. TypeOK /\ EarlyInv /\ [Next]_vars =>
        [\A p \in PP : attempts'[p] # attempts[p] => EffectiveAt(p) # 0 /\ EffectiveAt(p) <= now]_vars
  BY CallsInTime DEF Arrived
<1> QED BY <1>1, <1>2, <1>3, TypeCorrect, PTL DEF Spec, NeverEarly

-----------------------------------------------------------------------------
(* What the outcome of a dispatch says of the platform                     *)

\* The state of an attempt is one of six and the copies are counted.
LEMMA DispatchTyped == DispatchSpec => []DispatchTypeOK
<1>1. DispatchInit => DispatchTypeOK
  BY DEF DispatchInit, DispatchTypeOK, States
<1>2. DispatchTypeOK /\ [DispatchNext]_DispatchVars => DispatchTypeOK'
  <2> SUFFICES ASSUME DispatchTypeOK, [DispatchNext]_DispatchVars
               PROVE  DispatchTypeOK'
    OBVIOUS
  <2> USE DEF DispatchTypeOK, States
  <2>1. CASE Begin
    BY <2>1 DEF Begin
  <2>2. CASE Accept
    BY <2>2 DEF Accept
  <2>3. CASE Succeed
    BY <2>3 DEF Succeed
  <2>4. CASE Refuse
    BY <2>4 DEF Refuse
  <2>5. CASE LoseReply
    BY <2>5 DEF LoseReply
  <2>6. CASE UNCHANGED DispatchVars
    BY <2>6 DEF DispatchVars
  <2> QED
    BY <2>1, <2>2, <2>3, <2>4, <2>5, <2>6 DEF DispatchNext
<1> QED
  BY <1>1, <1>2, PTL DEF DispatchSpec

\* The copies on the platform are those whose reply was lost, and one more
\* exactly when the attempt was accepted: what the engine records as published
\* (publisher/engine.py, _publish_platform_post) is there, and what it retries
\* is there only if a reply was lost.
THEOREM Accounted == DispatchSpec => []CopiesAreAccounted
<1>1. DispatchInit => CopiesAreAccounted
  BY DEF DispatchInit, CopiesAreAccounted
<1>2. DispatchTypeOK /\ CopiesAreAccounted /\ [DispatchNext]_DispatchVars
        => CopiesAreAccounted'
  <2> SUFFICES ASSUME DispatchTypeOK, CopiesAreAccounted,
                      [DispatchNext]_DispatchVars
               PROVE  CopiesAreAccounted'
    OBVIOUS
  <2> USE DEF DispatchTypeOK, CopiesAreAccounted
  <2>1. CASE Begin
    BY <2>1 DEF Begin
  <2>2. CASE Accept
    BY <2>2 DEF Accept
  <2>3. CASE Succeed
    BY <2>3 DEF Succeed
  <2>4. CASE Refuse
    BY <2>4 DEF Refuse
  <2>5. CASE LoseReply
    BY <2>5 DEF LoseReply
  <2>6. CASE UNCHANGED DispatchVars
    BY <2>6 DEF DispatchVars
  <2> QED
    BY <2>1, <2>2, <2>3, <2>4, <2>5, <2>6 DEF DispatchNext
<1> QED
  BY <1>1, <1>2, DispatchTyped, PTL DEF DispatchSpec

-----------------------------------------------------------------------------
(* The scripts of the platforms' clients *)

CallNames == {"check", "raise", "read", "attempt", "send", "seal",
              "post", "deliver", "open", "create", "wait"}
ScriptSteps == [op : CallNames, permanent : BOOLEAN]

\* Nothing in the script makes the post visible.
Quiet(s) == \A i \in 1..Len(s) : s[i].op \notin {"post", "deliver"}

\* Whatever is left is tried without consequence.
Trails(s) == \A i \in 1..Len(s) : s[i].op = "attempt"

\* One call of the script makes the post visible, or the script raises; nothing
\* that may raise comes after it.
EndsWell(s) ==
    \E k \in 1..Len(s) :
        /\ s[k].op \in {"post", "deliver", "raise"}
        /\ \A i \in 1..(k - 1) : s[i].op \notin {"post", "deliver"}
        /\ \A i \in (k + 1)..Len(s) : s[i].op = "attempt"

\* Two scripts that publish nothing, one after the other.
LEMMA QuietConcat ==
  ASSUME NEW s \in Seq(ScriptSteps), NEW t \in Seq(ScriptSteps), Quiet(s), Quiet(t)
  PROVE  s \o t \in Seq(ScriptSteps) /\ Quiet(s \o t)
<1>1. s \o t \in Seq(ScriptSteps) /\ Len(s \o t) = Len(s) + Len(t)
  OBVIOUS
<1>2. ASSUME NEW i \in 1..Len(s \o t) PROVE (s \o t)[i].op \notin {"post", "deliver"}
  <2>1. CASE i <= Len(s)
    <3>1. (s \o t)[i] = s[i] /\ i \in 1..Len(s)
      BY <2>1, <1>1
    <3> QED BY <3>1 DEF Quiet
  <2>2. CASE i > Len(s)
    <3>1. (s \o t)[i] = t[i - Len(s)] /\ i - Len(s) \in 1..Len(t)
      BY <2>2, <1>1
    <3> QED BY <3>1 DEF Quiet
  <2> QED BY <2>1, <2>2, <1>1
<1> QED BY <1>1, <1>2 DEF Quiet

\* What publishes nothing can stand before a script that ends well.
LEMMA EndsConcat ==
  ASSUME NEW s \in Seq(ScriptSteps), NEW t \in Seq(ScriptSteps), Quiet(s), EndsWell(t)
  PROVE  s \o t \in Seq(ScriptSteps) /\ EndsWell(s \o t)
<1>1. s \o t \in Seq(ScriptSteps) /\ Len(s \o t) = Len(s) + Len(t)
  OBVIOUS
<1>2. PICK k \in 1..Len(t) :
        /\ t[k].op \in {"post", "deliver", "raise"}
        /\ \A i \in 1..(k - 1) : t[i].op \notin {"post", "deliver"}
        /\ \A i \in (k + 1)..Len(t) : t[i].op = "attempt"
  BY DEF EndsWell
<1>3. /\ \A i \in 1..Len(s) : (s \o t)[i] = s[i]
      /\ \A i \in 1..Len(t) : (s \o t)[Len(s) + i] = t[i]
  OBVIOUS
<1> DEFINE m == Len(s) + k
<1>4. m \in 1..Len(s \o t) /\ (s \o t)[m] = t[k]
  BY <1>1, <1>3
<1>5. ASSUME NEW i \in 1..(m - 1) PROVE (s \o t)[i].op \notin {"post", "deliver"}
  <2>1. CASE i <= Len(s)
    BY <2>1, <1>3 DEF Quiet
  <2>2. CASE i > Len(s)
    <3>1. i - Len(s) \in 1..(k - 1) /\ i - Len(s) \in 1..Len(t) /\ i = Len(s) + (i - Len(s))
      BY <2>2
    <3> QED BY <3>1, <1>3, <1>2
  <2> QED BY <2>1, <2>2
<1>6. ASSUME NEW i \in (m + 1)..Len(s \o t) PROVE (s \o t)[i].op = "attempt"
  <2>1. i - Len(s) \in (k + 1)..Len(t) /\ i - Len(s) \in 1..Len(t) /\ i = Len(s) + (i - Len(s))
    BY <1>1
  <2> QED BY <2>1, <1>3, <1>2
<1> QED BY <1>1, <1>2, <1>4, <1>5, <1>6 DEF EndsWell

\* The calls that a loop makes, one by one.
LEMMA RepeatedLen ==
  ASSUME NEW n \in Nat, NEW calls \in Seq(ScriptSteps), Len(calls) \in {1, 2}
  PROVE  /\ Repeated(n, calls) \in Seq(ScriptSteps)
         /\ Len(Repeated(n, calls)) = n * Len(calls)
         /\ \A i \in 1..(n * Len(calls)) :
              /\ 1 + ((i - 1) % Len(calls)) \in 1..Len(calls)
              /\ Repeated(n, calls)[i] = calls[1 + ((i - 1) % Len(calls))]
<1>1. PICK w \in Nat : w = n * Len(calls)
  OBVIOUS
<1>2. \A i \in 1..w : 1 + ((i - 1) % Len(calls)) \in 1..Len(calls)
  <2>1. CASE Len(calls) = 1
    BY <2>1
  <2>2. CASE Len(calls) = 2
    BY <2>2
  <2> QED BY <2>1, <2>2
<1>3. \A i \in 1..w : calls[1 + ((i - 1) % Len(calls))] \in ScriptSteps
  BY <1>2
<1>4. Repeated(n, calls) = [i \in 1..w |-> calls[1 + ((i - 1) % Len(calls))]]
  BY <1>1 DEF Repeated
<1>5. Repeated(n, calls) \in Seq(ScriptSteps) /\ Len(Repeated(n, calls)) = w
  BY <1>3, <1>4
<1> QED BY <1>1, <1>2, <1>4, <1>5

\* A loop over calls that publish nothing publishes nothing.
LEMMA RepeatedQuiet ==
  ASSUME NEW n \in Nat, NEW calls \in Seq(ScriptSteps), Len(calls) \in {1, 2}, Quiet(calls)
  PROVE  Repeated(n, calls) \in Seq(ScriptSteps) /\ Quiet(Repeated(n, calls))
<1> DEFINE w == n * Len(calls)
<1>1. /\ Repeated(n, calls) \in Seq(ScriptSteps) /\ Len(Repeated(n, calls)) = w
      /\ \A i \in 1..w : \E j \in 1..Len(calls) : Repeated(n, calls)[i] = calls[j]
  BY RepeatedLen
<1> HIDE DEF w
<1> QED BY <1>1 DEF Quiet

\* The calls of the scripts by their names.
LEMMA NamedCalls ==
  /\ {Check, Missing, Read, Attempt, Send, Seal, Post, Deliver, Open, Create, Wait} \subseteq ScriptSteps
  /\ Check.op = "check" /\ Missing.op = "raise" /\ Read.op = "read" /\ Attempt.op = "attempt"
  /\ Send.op = "send" /\ Seal.op = "seal" /\ Post.op = "post" /\ Deliver.op = "deliver"
  /\ Open.op = "open" /\ Create.op = "create" /\ Wait.op = "wait"
<1> USE DEF Op
<1>1. /\ Check = Op("check") /\ Missing = Op("raise") /\ Read = Op("read") /\ Attempt = Op("attempt")
      /\ Send = Op("send") /\ Seal = Op("seal") /\ Post = Op("post") /\ Deliver = Op("deliver")
      /\ Open = Op("open") /\ Create = Op("create") /\ Wait = Op("wait")
  BY DEF Check, Missing, Read, Attempt, Send, Seal, Post, Deliver, Open, Create, Wait
<1>2. \A name \in CallNames : Op(name) \in ScriptSteps /\ Op(name).op = name
  BY DEF ScriptSteps
<1> HIDE DEF Op
<1> QED BY <1>1, <1>2 DEF CallNames

\* A call with retryable=False is the same call.
LEMMA FinalCalls ==
  ASSUME NEW c \in ScriptSteps
  PROVE  Final(c) \in ScriptSteps /\ Final(c).op = c.op
BY DEF Final, ScriptSteps

\* Short scripts.
LEMMA OneCall ==
  ASSUME NEW c \in ScriptSteps
  PROVE  /\ <<c>> \in Seq(ScriptSteps) /\ Len(<<c>>) = 1
         /\ c.op \notin {"post", "deliver"} => Quiet(<<c>>)
         /\ c.op \in {"post", "deliver", "raise"} => EndsWell(<<c>>)
BY DEF Quiet, EndsWell

\* Scripts of two calls.
LEMMA TwoCalls ==
  ASSUME NEW c \in ScriptSteps, NEW d \in ScriptSteps, c.op \notin {"post", "deliver"}
  PROVE  /\ <<c, d>> \in Seq(ScriptSteps) /\ Len(<<c, d>>) = 2
         /\ d.op \notin {"post", "deliver"} => Quiet(<<c, d>>)
         /\ d.op \in {"post", "deliver", "raise"} => EndsWell(<<c, d>>)
<1>1. /\ <<c, d>> \in Seq(ScriptSteps) /\ Len(<<c, d>>) = 2
      /\ <<c, d>>[1] = c /\ <<c, d>>[2] = d
  OBVIOUS
<1>2. 1..2 = {1, 2} /\ 1..(2 - 1) = {1} /\ (2 + 1)..2 = {}
  OBVIOUS
<1> HIDE DEF ScriptSteps
<1> QED BY <1>1, <1>2 DEF Quiet, EndsWell

\* Scripts of three calls.
LEMMA ThreeCalls ==
  ASSUME NEW c \in ScriptSteps, NEW d \in ScriptSteps, NEW f \in ScriptSteps,
         c.op \notin {"post", "deliver"}, d.op \notin {"post", "deliver"}
  PROVE  /\ <<c, d, f>> \in Seq(ScriptSteps)
         /\ f.op \notin {"post", "deliver"} => Quiet(<<c, d, f>>)
         /\ f.op \in {"post", "deliver", "raise"} => EndsWell(<<c, d, f>>)
<1>1. /\ <<c, d, f>> \in Seq(ScriptSteps) /\ Len(<<c, d, f>>) = 3
      /\ <<c, d, f>>[1] = c /\ <<c, d, f>>[2] = d /\ <<c, d, f>>[3] = f
  OBVIOUS
<1>2. 1..3 = {1, 2, 3} /\ 1..(3 - 1) = {1, 2} /\ (3 + 1)..3 = {}
  OBVIOUS
<1> HIDE DEF ScriptSteps
<1> QED BY <1>1, <1>2 DEF Quiet, EndsWell

\* A call that makes the post visible, and one without consequence.
LEMMA CallThenAttempt ==
  ASSUME NEW c \in ScriptSteps, NEW d \in ScriptSteps,
         c.op \in {"post", "deliver"}, d.op = "attempt"
  PROVE  <<c, d>> \in Seq(ScriptSteps) /\ EndsWell(<<c, d>>)
<1>1. /\ <<c, d>> \in Seq(ScriptSteps) /\ Len(<<c, d>>) = 2
      /\ <<c, d>>[1] = c /\ <<c, d>>[2] = d
  OBVIOUS
<1>2. 1..2 = {1, 2} /\ 1..(1 - 1) = {} /\ (1 + 1)..2 = {2}
  OBVIOUS
<1> HIDE DEF ScriptSteps
<1> QED BY <1>1, <1>2 DEF EndsWell

Sound(s) == s \in Seq(ScriptSteps) /\ EndsWell(s)
Harmless(s) == s \in Seq(ScriptSteps) /\ Quiet(s)

\* Calls that publish nothing, and then a script that ends well.
LEMMA HarmlessThenSound ==
  ASSUME NEW s, NEW t, Harmless(s), Sound(t)
  PROVE  Sound(s \o t)
BY EndsConcat DEF Harmless, Sound

\* Calls that publish nothing, twice.
LEMMA HarmlessConcat ==
  ASSUME NEW s, NEW t, Harmless(s), Harmless(t)
  PROVE  Harmless(s \o t)
BY QuietConcat DEF Harmless

\* What the clients do before they publish.
LEMMA HarmlessCalls ==
  /\ Harmless(<<>>)
  /\ \A c \in {Missing, Check, Read, Attempt, Open, Create} : Harmless(<<c>>)
  /\ \A c \in {Create, Send, Read} : \A n \in Nat : Harmless(Repeated(n, <<c>>))
  /\ \A n \in Nat : Harmless(Repeated(n, <<Create, Wait>>))
<1>1. Harmless(<<>>)
  BY DEF Harmless, Quiet
<1>2. \A c \in {Missing, Check, Read, Attempt, Open, Create, Send} :
        /\ Harmless(<<c>>) /\ <<c>> \in Seq(ScriptSteps) /\ Len(<<c>>) \in {1, 2} /\ Quiet(<<c>>)
  <2> SUFFICES ASSUME NEW c \in {Missing, Check, Read, Attempt, Open, Create, Send}
               PROVE  /\ Harmless(<<c>>) /\ <<c>> \in Seq(ScriptSteps) /\ Len(<<c>>) \in {1, 2}
                      /\ Quiet(<<c>>)
    OBVIOUS
  <2>1. c \in ScriptSteps /\ c.op \notin {"post", "deliver"}
    BY NamedCalls
  <2> QED BY <2>1, OneCall DEF Harmless
<1>3. <<Create, Wait>> \in Seq(ScriptSteps) /\ Len(<<Create, Wait>>) \in {1, 2} /\ Quiet(<<Create, Wait>>)
  BY NamedCalls, TwoCalls
<1> QED BY <1>1, <1>2, <1>3, RepeatedQuiet DEF Harmless

\* How the scripts of the clients end.
LEMMA SoundEnds ==
  /\ Sound(<<Post>>) /\ Sound(<<Missing>>)
  /\ Sound(<<Open, Post>>) /\ Sound(<<Create, Post>>) /\ Sound(<<Check, Post>>) /\ Sound(<<Read, Post>>)
  /\ Sound(<<Create, Wait, Post>>) /\ Sound(<<Open, Seal, Post>>) /\ Sound(<<Seal, Wait, Post>>)
  /\ Sound(<<Read, Create, Post>>)
  /\ Sound(<<Deliver, Attempt>>)
<1>1. Sound(<<Post>>) /\ Sound(<<Missing>>)
  BY NamedCalls, OneCall DEF Sound
<1>2. Sound(<<Open, Post>>) /\ Sound(<<Create, Post>>) /\ Sound(<<Check, Post>>) /\ Sound(<<Read, Post>>)
  BY NamedCalls, TwoCalls DEF Sound
<1>3. \A c \in {Create, Open, Seal, Read}, d \in {Wait, Seal, Create} : Sound(<<c, d, Post>>)
  <2> SUFFICES ASSUME NEW c \in {Create, Open, Seal, Read}, NEW d \in {Wait, Seal, Create}
               PROVE  Sound(<<c, d, Post>>)
    OBVIOUS
  <2>1. /\ c \in ScriptSteps /\ d \in ScriptSteps /\ Post \in ScriptSteps
        /\ c.op \notin {"post", "deliver"} /\ d.op \notin {"post", "deliver"}
        /\ Post.op \in {"post", "deliver", "raise"}
    BY NamedCalls
  <2> QED BY <2>1, ThreeCalls DEF Sound
<1>4. Sound(<<Deliver, Attempt>>)
  BY NamedCalls, CallThenAttempt DEF Sound
<1> QED BY <1>1, <1>2, <1>3, <1>4

\* LinkedIn (providers/linkedin.py), a member's or a company's.
LEMMA LinkedInEndsWell ==
  ASSUME NEW type, NEW n \in Nat
  PROVE  Sound(LinkedInPersonal(type, n)) /\ Sound(LinkedInCompany(type, n))
<1>1. Sound(LinkedInVideo(n))
  <2>1. Harmless(<<Check, Open>>)
    BY NamedCalls, TwoCalls DEF Harmless
  <2>2. Harmless(<<Check, Open>> \o Repeated(n, <<Send>>))
    BY <2>1, HarmlessCalls, HarmlessConcat
  <2> QED BY <2>2, HarmlessThenSound, SoundEnds
          DEF LinkedInVideo, LinkedInVideoFile, LinkedInUploadChunk, LinkedInWait
<1>2. Sound(LinkedInScript(type, n))
  <2>1. Sound(LinkedInImage) /\ Sound(LinkedInArticle) /\ Sound(LinkedInPoll) /\ Sound(LinkedInText)
    BY SoundEnds DEF LinkedInImage, LinkedInUploadBinary, LinkedInArticle, LinkedInPoll, LinkedInText
  <2> QED BY <1>1, <2>1 DEF LinkedInScript
<1>3. Sound(LinkedInComment) /\ Sound(LinkedInPersonalComment)
  BY SoundEnds, HarmlessCalls, HarmlessThenSound DEF LinkedInComment, LinkedInPersonalComment
<1>4. Sound(<<Read>> \o LinkedInScript(type, n))
  BY <1>2, HarmlessCalls, HarmlessThenSound
<1> QED BY <1>2, <1>3, <1>4 DEF LinkedInPersonal, LinkedInCompany

\* Instagram (providers/instagram.py, instagram_login.py).
LEMMA InstagramEndsWell ==
  ASSUME NEW type, NEW n \in Nat
  PROVE  Sound(Instagram(type, n)) /\ Sound(InstagramLogin(type, n))
<1>1. Sound(Repeated(n, <<Create, Wait>>) \o <<Create, Wait, Post>>)
  BY SoundEnds, HarmlessCalls, HarmlessThenSound
<1>2. Harmless(Need(n > 0)) /\ Harmless(<<Read>>) /\ Harmless(<<Read>> \o Need(n > 0))
  BY HarmlessCalls, HarmlessConcat DEF Need
<1>3. Sound(InstagramLogin(type, n))
  BY <1>1, <1>2, SoundEnds, HarmlessThenSound
     DEF InstagramLogin, InstagramComment, InstagramCarousel, InstagramSingle, InstagramContainer,
         InstagramWait, InstagramPublish
<1>4. Sound(Instagram(type, n))
  BY <1>1, <1>2, SoundEnds, HarmlessThenSound
     DEF Instagram, BusinessComment, BusinessCarousel, BusinessSingle, BusinessContainer,
         BusinessWait, BusinessPublish, BusinessUserId
<1> QED BY <1>3, <1>4

\* Threads and Facebook (providers/threads.py, facebook.py).
LEMMA ThreadsFacebookEndWell ==
  ASSUME NEW type, NEW n \in Nat
  PROVE  Sound(Threads(type, n)) /\ Sound(Facebook(type, n))
<1>1. Sound(Repeated(n, <<Create>>) \o <<Create, Post>>)
  BY SoundEnds, HarmlessCalls, HarmlessThenSound
<1>2. Harmless(<<Read>>) /\ Harmless(<<Check>>)
  BY HarmlessCalls
<1>3. Sound(Threads(type, n))
  BY <1>1, <1>2, SoundEnds, HarmlessThenSound DEF Threads, ThreadsComment, ThreadsCarousel, ThreadsSingle
<1>4. Sound(Facebook(type, n))
  BY <1>2, SoundEnds, HarmlessThenSound
     DEF Facebook, FacebookComment, FacebookPhoto, FacebookVideo, FacebookText
<1> QED BY <1>3, <1>4

\* YouTube (providers/youtube.py): the thumbnail comes after the video.
LEMMA YouTubeEndsWell ==
  ASSUME NEW type, NEW n \in Nat
  PROVE  Sound(YouTube(type, n))
<1>1. Harmless(<<Open>> \o Need(n > 0)) /\ Harmless(Need(type \in {"video", "short"}))
  BY HarmlessCalls, HarmlessConcat DEF Need
<1>2. Sound(YouTubeVideo(n))
  BY <1>1, SoundEnds, HarmlessThenSound DEF YouTubeVideo, YouTubeThumbnail
<1> QED BY <1>1, <1>2, SoundEnds, HarmlessThenSound DEF YouTube, YouTubeComment

\* TikTok (providers/tiktok.py), from a file or from a URL.
LEMMA TikTokEndsWell ==
  ASSUME NEW type, NEW n \in Nat, NEW m \in Nat
  PROVE  Sound(TikTok(type, n, m))
<1>1. /\ Final(Check) \in ScriptSteps /\ Final(Check).op = "check"
      /\ Final(Open) \in ScriptSteps /\ Final(Open).op = "open"
      /\ Final(Post) \in ScriptSteps /\ Final(Post).op = "post"
      /\ Final(Missing) \in ScriptSteps /\ Final(Missing).op = "raise"
  BY NamedCalls, FinalCalls
<1>2. Harmless(TikTokPrivacy)
  BY <1>1, NamedCalls, ThreeCalls DEF Harmless, TikTokPrivacy
<1>3. Sound(TikTokFile)
  BY <1>1, NamedCalls, ThreeCalls DEF Sound, TikTokFile, TikTokInit
<1>4. Sound(TikTokPull) /\ Sound(<<Final(Missing)>>)
  BY <1>1, OneCall DEF Sound, TikTokPull, TikTokInitPull
<1> QED BY <1>2, <1>3, <1>4, SoundEnds, HarmlessThenSound DEF TikTok

\* Mastodon, Bluesky, Pinterest and Google Business.
LEMMA OthersEndWell ==
  ASSUME NEW type, NEW n \in Nat, NEW isVideo \in BOOLEAN
  PROVE  /\ Sound(Mastodon(type, n)) /\ Sound(Bluesky(type, n))
         /\ Sound(Pinterest(type, n, isVideo)) /\ Sound(GoogleBusiness(type, n))
<1>1. Sound(Mastodon(type, n))
  BY SoundEnds, HarmlessCalls, HarmlessThenSound DEF Mastodon, MastodonComment, MastodonStatus, MastodonUpload
<1>2. Sound(Bluesky(type, n))
  <2>2. Harmless(BlueskyEmbed(type, n))
    BY HarmlessCalls DEF BlueskyEmbed, BlueskyUpload
  <2>3. Harmless(<<Check, Read>>)
    BY NamedCalls, TwoCalls DEF Harmless
  <2>4. Harmless(<<Check, Read>> \o BlueskyFacets \o BlueskyEmbed(type, n))
    BY <2>2, <2>3, HarmlessCalls, HarmlessConcat DEF BlueskyFacets
  <2> QED BY <2>4, SoundEnds, HarmlessThenSound DEF Bluesky
<1>3. Sound(Pinterest(type, n, isVideo))
  <2>1. Sound(PinterestVideo(n))
    BY SoundEnds DEF PinterestVideo
  <2>2. Sound(PinterestPin(n))
    BY SoundEnds, HarmlessCalls, HarmlessThenSound DEF PinterestPin, Need
  <2>3. Harmless(<<Check>>)
    BY HarmlessCalls
  <2> QED BY <2>1, <2>2, <2>3, SoundEnds, HarmlessThenSound DEF Pinterest
<1>4. Sound(GoogleBusiness(type, n))
  <2>1. Harmless(<<Check>>) /\ Sound(<<Read, Read, Post>>)
    BY HarmlessCalls, NamedCalls, ThreeCalls DEF Sound
  <2>2. <<Check, Read, Read, Post>> = <<Check>> \o <<Read, Read, Post>>
    BY NamedCalls
  <2> QED BY <2>1, <2>2, SoundEnds, HarmlessThenSound DEF GoogleBusiness, GoogleAccount, GoogleLocation
<1> QED BY <1>1, <1>2, <1>3, <1>4

\* Every client of the registry, for every type of post.
LEMMA ScriptsEndWell ==
  ASSUME NEW platform \in Platforms, NEW type, NEW n \in Nat, NEW isVideo \in BOOLEAN
  PROVE  Sound(ScriptOf(platform, type, n, isVideo))
BY LinkedInEndsWell, InstagramEndsWell, ThreadsFacebookEndWell, YouTubeEndsWell, TikTokEndsWell,
   OthersEndWell
   DEF ScriptOf, Platforms

\* What is attached is a sequence, of as many files as a number says.
LEMMA AttachedLen ==
  ASSUME NEW c \in Contents, NEW platform
  PROVE  Len(Attached(platform, c.files)) \in Nat
<1>1. c.files \in Seq({"image", "video"})
  BY ProvidersAssumption
<1> DEFINE videos == {i \in DOMAIN c.files : IsVideo(c.files[i])}
<1>2. PICK m \in Nat : m = Cardinality(videos)
  <2>1. PICK k \in Nat : k = Len(c.files) /\ DOMAIN c.files = 1..k
    BY <1>1
  <2>2. IsFiniteSet(1..k) /\ videos \subseteq 1..k
    BY <2>1, FS_Interval
  <2>3. IsFiniteSet(videos)
    BY <2>2, FS_Subset
  <2> QED BY <2>3, FS_CardinalityType
<1> HIDE DEF videos
<1>3. Len([i \in 1..m |-> "video"]) = m
  OBVIOUS
<1> QED BY <1>1, <1>2, <1>3 DEF Attached, videos

\* The refresh of the token and the temporary files come first (_dispatch_to_provider).
LEMMA DispatchedEndsWell ==
  ASSUME NEW c \in Contents, NEW platform \in Platforms
  PROVE  Sound(Dispatched(platform, c))
<1>1. PICK n \in Nat : n = Len(Attached(platform, c.files))
  BY AttachedLen
<1>2. c.isVideo \in BOOLEAN
  BY ProvidersAssumption
<1>3. Harmless(<<Attempt>> \o Repeated(n, <<Read>>))
  BY HarmlessCalls, HarmlessConcat
<1>4. \A type : Sound(ScriptOf(platform, type, n, c.isVideo))
  BY <1>2, ScriptsEndWell
<1> QED BY <1>1, <1>3, <1>4, HarmlessThenSound DEF Dispatched

-----------------------------------------------------------------------------
(* The clients implement Dispatch *)

\* What is left of the script, and the copies there are.
WireInv ==
    /\ job \in [platform : Platforms, content : Contents, comment : BOOLEAN]
    /\ phase \in {"idle", "calling", "retry", "published", "failed"}
    /\ posted \in Nat
    /\ lost \in [copies : Nat, all : Nat]
    /\ phase \in {"idle", "retry", "failed"} => posted = lost.copies
    /\ phase = "published" => posted = lost.copies + 1
    /\ phase = "calling" => script \in Seq(ScriptSteps)
    /\ phase = "calling" => \/ posted = lost.copies /\ EndsWell(script)
                            \/ posted = lost.copies + 1 /\ Trails(script)

\* What the first call of a script that ends well is.
LEMMA HeadOfSound ==
  ASSUME NEW s \in Seq(ScriptSteps), EndsWell(s)
  PROVE  /\ s # <<>>
         /\ Head(s) \in ScriptSteps
         /\ Tail(s) \in Seq(ScriptSteps)
         /\ \/ Head(s).op \in {"post", "deliver"} /\ Trails(Tail(s))
            \/ Head(s).op = "raise"
            \/ Head(s).op \notin {"post", "deliver"} /\ EndsWell(Tail(s))
<1>1. PICK k \in 1..Len(s) :
        /\ s[k].op \in {"post", "deliver", "raise"}
        /\ \A i \in 1..(k - 1) : s[i].op \notin {"post", "deliver"}
        /\ \A i \in (k + 1)..Len(s) : s[i].op = "attempt"
  BY DEF EndsWell
<1>2. /\ s # <<>> /\ Head(s) = s[1] /\ Head(s) \in ScriptSteps /\ Tail(s) \in Seq(ScriptSteps)
      /\ Len(Tail(s)) = Len(s) - 1
      /\ \A i \in 1..Len(Tail(s)) : Tail(s)[i] = s[i + 1]
  BY <1>1
<1>3. CASE k = 1
  <2>1. Trails(Tail(s))
    <3> SUFFICES ASSUME NEW i \in 1..Len(Tail(s)) PROVE Tail(s)[i].op = "attempt"
      BY DEF Trails
    <3>1. i + 1 \in (k + 1)..Len(s)
      BY <1>2, <1>3
    <3> QED BY <3>1, <1>1, <1>2
  <2> QED BY <2>1, <1>1, <1>2, <1>3
<1>4. CASE k > 1
  <2> DEFINE m == k - 1
  <2>1. m \in 1..Len(Tail(s)) /\ Tail(s)[m] = s[k]
    BY <1>2, <1>4
  <2>2. ASSUME NEW i \in 1..(m - 1) PROVE Tail(s)[i].op \notin {"post", "deliver"}
    <3>1. i + 1 \in 1..(k - 1) /\ i \in 1..Len(Tail(s))
      BY <1>2
    <3> QED BY <3>1, <1>1, <1>2
  <2>3. ASSUME NEW i \in (m + 1)..Len(Tail(s)) PROVE Tail(s)[i].op = "attempt"
    <3>1. i + 1 \in (k + 1)..Len(s) /\ i \in 1..Len(Tail(s))
      BY <1>2, <1>4
    <3> QED BY <3>1, <1>1, <1>2
  <2>4. EndsWell(Tail(s))
    BY <2>1, <2>2, <2>3, <1>1 DEF EndsWell
  <2>5. 1 \in 1..(k - 1)
    BY <1>4
  <2> QED BY <2>4, <2>5, <1>1, <1>2
<1> QED BY <1>3, <1>4

\* After the call that publishes only harmless ones are left.
LEMMA HeadOfTrail ==
  ASSUME NEW s \in Seq(ScriptSteps), Trails(s), s # <<>>
  PROVE  Head(s).op = "attempt" /\ Tail(s) \in Seq(ScriptSteps) /\ Trails(Tail(s))
<1>1. /\ Head(s) = s[1] /\ 1 \in 1..Len(s) /\ Tail(s) \in Seq(ScriptSteps)
      /\ Len(Tail(s)) = Len(s) - 1
      /\ \A i \in 1..Len(Tail(s)) : Tail(s)[i] = s[i + 1] /\ i + 1 \in 1..Len(s)
  OBVIOUS
<1> HIDE DEF ScriptSteps
<1> QED BY <1>1 DEF Trails

\* What the script of an attempt says of the call it makes now.
LEMMA WireHead ==
  ASSUME WireInv, phase = "calling", script # <<>>
  PROVE  /\ Tail(script) \in Seq(ScriptSteps)
         /\ \/ /\ posted = lost.copies
               /\ \/ Head(script).op \in {"post", "deliver"} /\ Trails(Tail(script))
                  \/ Head(script).op = "raise"
                  \/ Head(script).op \notin {"post", "deliver"} /\ EndsWell(Tail(script))
            \/ /\ posted = lost.copies + 1
               /\ Head(script).op = "attempt" /\ Trails(Tail(script))
BY HeadOfSound, HeadOfTrail DEF WireInv

\* Nothing is published and nothing lost at first.
LEMMA WireInit == ProvidersInit => WireInv
BY DEF ProvidersInit, WireInv

\* A call that raises before the post is visible.
LEMMA RaiseKeeps ==
  ASSUME WireInv, phase = "calling", script # <<>>, Head(script).op # "attempt",
         NEW permanent, Raise(permanent), UNCHANGED <<job, posted, lost>>
  PROVE  WireInv' /\ phase' \in {"retry", "failed"} /\ posted = lost.copies
<1>1. posted = lost.copies
  BY WireHead
<1>2. phase' \in {"retry", "failed"}
  BY DEF Raise
<1> QED BY <1>1, <1>2 DEF WireInv

\* One that passes.
LEMMA AdvanceKeeps ==
  ASSUME WireInv, phase = "calling", script # <<>>, Head(script).op \notin {"post", "deliver", "raise"},
         Advance, UNCHANGED <<job, posted, lost>>
  PROVE  WireInv' /\ phase' = "calling"
<1>1. WireInv'
  BY WireHead DEF WireInv, Advance
<1> QED BY <1>1 DEF Advance

\* An attempt begins with a script that ends well.
LEMMA StartKeeps ==
  ASSUME WireInv, StartAttempt \/ PostFirstComment
  PROVE  WireInv' /\ phase \in {"idle", "retry"} /\ phase' = "calling" /\ UNCHANGED <<posted, lost>>
         /\ posted = lost.copies
<1>1. job.platform \in Platforms /\ job.content \in Contents
  BY DEF WireInv
<1>2. Sound(Dispatched(job.platform, job.content)) /\ Sound(ScriptOf(job.platform, "comment", 0, FALSE))
  BY <1>1, DispatchedEndsWell, ScriptsEndWell
<1>3. Sound(script')
  BY <1>2 DEF StartAttempt, PostFirstComment
<1>4. phase \in {"idle", "retry"} /\ phase' = "calling" /\ UNCHANGED <<job, posted, lost>>
  BY DEF StartAttempt, PostFirstComment
<1> QED BY <1>3, <1>4 DEF WireInv, Sound

\* The copies that a call makes.
LEMMA EffectCounts ==
  ASSUME WireInv, NEW name, Effect(name)
  PROVE  posted' = IF name \in {"post", "deliver"} THEN posted + 1 ELSE posted
BY DEF Effect, WireInv

\* A step of ProvidersNext is a step of Dispatch or a stutter.
LEMMA WireStep ==
  ASSUME WireInv, [ProvidersNext]_ProvidersVars
  PROVE  WireInv' /\ [Abstract!DispatchNext]_(Abstract!DispatchVars)
<1> USE DEF Abstract!DispatchVars
<1> DEFINE A == [Abstract!DispatchNext]_(Abstract!DispatchVars)
<1>t. /\ posted \in Nat /\ lost.copies \in Nat /\ lost.all \in Nat
      /\ phase = "calling" => posted \in {lost.copies, lost.copies + 1}
      /\ phase # "calling" /\ phase # "published" => posted = lost.copies
  BY DEF WireInv
<1>r. ASSUME phase = "calling", phase' \in {"retry", "failed"}, posted = lost.copies,
             UNCHANGED <<posted, lost>>
      PROVE  A
  <2>1. ~(posted > lost.copies) /\ phase' # "calling"
    BY <1>r, <1>t
  <2>2. Abstract!Refuse
    BY <2>1, <1>r DEF Abstract!Refuse
  <2> QED BY <2>2 DEF Abstract!DispatchNext
<1>s. ASSUME UNCHANGED <<phase, posted, lost>>
      PROVE  A
  BY <1>s
<1>1. CASE StartAttempt \/ PostFirstComment
  <2>1. A
    BY <1>1, <1>t, StartKeeps DEF Abstract!DispatchNext, Abstract!Begin
  <2> QED BY <2>1, <1>1, StartKeeps
<1>2. CASE CheckPasses
  <2>1. WireInv' /\ phase' = "calling"
    BY <1>2, AdvanceKeeps DEF CheckPasses, Calling
  <2> QED BY <2>1, <1>2, <1>s DEF CheckPasses, Calling
<1>3. CASE CheckRefuses
  <2>1. WireInv' /\ phase' \in {"retry", "failed"} /\ posted = lost.copies
    BY <1>3, RaiseKeeps DEF CheckRefuses, Calling
  <2> QED BY <2>1, <1>3, <1>r DEF CheckRefuses, Calling
<1>4. CASE CallAnswers
  <2>1. PICK name \in Remote : name = Head(script).op /\ Effect(name)
    BY <1>4 DEF CallAnswers, Calling
  <2>2. phase = "calling" /\ script # <<>> /\ Advance /\ phase' = "calling" /\ UNCHANGED <<job, lost>>
    BY <1>4 DEF CallAnswers, Calling, Advance
  <2>3. CASE name \in {"post", "deliver"}
    <3>1. posted = lost.copies /\ Trails(Tail(script)) /\ Tail(script) \in Seq(ScriptSteps)
      BY <2>1, <2>2, <2>3, WireHead
    <3>2. posted' = posted + 1
      BY <2>1, <2>3, EffectCounts
    <3>3. WireInv'
      BY <2>2, <3>1, <3>2, <1>t DEF WireInv, Advance
    <3>4. A
      BY <2>2, <3>1, <3>2, <1>t DEF Abstract!DispatchNext, Abstract!Accept
    <3> QED BY <3>3, <3>4
  <2>4. CASE name \notin {"post", "deliver"}
    <3>1. UNCHANGED posted
      BY <2>1, <2>4, EffectCounts
    <3>2. Head(script).op # "raise"
      BY <2>1 DEF Remote
    <3> QED BY <2>1, <2>2, <2>4, <3>1, <3>2, <1>s, AdvanceKeeps
  <2> QED BY <2>3, <2>4
<1>5. CASE CallRefused
  <2>1. PICK permanent : Raise(permanent)
    BY <1>5 DEF CallRefused
  <2>2. WireInv' /\ phase' \in {"retry", "failed"} /\ posted = lost.copies
    BY <1>5, <2>1, RaiseKeeps DEF CallRefused, Calling, Remote
  <2> QED BY <2>2, <1>5, <1>r DEF CallRefused, Calling
<1>6. CASE CallLosesReply
  <2>1. PICK name \in Remote : name = Head(script).op /\ Effect(name)
    BY <1>6 DEF CallLosesReply, Calling
  <2>2. /\ phase = "calling" /\ script # <<>> /\ Raise(FALSE) /\ phase' \in {"retry", "failed"}
        /\ lost' = [copies |-> lost.copies + (posted' - posted), all |-> lost.all + 1]
        /\ UNCHANGED job
    BY <1>6 DEF CallLosesReply, Calling, Raise
  <2>3. posted = lost.copies
    BY <2>1, <2>2, WireHead DEF Remote
  <2>4. PICK n \in {0, 1} : posted' = posted + n
    BY <2>1, EffectCounts, <1>t
  <2>5. posted' \in Nat /\ lost'.copies = lost.copies + n /\ posted' = lost'.copies
        /\ lost' \in [copies : Nat, all : Nat]
    BY <2>2, <2>3, <2>4, <1>t
  <2>6. WireInv'
    BY <2>2, <2>5 DEF WireInv
  <2>7. A
    <3>1. CASE n = 0
      <4>1. ~(posted > lost.copies) /\ phase' # "calling" /\ posted' = posted /\ lost'.copies = lost.copies
        <5>1. posted' = posted + 0 /\ lost'.copies = lost.copies + 0
          BY <3>1, <2>4, <2>5
        <5>2. posted' = posted /\ lost'.copies = lost.copies
          BY <5>1, <1>t
        <5>3. phase' # "calling" /\ ~(posted > lost.copies)
          BY <2>2, <2>3, <1>t
        <5> QED BY <5>2, <5>3
      <4>2. Abstract!Refuse
        BY <4>1, <2>2 DEF Abstract!Refuse
      <4> QED BY <4>2 DEF Abstract!DispatchNext
    <3>2. CASE n = 1
      BY <3>2, <2>2, <2>3, <2>4, <2>5, <1>t DEF Abstract!DispatchNext, Abstract!LoseReply
    <3> QED BY <3>1, <3>2
  <2> QED BY <2>6, <2>7
<1>7. CASE PollReady
  <2>1. WireInv' /\ phase' = "calling"
    BY <1>7, AdvanceKeeps DEF PollReady, Calling
  <2> QED BY <2>1, <1>7, <1>s DEF PollReady, Calling
<1>8. CASE PollPending
  <2>1. CASE UNCHANGED <<phase, script>>
    <3>1. WireInv'
      BY <1>8, <2>1 DEF PollPending, WireInv
    <3> QED BY <3>1, <1>8, <2>1, <1>s DEF PollPending
  <2>2. CASE Raise(FALSE)
    <3>1. WireInv' /\ phase' \in {"retry", "failed"} /\ posted = lost.copies
      BY <1>8, <2>2, RaiseKeeps DEF PollPending, Calling
    <3> QED BY <3>1, <1>8, <1>r DEF PollPending, Calling
  <2> QED BY <1>8, <2>1, <2>2 DEF PollPending
<1>9. CASE PollFailed \/ PollRaises
  <2>1. WireInv' /\ phase' \in {"retry", "failed"} /\ posted = lost.copies
    BY <1>9, RaiseKeeps DEF PollFailed, PollRaises, Calling
  <2> QED BY <2>1, <1>9, <1>r DEF PollFailed, PollRaises, Calling
<1>10. CASE Return
  <2>1. posted = lost.copies + 1
    BY <1>10, HeadOfSound DEF Return, WireInv
  <2>2. WireInv'
    BY <1>10, <2>1 DEF Return, WireInv
  <2>3. A
    BY <1>10, <2>1, <1>t DEF Return, Abstract!DispatchNext, Abstract!Succeed
  <2> QED BY <2>2, <2>3
<1>11. CASE (\E i \in DOMAIN media : Process(i)) \/ UNCHANGED ProvidersVars
  <2>1. UNCHANGED <<job, phase, script, posted, lost>>
    BY <1>11 DEF Process, ProvidersVars
  <2> QED BY <2>1, <1>s DEF WireInv
<1> QED
  BY <1>1, <1>2, <1>3, <1>4, <1>5, <1>6, <1>7, <1>8, <1>9, <1>10, <1>11
     DEF ProvidersNext, ClientStep

\* Whatever the platform, the type of post and what fails or is lost on the way,
\* an attempt that raises has published nothing or lost the reply to the call that
\* published: every client of src/providers implements Dispatch.
THEOREM ClientsImplementDispatch == ProvidersSpec => ImplementsDispatch
<1>1. ProvidersInit => Abstract!DispatchInit
  BY DEF ProvidersInit, Abstract!DispatchInit
<1> QED
  BY <1>1, WireInit, WireStep, PTL DEF ProvidersSpec, ImplementsDispatch, Abstract!DispatchSpec

-----------------------------------------------------------------------------
(* Instagram and LinkedIn videos wait for what they have uploaded *)

\* Bytes, and the call that completes them.
SendsThenSeals(s) ==
    \E k \in 1..Len(s) : s[k].op = "seal" /\ \A j \in 1..(k - 1) : s[j].op = "send"

\* A container is waited for at once, an upload as soon as its bytes are complete,
\* which is all that is done until then.
Waits(s) ==
    /\ \A i \in 1..Len(s) :
        s[i].op \in {"create", "seal"} => i + 1 \in 1..Len(s) /\ s[i + 1].op = "wait"
    /\ \A i \in 1..Len(s) : s[i].op = "open" =>
        \E k \in 1..Len(s) :
            /\ i < k /\ s[k].op = "seal"
            /\ \A j \in (i + 1)..(k - 1) : s[j].op = "send"

Patient(s) == s \in Seq(ScriptSteps) /\ Waits(s)

\* Two scripts that wait, one after the other.
LEMMA PatientConcat ==
  ASSUME NEW s, NEW t, Patient(s), Patient(t)
  PROVE  Patient(s \o t)
<1>1. s \in Seq(ScriptSteps) /\ t \in Seq(ScriptSteps) /\ Waits(s) /\ Waits(t)
  BY DEF Patient
<1>2. PICK m \in Nat, n \in Nat : m = Len(s) /\ n = Len(t)
  BY <1>1
<1> DEFINE u == s \o t
<1>3. u \in Seq(ScriptSteps) /\ Len(u) = m + n
  BY <1>1, <1>2
<1>4. /\ \A i \in 1..m : u[i] = s[i]
      /\ \A i \in 1..n : u[m + i] = t[i]
  BY <1>1, <1>2
<1>5. \A i \in (m + 1)..(m + n) : i - m \in 1..n /\ u[i] = t[i - m]
  <2> SUFFICES ASSUME NEW i \in (m + 1)..(m + n) PROVE i - m \in 1..n /\ u[i] = t[i - m]
    OBVIOUS
  <2>1. PICK j \in 1..n : i = m + j
    <3> WITNESS i - m \in 1..n
    <3> QED OBVIOUS
  <2>2. i - m = j
    BY <2>1
  <2> QED BY <2>1, <2>2, <1>4
<1> HIDE DEF u
<1>6. ASSUME NEW i \in 1..(m + n), u[i].op \in {"create", "seal"}
      PROVE  i + 1 \in 1..(m + n) /\ u[i + 1].op = "wait"
  <2>1. CASE i <= m
    <3>1. i + 1 \in 1..m /\ s[i + 1].op = "wait"
      BY <2>1, <1>1, <1>2, <1>4, <1>6 DEF Waits
    <3> QED BY <3>1, <1>4
  <2>2. CASE i > m
    <3>1. PICK j \in 1..n : j = i - m /\ u[i] = t[j]
      BY <2>2, <1>5
    <3>2. j + 1 \in 1..n /\ t[j + 1].op = "wait"
      BY <3>1, <1>1, <1>2, <1>6 DEF Waits
    <3>3. i + 1 = m + (j + 1)
      BY <3>1
    <3> QED BY <3>2, <3>3, <1>4
  <2> QED BY <2>1, <2>2
<1>7. ASSUME NEW i \in 1..(m + n), u[i].op = "open"
      PROVE  \E k \in 1..(m + n) : /\ i < k /\ u[k].op = "seal"
                                   /\ \A j \in (i + 1)..(k - 1) : u[j].op = "send"
  <2>1. CASE i <= m
    <3>1. PICK k \in 1..m : i < k /\ s[k].op = "seal" /\ \A j \in (i + 1)..(k - 1) : s[j].op = "send"
      BY <2>1, <1>1, <1>2, <1>4, <1>7 DEF Waits
    <3>2. k \in 1..(m + n) /\ u[k] = s[k] /\ \A j \in (i + 1)..(k - 1) : u[j] = s[j]
      BY <1>4
    <3> QED BY <3>1, <3>2
  <2>2. CASE i > m
    <3>1. PICK h \in 1..n : h = i - m /\ u[i] = t[h]
      BY <2>2, <1>5
    <3>2. PICK k \in 1..n : h < k /\ t[k].op = "seal" /\ \A j \in (h + 1)..(k - 1) : t[j].op = "send"
      BY <3>1, <1>1, <1>2, <1>7 DEF Waits
    <3>3. m + k \in 1..(m + n) /\ i < m + k /\ u[m + k] = t[k]
      BY <3>1, <3>2, <1>4
    <3>4. ASSUME NEW j \in (i + 1)..((m + k) - 1) PROVE u[j].op = "send"
      <4>1. j \in (m + 1)..(m + n) /\ j - m \in (h + 1)..(k - 1)
        BY <3>1
      <4> QED BY <4>1, <3>2, <1>5
    <3> QED BY <3>2, <3>3, <3>4
  <2> QED BY <2>1, <2>2
<1>8. Waits(u)
  BY <1>3, <1>6, <1>7 DEF Waits
<1> QED BY <1>3, <1>8 DEF Patient, u

\* The items of a pair.
LEMMA PairItems ==
  ASSUME NEW c, NEW d
  PROVE  <<c, d>>[1] = c /\ <<c, d>>[2] = d
OBVIOUS

\* The items of two scripts one after the other.
LEMMA ConcatItems ==
  ASSUME NEW s \in Seq(ScriptSteps), NEW t \in Seq(ScriptSteps)
  PROVE  /\ s \o t \in Seq(ScriptSteps) /\ Len(s \o t) = Len(s) + Len(t)
         /\ \A i \in 1..Len(s) : (s \o t)[i] = s[i]
         /\ \A i \in 1..Len(t) : (s \o t)[Len(s) + i] = t[i]
OBVIOUS

\* The scripts that Instagram's are made of.
LEMMA PatientCalls ==
  /\ \A c \in {Read, Check, Missing, Post} : Patient(<<c>>)
  /\ Patient(<<Read, Post>>)
  /\ Patient(<<Create, Wait, Post>>)
  /\ \A n \in Nat : Patient(Repeated(n, <<Create, Wait>>))
<1>1. ASSUME NEW c \in {Read, Check, Missing, Post} PROVE Patient(<<c>>)
  <2>1. c \in ScriptSteps /\ c.op \notin {"create", "seal", "open"}
    BY NamedCalls
  <2>2. <<c>> \in Seq(ScriptSteps) /\ Len(<<c>>) = 1 /\ \A i \in 1..1 : <<c>>[i] = c
    BY <2>1
  <2> HIDE DEF ScriptSteps
  <2> QED BY <2>1, <2>2 DEF Patient, Waits
<1>2. Patient(<<Read, Post>>)
  <2>1. /\ <<Read, Post>> \in Seq(ScriptSteps) /\ Len(<<Read, Post>>) = 2
        /\ <<Read, Post>>[1] = Read /\ <<Read, Post>>[2] = Post
    BY NamedCalls, TwoCalls, PairItems
  <2>2. 1..2 = {1, 2}
    OBVIOUS
  <2> HIDE DEF ScriptSteps
  <2> QED BY <2>1, <2>2, NamedCalls DEF Patient, Waits
<1>3. Patient(<<Create, Wait>>)
  <2>1. /\ <<Create, Wait>> \in Seq(ScriptSteps) /\ Len(<<Create, Wait>>) = 2
        /\ <<Create, Wait>>[1] = Create /\ <<Create, Wait>>[2] = Wait
    BY NamedCalls, TwoCalls, PairItems
  <2>2. 1..2 = {1, 2} /\ 1 + 1 = 2
    OBVIOUS
  <2> HIDE DEF ScriptSteps
  <2> QED BY <2>1, <2>2, NamedCalls DEF Patient, Waits
<1>4. Patient(<<Create, Wait, Post>>)
  <2>1. /\ <<Create, Wait, Post>> \in Seq(ScriptSteps) /\ Len(<<Create, Wait, Post>>) = 3
        /\ <<Create, Wait, Post>>[1] = Create /\ <<Create, Wait, Post>>[2] = Wait
        /\ <<Create, Wait, Post>>[3] = Post
    BY NamedCalls, ThreeCalls
  <2>2. 1..3 = {1, 2, 3} /\ 1 + 1 = 2
    OBVIOUS
  <2> HIDE DEF ScriptSteps
  <2> QED BY <2>1, <2>2, NamedCalls DEF Patient, Waits
<1>5. ASSUME NEW n \in Nat PROVE Patient(Repeated(n, <<Create, Wait>>))
  <2> DEFINE s == Repeated(n, <<Create, Wait>>)
  <2>1. /\ <<Create, Wait>> \in Seq(ScriptSteps) /\ Len(<<Create, Wait>>) = 2
        /\ <<Create, Wait>>[1] = Create /\ <<Create, Wait>>[2] = Wait
    BY NamedCalls, TwoCalls, PairItems
  <2>2. PICK w \in Nat : w = n * 2
    OBVIOUS
  <2>3. /\ s \in Seq(ScriptSteps) /\ Len(s) = w
        /\ \A i \in 1..w : s[i] = <<Create, Wait>>[1 + ((i - 1) % 2)]
    BY <2>1, <2>2, RepeatedLen
  <2>4. \A i \in 1..w : (i - 1) % 2 \in {0, 1}
    OBVIOUS
  <2> HIDE DEF s, ScriptSteps
  <2>5. ASSUME NEW i \in 1..w
        PROVE  /\ s[i].op \in {"create", "wait"}
               /\ s[i].op = "create" => i + 1 \in 1..w /\ s[i + 1].op = "wait"
    <3>1. CASE (i - 1) % 2 = 1
      <4>1. s[i] = Wait
        BY <3>1, <2>1, <2>3
      <4> QED BY <4>1, NamedCalls
    <3>2. CASE (i - 1) % 2 = 0
      <4>1. s[i] = Create
        BY <3>2, <2>1, <2>3
      <4>2. i + 1 \in 1..w /\ ((i + 1) - 1) % 2 = 1
        BY <3>2, <2>2
      <4>3. s[i + 1] = Wait
        BY <4>2, <2>1, <2>3
      <4> QED BY <4>1, <4>2, <4>3, NamedCalls
    <3> QED BY <3>1, <3>2, <2>4
  <2>6. Waits(s)
    BY <2>3, <2>5 DEF Waits
  <2> QED BY <2>3, <2>6 DEF Patient, s
<1> QED BY <1>1, <1>2, <1>4, <1>5

\* A LinkedIn video is opened, sent in chunks, sealed and waited for.
LEMMA LinkedInVideoIsPatient ==
  ASSUME NEW n \in Nat
  PROVE  Patient(LinkedInVideo(n))
<1> DEFINE sends == Repeated(n, <<Send>>)
           a == <<Check, Open>> \o sends
           b == <<Seal, Wait, Post>>
           s == a \o b
<1>0. <<Send>> \in Seq(ScriptSteps) /\ Len(<<Send>>) = 1 /\ <<Send>>[1] = Send
  BY NamedCalls
<1>1. sends \in Seq(ScriptSteps) /\ Len(sends) = n /\ \A i \in 1..n : sends[i] = Send
  <2>1. PICK calls \in Seq(ScriptSteps) : calls = <<Send>> /\ Len(calls) = 1 /\ calls[1] = Send
    BY <1>0
  <2>2. PICK w \in Nat : w = n * Len(calls)
    BY <2>1
  <2>3. w = n /\ \A i \in 1..n : 1 + ((i - 1) % 1) = 1
    BY <2>1, <2>2
  <2>4. /\ sends \in Seq(ScriptSteps) /\ Len(sends) = w
        /\ \A i \in 1..w : sends[i] = calls[1 + ((i - 1) % Len(calls))]
    BY <2>1, <2>2, RepeatedLen
  <2> QED BY <2>1, <2>3, <2>4
<1> HIDE DEF sends
<1>2. /\ a \in Seq(ScriptSteps) /\ Len(a) = n + 2 /\ a[1] = Check /\ a[2] = Open
      /\ \A i \in 3..(n + 2) : a[i] = Send
  <2>1. /\ <<Check, Open>> \in Seq(ScriptSteps) /\ Len(<<Check, Open>>) = 2
        /\ <<Check, Open>>[1] = Check /\ <<Check, Open>>[2] = Open
    BY NamedCalls, TwoCalls, PairItems
  <2>2. PICK h : h = <<Check, Open>>
    OBVIOUS
  <2>3. /\ h \o sends \in Seq(ScriptSteps) /\ Len(h \o sends) = n + 2
        /\ (h \o sends)[1] = Check /\ (h \o sends)[2] = Open
    BY <2>1, <2>2, <1>1
  <2>4. ASSUME NEW i \in 3..(n + 2) PROVE (h \o sends)[i] = Send
    <3>1. i - 2 \in 1..n /\ (h \o sends)[i] = sends[i - 2]
      BY <2>1, <2>2, <1>1
    <3> QED BY <3>1, <1>1
  <2> QED BY <2>2, <2>3, <2>4
<1>3. /\ b \in Seq(ScriptSteps) /\ Len(b) = 3 /\ b[1] = Seal /\ b[2] = Wait /\ b[3] = Post
  BY NamedCalls
<1> HIDE DEF a, b
<1>4. /\ s \in Seq(ScriptSteps) /\ Len(s) = n + 5
      /\ \A i \in 1..(n + 2) : s[i] = a[i]
      /\ s[n + 3] = b[1] /\ s[n + 4] = b[2] /\ s[n + 5] = b[3]
  <2>1. PICK m \in Nat : m = Len(a) /\ m = n + 2
    BY <1>2
  <2>2. /\ s \in Seq(ScriptSteps) /\ Len(s) = m + 3
        /\ \A i \in 1..m : s[i] = a[i]
        /\ \A i \in 1..3 : s[m + i] = b[i]
    <3>1. a \in Seq(ScriptSteps) /\ Len(a) = m /\ b \in Seq(ScriptSteps) /\ Len(b) = 3
      BY <1>2, <1>3, <2>1
    <3>2. /\ s \in Seq(ScriptSteps) /\ Len(s) = Len(a) + Len(b)
          /\ \A i \in 1..Len(a) : s[i] = a[i]
          /\ \A i \in 1..Len(b) : s[Len(a) + i] = b[i]
      BY <3>1, ConcatItems
    <3> HIDE DEF s
    <3> QED BY <3>1, <3>2
  <2> HIDE DEF s
  <2> QED BY <2>1, <2>2
<1> HIDE DEF s, ScriptSteps
<1>5. /\ s[1].op = "check" /\ s[2].op = "open" /\ \A i \in 3..(n + 2) : s[i].op = "send"
      /\ s[n + 3].op = "seal" /\ s[n + 4].op = "wait" /\ s[n + 5].op = "post"
  BY <1>2, <1>3, <1>4, NamedCalls
<1>6. \A i \in 1..(n + 5) : i \in {1, 2, n + 3, n + 4, n + 5} \/ i \in 3..(n + 2)
  OBVIOUS
<1>7. ASSUME NEW i \in 1..(n + 5), s[i].op \in {"create", "seal"}
      PROVE  i + 1 \in 1..(n + 5) /\ s[i + 1].op = "wait"
  <2>1. i = n + 3
    BY <1>5, <1>6, <1>7
  <2> QED BY <2>1, <1>5
<1>8. ASSUME NEW i \in 1..(n + 5), s[i].op = "open"
      PROVE  \E k \in 1..(n + 5) : /\ i < k /\ s[k].op = "seal"
                                   /\ \A j \in (i + 1)..(k - 1) : s[j].op = "send"
  <2>1. i = 2
    BY <1>5, <1>6, <1>8
  <2> WITNESS n + 3 \in 1..(n + 5)
  <2> QED BY <2>1, <1>5
<1>9. Waits(s)
  BY <1>4, <1>7, <1>8 DEF Waits
<1>10. LinkedInVideo(n) = s
  BY DEF LinkedInVideo, LinkedInVideoFile, LinkedInUploadChunk, LinkedInWait, s, a, b, sends
<1> QED BY <1>4, <1>9, <1>10 DEF Patient

\* The types of post whose clients wait.
MustWait(platform, type) ==
    \/ platform \in {"instagram", "instagram_login"}
    \/ platform \in {"linkedin_personal", "linkedin_company"} /\ type \in {"video", "comment"}

\* The clients that wait (_wait_for_container, _wait_for_video_available).
LEMMA PatientScripts ==
  ASSUME NEW platform, NEW type, NEW n \in Nat, NEW isVideo, MustWait(platform, type)
  PROVE  Patient(ScriptOf(platform, type, n, isVideo))
<1>1. Patient(Need(n > 0)) /\ Patient(<<Read>>) /\ Patient(<<Read>> \o Need(n > 0)) /\ Patient(<<Check>>)
  <2>1. Patient(<<>>)
    BY DEF Patient, Waits
  <2> QED BY <2>1, PatientCalls, PatientConcat DEF Need
<1>2. Patient(Repeated(n, <<Create, Wait>>) \o <<Create, Wait, Post>>) /\ Patient(<<Create, Wait, Post>>)
  BY PatientCalls, PatientConcat
<1>3. Patient(<<Post>>) /\ Patient(<<Read, Post>>) /\ Patient(<<Check>> \o <<Read, Post>>)
  BY <1>1, PatientCalls, PatientConcat
<1>4. CASE platform = "instagram"
  <2>1. Patient(Instagram(type, n))
    BY <1>1, <1>2, <1>3, PatientConcat
       DEF Instagram, BusinessComment, BusinessCarousel, BusinessSingle, BusinessContainer,
           BusinessWait, BusinessPublish, BusinessUserId
  <2> QED BY <1>4, <2>1 DEF ScriptOf
<1>5. CASE platform = "instagram_login"
  <2>1. Patient(InstagramLogin(type, n))
    BY <1>1, <1>2, <1>3, PatientConcat
       DEF InstagramLogin, InstagramComment, InstagramCarousel, InstagramSingle, InstagramContainer,
           InstagramWait, InstagramPublish
  <2> QED BY <1>5, <2>1 DEF ScriptOf
<1>6. CASE platform \in {"linkedin_personal", "linkedin_company"}
  <2>1. type \in {"video", "comment"}
    BY <1>6 DEF MustWait
  <2>2. type = "video" => Patient(LinkedInScript(type, n))
    BY LinkedInVideoIsPatient, <1>3 DEF LinkedInScript, LinkedInText
  <2>3. Patient(LinkedInPersonal(type, n)) /\ Patient(LinkedInCompany(type, n))
    BY <2>1, <2>2, <1>1, <1>3, PatientConcat
       DEF LinkedInPersonal, LinkedInCompany, LinkedInPersonalComment, LinkedInComment
  <2> QED BY <1>6, <2>3 DEF ScriptOf
<1> QED BY <1>4, <1>5, <1>6 DEF MustWait

\* Which jobs are given such a script.
Gated ==
    \/ job.platform \in {"instagram", "instagram_login"}
    \/ /\ job.platform \in {"linkedin_personal", "linkedin_company"}
       /\ ResolvePostType(job.platform, job.content.hint, job.content.files) = "video"

\* What an attempt of such a job begins with.
LEMMA GatedScripts ==
  ASSUME WireInv, Gated
  PROVE  /\ Patient(Dispatched(job.platform, job.content))
         /\ Patient(ScriptOf(job.platform, "comment", 0, FALSE))
<1>1. job.platform \in Platforms /\ job.content \in Contents
  BY DEF WireInv
<1>2. job.platform \notin VideoOnly
  BY DEF Gated, VideoOnly
<1>3. Attached(job.platform, job.content.files) = job.content.files
  BY <1>2 DEF Attached
<1>4. PICK n \in Nat : n = Len(job.content.files)
  BY <1>1, <1>3, AttachedLen
<1>5. PICK type : type = ResolvePostType(job.platform, job.content.hint, job.content.files)
  OBVIOUS
<1>6. MustWait(job.platform, type) /\ MustWait(job.platform, "comment")
  BY <1>5 DEF Gated, MustWait
<1>7. Patient(ScriptOf(job.platform, type, n, job.content.isVideo))
  BY <1>6, PatientScripts
<1>8. Patient(ScriptOf(job.platform, "comment", 0, FALSE))
  BY <1>6, PatientScripts
<1>9. Patient(<<Attempt>> \o Repeated(n, <<Read>>))
  <2>1. /\ <<Attempt>> \in Seq(ScriptSteps) /\ Len(<<Attempt>>) = 1 /\ <<Attempt>>[1] = Attempt
        /\ <<Read>> \in Seq(ScriptSteps) /\ Len(<<Read>>) = 1 /\ <<Read>>[1] = Read
    BY NamedCalls
  <2>2. Attempt.op \notin {"create", "seal", "open"} /\ Read.op \notin {"create", "seal", "open"}
    BY NamedCalls
  <2>3. Patient(<<Attempt>>)
    BY <2>1, <2>2 DEF Patient, Waits
  <2>4. PICK w : w = n * Len(<<Read>>)
    OBVIOUS
  <2>5. /\ Repeated(n, <<Read>>) \in Seq(ScriptSteps) /\ Len(Repeated(n, <<Read>>)) = w
        /\ \A i \in 1..w : \E j \in 1..1 : Repeated(n, <<Read>>)[i] = <<Read>>[j]
    BY <2>1, <2>4, RepeatedLen
  <2>6. Patient(Repeated(n, <<Read>>))
    BY <2>1, <2>2, <2>5 DEF Patient, Waits
  <2> QED BY <2>3, <2>6, PatientConcat
<1> QED BY <1>3, <1>4, <1>5, <1>7, <1>8, <1>9, PatientConcat DEF Dispatched

\* What follows the head of such a script.
LEMMA HeadOfPatient ==
  ASSUME NEW s, Patient(s), s # <<>>
  PROVE  /\ Patient(Tail(s))
         /\ Head(s).op \in {"create", "seal"} => Tail(s) # <<>> /\ Head(Tail(s)).op = "wait"
         /\ Head(s).op = "open" => SendsThenSeals(Tail(s))
<1>1. s \in Seq(ScriptSteps) /\ Waits(s)
  BY DEF Patient
<1>2. PICK n \in Nat : n = Len(s) /\ n > 0
  BY <1>1
<1> DEFINE t == Tail(s)
<1>3. /\ Head(s) = s[1] /\ t \in Seq(ScriptSteps) /\ Len(t) = n - 1
      /\ \A i \in 1..(n - 1) : t[i] = s[i + 1] /\ i + 1 \in 1..n
  BY <1>1, <1>2
<1> HIDE DEF t
<1>4. n > 1 => t # <<>> /\ Head(t) = s[2]
  <2> SUFFICES ASSUME n > 1 PROVE t # <<>> /\ Head(t) = s[2]
    OBVIOUS
  <2>1. t # <<>> /\ Head(t) = t[1]
    BY <1>3
  <2>2. 1 \in 1..(n - 1) /\ 1 + 1 = 2
    OBVIOUS
  <2> QED BY <2>1, <2>2, <1>3
<1>5. ASSUME NEW i \in 1..(n - 1), t[i].op \in {"create", "seal"}
      PROVE  i + 1 \in 1..(n - 1) /\ t[i + 1].op = "wait"
  <2>1. PICK h \in 1..n : h = i + 1 /\ s[h].op \in {"create", "seal"}
    BY <1>3, <1>5
  <2>2. h + 1 \in 1..n /\ s[h + 1].op = "wait"
    BY <2>1, <1>1, <1>2 DEF Waits
  <2>3. i + 1 \in 1..(n - 1) /\ (i + 1) + 1 = h + 1
    BY <2>1, <2>2
  <2>4. t[i + 1] = s[h + 1]
    BY <2>3, <1>3
  <2> QED BY <2>2, <2>3, <2>4
<1>6. ASSUME NEW i \in 0..(n - 1), s[i + 1].op = "open"
      PROVE  \E k \in 1..(n - 1) : /\ i < k /\ t[k].op = "seal"
                                   /\ \A j \in (i + 1)..(k - 1) : t[j].op = "send"
  <2>1. PICK h \in 1..n : h = i + 1
    BY <1>2
  <2>2. PICK k \in 1..n : h < k /\ s[k].op = "seal" /\ \A j \in (h + 1)..(k - 1) : s[j].op = "send"
    BY <2>1, <1>1, <1>2, <1>6 DEF Waits
  <2>3. k - 1 \in 1..(n - 1) /\ i < k - 1 /\ (k - 1) + 1 = k
    BY <2>1, <2>2
  <2>4. t[k - 1] = s[k]
    BY <2>3, <1>3
  <2>5. ASSUME NEW j \in (i + 1)..((k - 1) - 1) PROVE t[j].op = "send"
    <3>1. j \in 1..(n - 1) /\ j + 1 \in (h + 1)..(k - 1)
      BY <2>1, <2>2
    <3> QED BY <3>1, <2>2, <1>3
  <2> QED BY <2>2, <2>3, <2>4, <2>5
<1>7. Patient(t)
  <2>1. ASSUME NEW i \in 1..(n - 1), t[i].op = "open"
        PROVE  \E k \in 1..(n - 1) : /\ i < k /\ t[k].op = "seal"
                                     /\ \A j \in (i + 1)..(k - 1) : t[j].op = "send"
    <3>1. i \in 0..(n - 1) /\ s[i + 1].op = "open"
      BY <1>3, <2>1
    <3> QED BY <3>1, <1>6
  <2>2. Waits(t)
    BY <2>1, <1>3, <1>5 DEF Waits
  <2> QED BY <2>2, <1>3 DEF Patient
<1>8. Head(s).op \in {"create", "seal"} => t # <<>> /\ Head(t).op = "wait"
  <2>1. 1 \in 1..n /\ 1 + 1 = 2
    BY <1>2
  <2>2. Head(s).op \in {"create", "seal"} => 2 \in 1..n /\ s[2].op = "wait"
    BY <2>1, <1>1, <1>2, <1>3 DEF Waits
  <2> QED BY <2>2, <1>4
<1>9. Head(s).op = "open" => SendsThenSeals(t)
  <2>1. Head(s).op = "open" => \E k \in 1..(n - 1) : /\ 0 < k /\ t[k].op = "seal"
                                                     /\ \A j \in (0 + 1)..(k - 1) : t[j].op = "send"
    <3>1. 0 \in 0..(n - 1) /\ s[0 + 1] = Head(s)
      BY <1>2, <1>3
    <3> QED BY <3>1, <1>6
  <2> QED BY <2>1, <1>3 DEF SendsThenSeals
<1> QED BY <1>7, <1>8, <1>9 DEF t

\* The next call of an upload is another chunk, or the end of it.
LEMMA HeadOfSends ==
  ASSUME NEW s \in Seq(ScriptSteps), SendsThenSeals(s)
  PROVE  /\ s # <<>>
         /\ Head(s).op = "seal" \/ (Head(s).op = "send" /\ SendsThenSeals(Tail(s)))
<1>1. PICK k \in 1..Len(s) : s[k].op = "seal" /\ \A j \in 1..(k - 1) : s[j].op = "send"
  BY DEF SendsThenSeals
<1>2. /\ s # <<>> /\ Head(s) = s[1] /\ Len(Tail(s)) = Len(s) - 1
      /\ \A i \in 1..Len(Tail(s)) : Tail(s)[i] = s[i + 1]
  BY <1>1
<1>3. CASE k = 1
  BY <1>1, <1>2, <1>3
<1>4. CASE k > 1
  <2>1. Head(s).op = "send"
    <3>1. 1 \in 1..(k - 1)
      BY <1>4
    <3> QED BY <3>1, <1>1, <1>2
  <2>2. k - 1 \in 1..Len(Tail(s)) /\ Tail(s)[k - 1] = s[k]
    BY <1>2, <1>4
  <2>3. ASSUME NEW j \in 1..((k - 1) - 1) PROVE Tail(s)[j].op = "send"
    <3>1. j + 1 \in 1..(k - 1) /\ j \in 1..Len(Tail(s))
      BY <1>2
    <3> QED BY <3>1, <1>1, <1>2
  <2>4. SendsThenSeals(Tail(s))
    BY <2>2, <2>3, <1>1 DEF SendsThenSeals
  <2> QED BY <2>1, <2>4, <1>2
<1> QED BY <1>3, <1>4

\* An upload is sent and sealed, a container is waited for; until then everything
\* made before is ready.
MediaInv ==
    /\ media \in Seq({"open", "processing", "ready", "failed"})
    /\ phase = "idle" => media = <<>>
    /\ phase = "calling" /\ Gated => Patient(script)
    /\ phase = "calling" /\ Gated => \A i \in 1..(Len(media) - 1) : media[i] = "ready"
    /\ phase = "calling" /\ Gated /\ media # <<>> =>
        \/ media[Len(media)] = "ready"
        \/ /\ media[Len(media)] \in {"processing", "failed"}
           /\ script # <<>> /\ Head(script).op = "wait"
        \/ media[Len(media)] = "open" /\ SendsThenSeals(script)

\* No media at first.
LEMMA MediaInit == ProvidersInit => MediaInv
BY DEF ProvidersInit, MediaInv

\* Media are all ready when the call is neither a poll nor a part of an upload.
LEMMA MediaReady ==
  ASSUME WireInv, MediaInv, phase = "calling", Gated, script # <<>>,
         Head(script).op \notin {"wait", "send", "seal"}
  PROVE  \A i \in 1..Len(media) : media[i] = "ready"
<1>1. PICK m \in Nat : m = Len(media)
  BY DEF MediaInv
<1>2. script \in Seq(ScriptSteps)
  BY DEF WireInv
<1>3. CASE m = 0
  BY <1>1, <1>3
<1>4. CASE m > 0
  <2>1. media # <<>>
    BY <1>1, <1>4 DEF MediaInv
  <2>2. media[m] = "ready"
    BY <2>1, <1>1, <1>2, HeadOfSends DEF MediaInv
  <2>3. \A i \in 1..m : i = m \/ i \in 1..(m - 1)
    BY <1>4
  <2> QED BY <2>2, <2>3, <1>1 DEF MediaInv
<1> QED BY <1>3, <1>4, <1>1

\* The call passes and leaves the media as they are.
LEMMA PassKeeps ==
  ASSUME WireInv, MediaInv, phase = "calling", script # <<>>, Advance, UNCHANGED <<job, media>>,
         \/ Head(script).op \notin {"wait", "seal", "create", "open"}
         \/ Head(script).op = "wait" /\ media[Len(media)] = "ready"
  PROVE  MediaInv'
<1>1. phase' = "calling" /\ script' = Tail(script) /\ media' = media /\ job' = job /\ (Gated' <=> Gated)
  BY DEF Advance, Gated
<1>2. media' \in Seq({"open", "processing", "ready", "failed"})
  BY <1>1 DEF MediaInv
<1>3. CASE ~Gated
  BY <1>1, <1>2, <1>3 DEF MediaInv
<1>4. CASE Gated
  <2>1. Patient(script) /\ Patient(Tail(script)) /\ script \in Seq(ScriptSteps)
    BY <1>4, HeadOfPatient DEF MediaInv, WireInv
  <2>2. ASSUME media # <<>>
        PROVE  \/ media[Len(media)] = "ready"
               \/ media[Len(media)] = "open" /\ SendsThenSeals(Tail(script))
    BY <2>1, <2>2, <1>4, HeadOfSends DEF MediaInv
  <2> QED BY <1>1, <1>2, <1>4, <2>1, <2>2 DEF MediaInv
<1> QED BY <1>3, <1>4

\* The items of a sequence of which one is replaced.
LEMMA ExceptItems ==
  ASSUME NEW S, NEW s \in Seq(S), NEW i \in Nat, NEW v \in S
  PROVE  /\ [s EXCEPT ![i] = v] \in Seq(S)
         /\ Len([s EXCEPT ![i] = v]) = Len(s)
         /\ \A j \in 1..Len(s) : [s EXCEPT ![i] = v][j] = IF j = i THEN v ELSE s[j]
<1>1. PICK n \in Nat : n = Len(s) /\ DOMAIN s = 1..n /\ \A j \in 1..n : s[j] \in S
  OBVIOUS
<1>2. [s EXCEPT ![i] = v] = [j \in 1..n |-> IF j = i THEN v ELSE s[j]]
  <2>1. [s EXCEPT ![i] = v] = [j \in DOMAIN s |-> IF j = i THEN v ELSE s[j]]
    BY Zenon
  <2> QED BY <2>1, <1>1
<1>3. \A j \in 1..n : (IF j = i THEN v ELSE s[j]) \in S
  BY <1>1
<1>4. [j \in 1..n |-> IF j = i THEN v ELSE s[j]] \in Seq(S)
  BY <1>3
<1>5. /\ Len([s EXCEPT ![i] = v]) = n
      /\ \A j \in 1..n : [s EXCEPT ![i] = v][j] = IF j = i THEN v ELSE s[j]
  BY <1>1
<1> QED BY <1>1, <1>2, <1>4, <1>5

\* A call that makes a media object, or completes one.
LEMMA MakeKeeps ==
  ASSUME WireInv, MediaInv, phase = "calling", script # <<>>, Advance, UNCHANGED job,
         Head(script).op \in {"open", "create", "seal"}, Effect(Head(script).op)
  PROVE  MediaInv'
<1>1. phase' = "calling" /\ script' = Tail(script) /\ job' = job /\ (Gated' <=> Gated)
  BY DEF Advance, Gated
<1>2. script \in Seq(ScriptSteps) /\ media \in Seq({"open", "processing", "ready", "failed"})
  BY DEF WireInv, MediaInv
<1>3. PICK m \in Nat : m = Len(media)
  BY <1>2
<1>p. Gated => Patient(Tail(script))
  BY HeadOfPatient DEF MediaInv
<1>4. CASE Head(script).op \in {"open", "create"}
  <2>1. PICK v \in {"open", "processing"} :
          /\ v = IF Head(script).op = "open" THEN "open" ELSE "processing"
          /\ media' = Append(media, v)
    BY <1>4 DEF Effect
  <2>2. /\ media' \in Seq({"open", "processing", "ready", "failed"})
        /\ Len(media') = m + 1 /\ media'[m + 1] = v
        /\ \A i \in 1..m : media'[i] = media[i]
    BY <2>1, <1>2, <1>3
  <2>3. CASE ~Gated
    BY <2>2, <2>3, <1>1 DEF MediaInv
  <2>4. CASE Gated
    <3>1. \A i \in 1..m : media[i] = "ready"
      BY <2>4, <1>3, <1>4, MediaReady
    <3>2. \A i \in 1..(Len(media') - 1) : media'[i] = "ready"
      BY <3>1, <2>2
    <3>3. \/ v = "processing" /\ Tail(script) # <<>> /\ Head(Tail(script)).op = "wait"
          \/ v = "open" /\ SendsThenSeals(Tail(script))
      BY <2>1, <2>4, <1>4, HeadOfPatient DEF MediaInv
    <3> QED BY <3>2, <3>3, <2>2, <2>4, <1>1, <1>p DEF MediaInv
  <2> QED BY <2>3, <2>4
<1>5. CASE Head(script).op = "seal"
  <2>1. media' = [media EXCEPT ![m] = "processing"]
    BY <1>3, <1>5 DEF Effect
  <2>2. /\ media' \in Seq({"open", "processing", "ready", "failed"})
        /\ Len(media') = m
        /\ \A i \in 1..m : media'[i] = IF i = m THEN "processing" ELSE media[i]
    <3> DEFINE S == {"open", "processing", "ready", "failed"}
    <3>1. "processing" \in S /\ media \in Seq(S)
      BY <1>2
    <3> HIDE DEF S
    <3>2. media' \in Seq(S) /\ Len(media') = m
          /\ \A i \in 1..m : media'[i] = IF i = m THEN "processing" ELSE media[i]
      BY <3>1, <2>1, <1>3, ExceptItems
    <3> QED BY <3>2 DEF S
  <2>3. CASE ~Gated
    BY <2>2, <2>3, <1>1 DEF MediaInv
  <2>4. CASE Gated
    <3>1. \A i \in 1..(Len(media') - 1) : media'[i] = "ready"
      BY <2>2, <2>4, <1>3 DEF MediaInv
    <3>2. Tail(script) # <<>> /\ Head(Tail(script)).op = "wait"
      BY <2>4, <1>5, HeadOfPatient DEF MediaInv
    <3>3. media' # <<>> => media'[Len(media')] = "processing"
      BY <2>2
    <3> QED BY <3>1, <3>2, <3>3, <2>2, <2>4, <1>1, <1>p DEF MediaInv
  <2> QED BY <2>3, <2>4
<1> QED BY <1>4, <1>5

\* What a call does to the media, whether or not its reply comes.
LEMMA EffectTypes ==
  ASSUME MediaInv, NEW name, Effect(name)
  PROVE  media' \in Seq({"open", "processing", "ready", "failed"})
<1> DEFINE S == {"open", "processing", "ready", "failed"}
<1>1. media \in Seq(S)
  BY DEF MediaInv
<1>2. ASSUME NEW v \in S
      PROVE  Append(media, v) \in Seq(S) /\ [media EXCEPT ![Len(media)] = v] \in Seq(S)
  <2>1. Len(media) \in Nat /\ Append(media, v) \in Seq(S)
    BY <1>1
  <2> QED BY <1>1, <2>1, ExceptItems
<1>3. \/ media' = media
      \/ \E v \in S : media' = Append(media, v) \/ media' = [media EXCEPT ![Len(media)] = v]
  BY DEF Effect
<1> QED BY <1>1, <1>2, <1>3

\* Every step keeps the media and the script in step with each other.
LEMMA MediaStep ==
  ASSUME WireInv, MediaInv, [ProvidersNext]_ProvidersVars
  PROVE  MediaInv'
<1>a. ASSUME phase' \notin {"idle", "calling"},
             media' \in Seq({"open", "processing", "ready", "failed"})
      PROVE  MediaInv'
  BY <1>a DEF MediaInv
<1>1. CASE StartAttempt \/ PostFirstComment
  <2>1. media' = <<>> /\ phase' = "calling" /\ job' = job
    BY <1>1 DEF StartAttempt, PostFirstComment, MediaInv
  <2>2. Gated => Patient(script')
    BY <1>1, GatedScripts DEF StartAttempt, PostFirstComment
  <2>3. Gated' <=> Gated
    BY <2>1 DEF Gated
  <2>4. media' \in Seq({"open", "processing", "ready", "failed"}) /\ Len(media') = 0
    BY <2>1
  <2> QED BY <2>1, <2>2, <2>3, <2>4 DEF MediaInv
<1>2. CASE CheckPasses \/ PollReady
  BY <1>2, PassKeeps DEF CheckPasses, PollReady, Calling
<1>3. CASE CheckRefuses \/ CallRefused \/ PollFailed \/ PollRaises \/ Return
  <2>1. phase' \notin {"idle", "calling"} /\ media' = media
    BY <1>3 DEF CheckRefuses, CallRefused, PollFailed, PollRaises, Return, Raise
  <2> QED BY <2>1, <1>a DEF MediaInv
<1>4. CASE CallAnswers
  <2>1. phase = "calling" /\ script # <<>> /\ Advance /\ UNCHANGED job /\ Effect(Head(script).op)
    BY <1>4 DEF CallAnswers, Calling
  <2>2. CASE Head(script).op \in {"open", "create", "seal"}
    BY <2>1, <2>2, MakeKeeps
  <2>3. CASE Head(script).op \notin {"open", "create", "seal"}
    <3>1. media' = media
      BY <2>1, <2>3 DEF Effect
    <3>2. Head(script).op # "wait"
      BY <1>4 DEF CallAnswers, Calling, Remote
    <3> QED BY <2>1, <2>3, <3>1, <3>2, PassKeeps
  <2> QED BY <2>2, <2>3
<1>5. CASE CallLosesReply
  <2>1. phase' \notin {"idle", "calling"}
    BY <1>5 DEF CallLosesReply, Raise
  <2>2. media' \in Seq({"open", "processing", "ready", "failed"})
    BY <1>5, EffectTypes DEF CallLosesReply
  <2> QED BY <2>1, <2>2, <1>a
<1>6. CASE PollPending
  <2>1. media' = media /\ job' = job
    BY <1>6 DEF PollPending
  <2>2. CASE UNCHANGED <<phase, script>>
    BY <2>1, <2>2 DEF MediaInv, Gated
  <2>3. CASE Raise(FALSE)
    <3>1. phase' \notin {"idle", "calling"}
      BY <2>3 DEF Raise
    <3> QED BY <3>1, <2>1, <1>a DEF MediaInv
  <2> QED BY <1>6, <2>2, <2>3 DEF PollPending
<1>7. ASSUME NEW i \in DOMAIN media, Process(i)
      PROVE  MediaInv'
  <2>1. PICK v \in {"ready", "failed"} : media' = [media EXCEPT ![i] = v]
    BY <1>7 DEF Process
  <2>2. media[i] = "processing" /\ UNCHANGED <<job, phase, script>> /\ (Gated' <=> Gated)
    BY <1>7 DEF Process, Gated
  <2>3. media \in Seq({"open", "processing", "ready", "failed"})
    BY DEF MediaInv
  <2>4. PICK m \in Nat : m = Len(media) /\ i \in 1..m
    BY <2>3
  <2>5. /\ media' \in Seq({"open", "processing", "ready", "failed"}) /\ Len(media') = m
        /\ \A j \in 1..m : media'[j] = IF j = i THEN v ELSE media[j]
    BY <2>1, <2>3, <2>4
  <2>6. media # <<>> /\ media' # <<>>
    BY <2>4, <2>5
  <2>7. CASE ~(phase = "calling" /\ Gated)
    BY <2>2, <2>5, <2>6, <2>7 DEF MediaInv
  <2>8. CASE phase = "calling" /\ Gated
    <3>1. i = m
      BY <2>2, <2>4, <2>8 DEF MediaInv
    <3>2. script # <<>> /\ Head(script).op = "wait"
      BY <2>2, <2>4, <2>6, <2>8, <3>1 DEF MediaInv
    <3>3. \A j \in 1..(m - 1) : media'[j] = "ready"
      BY <2>4, <2>5, <2>8, <3>1 DEF MediaInv
    <3>4. media'[m] = v
      BY <2>4, <2>5, <3>1
    <3> QED BY <2>2, <2>5, <2>6, <2>8, <3>2, <3>3, <3>4 DEF MediaInv
  <2> QED BY <2>7, <2>8
<1>8. CASE UNCHANGED ProvidersVars
  BY <1>8 DEF ProvidersVars, MediaInv, Gated
<1> QED
  BY <1>1, <1>2, <1>3, <1>4, <1>5, <1>6, <1>7, <1>8 DEF ProvidersNext, ClientStep

\* However often a poll finds it unfinished, whichever item of a carousel is late and
\* whatever fails, what an Instagram post or a LinkedIn video names is ready when the
\* call that publishes it is made.
THEOREM ClientsWaitForMedia == ProvidersSpec => []PublishesOnlyReadyMedia
<1>1. WireInv /\ MediaInv => PublishesOnlyReadyMedia
  <2> SUFFICES ASSUME WireInv, MediaInv, Calling({"post"}), Gated
               PROVE  \A i \in DOMAIN media : media[i] = "ready"
    BY DEF PublishesOnlyReadyMedia, Gated
  <2>1. \A i \in 1..Len(media) : media[i] = "ready"
    BY MediaReady DEF Calling
  <2> QED BY <2>1 DEF MediaInv
<1> QED
  BY <1>1, WireInit, WireStep, MediaInit, MediaStep, PTL DEF ProvidersSpec
=============================================================================
