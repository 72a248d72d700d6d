--------------------------- MODULE PublisherProofs ---------------------------
(***************************************************************************)
(* Safety of the publishing engine for every number of rows, posts and     *)
(* engines and every value of the bounds.                                  *)
(***************************************************************************)
EXTENDS Publisher, WellFoundedInduction, TLAPS

USE PublisherAssumption

-----------------------------------------------------------------------------
(* The helpers are well typed                                              *)

\* A non-empty set of ticks has a largest element, which is what makes
\* LatestPubAt (the max of _sync_parent_published_at) well defined.
LEMMA LargestTick ==
  ASSUME NEW S \in SUBSET Times, S # {}
  PROVE  \E t \in S : \A s \in S : s <= t
<1> DEFINE D == {MaxNow - s : s \in S}
<1>1. D \subseteq Nat /\ D # {}
  <2>1. \A s \in S : MaxNow - s \in Nat
    BY DEF Times
  <2> QED BY <2>1
<1>2. PICK d \in D : \A x \in D : ~(<<x, d>> \in OpToRel(<, Nat))
  BY <1>1, NatLessThanWellFounded, WFMin
<1>3. \A x \in D : d <= x
  <2> SUFFICES ASSUME NEW x \in D PROVE d <= x
    OBVIOUS
  <2>1. x \in Nat /\ d \in Nat
    BY <1>1
  <2>2. <<x, d>> \in Nat \X Nat /\ <<x, d>>[1] = x /\ <<x, d>>[2] = d
    BY <2>1
  <2>3. ~(x < d)
    BY <1>2, <2>2 DEF OpToRel
  <2> QED BY <2>1, <2>3
<1>4. PICK t \in S : d = MaxNow - t
  OBVIOUS
<1>5. \A s \in S : d <= MaxNow - s
  BY <1>3
<1> QED BY <1>4, <1>5 DEF Times

\* LatestPubAt, the max of _sync_parent_published_at, is a tick.
LEMMA LatestType ==
  ASSUME TypeOK, NEW q \in Posts
  PROVE  LatestPubAt(q) \in Times
<1> DEFINE S == {row[p].pubAt : p \in PlatformPosts(q)} \union {0}
<1>1. S \in SUBSET Times /\ S # {}
  BY DEF TypeOK, Row, Times, PlatformPosts
<1>2. \E t \in S : \A s \in S : s <= t
  BY <1>1, LargestTick
<1>3. \E t \in S : \A p \in PlatformPosts(q) : row[p].pubAt <= t
  BY <1>2
<1> QED BY <1>1, <1>3 DEF LatestPubAt

\* A thread that does not run is well typed.
LEMMA IdleType == Idle \in Thread
  BY DEF Idle, Thread, Pcs, Times

\* A freshly loaded instance of a row is well typed.
LEMMA LoadType ==
  ASSUME TypeOK, NEW p \in PP, NEW pc \in Pcs
  PROVE  Load(p, pc) \in Thread
  BY DEF TypeOK, Load, Thread, Row, Times

\* Every thread of a well-typed state is well typed.
LEMMA ThreadType ==
  ASSUME TypeOK, NEW e \in Engines, NEW p \in PP
  PROVE  thr[e][p] \in Thread
  BY DEF TypeOK

\* One thread moving to a well-typed instance leaves all threads well typed.
LEMMA StepType ==
  ASSUME TypeOK, NEW e \in Engines, NEW p \in PP, NEW t \in Thread, Step(e, p, t)
  PROVE  thr' \in [Engines -> [PP -> Thread]]
  BY DEF TypeOK, Step

\* So do the threads of a group moving together.
LEMMA StepAllType ==
  ASSUME TypeOK, NEW e \in Engines, NEW G \in SUBSET PP, NEW t \in [G -> Thread],
         StepAll(e, G, t)
  PROVE  thr' \in [Engines -> [PP -> Thread]]
<1>1. [p \in PP |-> IF p \in G THEN t[p] ELSE thr[e][p]] \in [PP -> Thread]
  BY ThreadType
<1> QED BY <1>1 DEF TypeOK, StepAll

\* So does a thread that only moves on to its next statement.
LEMMA GotoType ==
  ASSUME TypeOK, NEW e \in Engines, NEW p \in PP, NEW pc \in Pcs, Goto(e, p, pc)
  PROVE  thr' \in [Engines -> [PP -> Thread]]
<1>1. [thr[e][p] EXCEPT !.pc = pc] \in Thread
  BY ThreadType DEF Thread
<1> QED BY <1>1, StepType DEF Goto

\* platform_post.save() of a well-typed instance leaves the table well typed.
LEMMA FullSaveType ==
  ASSUME TypeOK, NEW p \in PP, NEW t \in Thread, NEW s \in Status, FullSave(p, t, s)
  PROVE  row' \in [PP -> Row]
<1>1. [status |-> s, sched |-> t.sched, retry |-> t.retry,
       next |-> t.next, pubAt |-> t.pubAt] \in Row
  BY DEF Thread, Row
<1> QED BY <1>1 DEF TypeOK, FullSave

\* _schedule_retry indexes RETRY_BACKOFF within its bounds for every retry_count.
LEMMA BackoffType == \A n \in Nat : Backoff(n) \in Nat
  BY DEF Backoff

\* The instance that _schedule_retry saves is well typed.
LEMMA RescheduledType ==
  ASSUME TypeOK, NEW t \in Thread
  PROVE  Rescheduled(t) \in Thread
<1>1. t.retry \in Nat /\ now \in Nat
  BY DEF Thread, TypeOK
<1>2. Backoff(t.retry) \in Nat
  BY <1>1, BackoffType
<1>3. \A k, n \in Nat : [t EXCEPT !.retry = k, !.next = n] \in Thread
  BY DEF Thread
<1>4. t.retry + 1 \in Nat /\ now + Backoff(t.retry) \in Nat
  BY <1>1, <1>2
<1> QED BY <1>3, <1>4 DEF Rescheduled

\* PublishLog.objects.create of the attempt in progress.
LEMMA AppendLogType ==
  ASSUME TypeOK, NEW e \in Engines, NEW p \in PP,
         logs' = [logs EXCEPT ![p] = Append(logs[p], thr[e][p].retry + 1)]
  PROVE  logs' \in [PP -> Seq(Nat)]
<1>1. thr[e][p].retry + 1 \in Nat
  BY ThreadType DEF Thread
<1>2. Append(logs[p], thr[e][p].retry + 1) \in Seq(Nat)
  BY <1>1 DEF TypeOK
<1> QED BY <1>2 DEF TypeOK

\* Counting a failed statement stays within the bound on them.
LEMMA FaultType ==
  ASSUME TypeOK, Fault
  PROVE  spent' \in Faults
<1>1. spent.db \in 0 .. MaxFaults /\ spent \in Faults
  BY DEF TypeOK, Faults
<1>2. spent.db + 1 \in 0 .. MaxFaults
  BY <1>1 DEF Fault
<1> QED BY <1>1, <1>2 DEF Fault, Faults

-----------------------------------------------------------------------------
(* Type correctness                                                        *)

\* The initial states are well typed.
LEMMA InitTypeOK == Init => TypeOK
<1> SUFFICES ASSUME Init PROVE TypeOK
  OBVIOUS
<1>1. row \in [PP -> Row]
  BY DEF Init, Row, Status, Times
<1>2. thr \in [Engines -> [PP -> Thread]]
  BY IdleType DEF Init
<1>3. spent \in Faults
  BY DEF Init, Faults
<1>4. logs \in [PP -> Seq(Nat)]
  BY DEF Init
<1> QED BY <1>1, <1>2, <1>3, <1>4 DEF Init, TypeOK, Times

\* Every statement of poll_and_publish outside the groups keeps the types.
LEMMA CycleTypeOK ==
  ASSUME TypeOK, NEW e \in Engines, CycleStep(e)
  PROVE  TypeOK'
<1>1. CASE Poll(e)
  <2>1. PICK B \in SUBSET PP :
          StepAll(e, B, [p \in B |-> [Idle EXCEPT !.pc = "listed",
                                        !.postPubAt = postPubAt[ParentOf[p]]]])
    BY <1>1 DEF Poll
  <2>2. [p \in B |-> [Idle EXCEPT !.pc = "listed",
                       !.postPubAt = postPubAt[ParentOf[p]]]] \in [B -> Thread]
    <3> SUFFICES ASSUME NEW p \in B
                 PROVE  [Idle EXCEPT !.pc = "listed",
                          !.postPubAt = postPubAt[ParentOf[p]]] \in Thread
      OBVIOUS
    <3>1. postPubAt[ParentOf[p]] \in Times
      BY DEF TypeOK
    <3> QED BY <3>1, IdleType DEF Thread, Pcs, Waiting
  <2>3. thr' \in [Engines -> [PP -> Thread]]
    BY <2>1, <2>2, StepAllType
  <2> QED BY <1>1, <2>3 DEF Poll, TypeOK, tables, ghosts
<1>2. CASE ListRetries(e)
  <2> DEFINE R == {p \in PP : RetryDue(p)}
  <2>1. [p \in R |-> Load(p, "queued")] \in [R -> Thread]
    BY LoadType DEF Pcs, Waiting
  <2>2. thr' \in [Engines -> [PP -> Thread]]
    BY <1>2, <2>1, StepAllType DEF ListRetries
  <2> QED BY <1>2, <2>2 DEF ListRetries, TypeOK, tables, ghosts
<1>3. CASE EndCycle(e)
  BY <1>3 DEF EndCycle, TypeOK, tables, ghosts
<1> QED BY <1>1, <1>2, <1>3 DEF CycleStep

\* Every statement of _publish_platform_post and of the retry loop keeps the types.
LEMMA ThreadTypeOK ==
  ASSUME TypeOK, NEW e \in Engines, NEW p \in PP, ThreadStep(e, p)
  PROVE  TypeOK'
<1> USE DEF Pcs, Waiting, Working, Ended
<1>t. thr[e][p] \in Thread
  BY ThreadType
<1>1. CASE DispatchOk(e, p)
  <2>1. thr' \in [Engines -> [PP -> Thread]]
    BY <1>1, GotoType DEF DispatchOk
  <2> QED BY <1>1, <2>1 DEF DispatchOk, TypeOK, tables
<1>2. CASE DispatchError(e, p)
  <2>1. \A r \in BOOLEAN : [thr[e][p] EXCEPT !.pc = "logErr", !.retryable = r] \in Thread
    BY <1>t DEF Thread
  <2>2. thr' \in [Engines -> [PP -> Thread]]
    BY <1>2, <2>1, StepType DEF DispatchError
  <2>3. attempts' \in [PP -> Nat]
    BY <1>2 DEF DispatchError, TypeOK
  <2>4. UNCHANGED <<tables, now, mode, tasks, logs, live, commentRuns, spent>>
    BY <1>2 DEF DispatchError
  <2> QED BY <2>2, <2>3, <2>4 DEF TypeOK, tables
<1>3. CASE DispatchLost(e, p)
  <2>1. [thr[e][p] EXCEPT !.pc = "logErr", !.retryable = TRUE] \in Thread
    BY <1>t DEF Thread
  <2>2. thr' \in [Engines -> [PP -> Thread]]
    BY <1>3, <2>1, StepType DEF DispatchLost
  <2>3. spent' \in Faults
    <3>1. spent.lost \in 0 .. MaxLost /\ spent \in Faults
      BY DEF TypeOK, Faults
    <3>2. spent.lost + 1 \in 0 .. MaxLost
      BY <1>3, <3>1 DEF DispatchLost
    <3> QED BY <1>3, <3>1, <3>2 DEF DispatchLost, Faults
  <2>4. attempts' \in [PP -> Nat] /\ live' \in [PP -> Nat]
    <3>1. attempts' = [attempts EXCEPT ![p] = @ + 1] /\ live' = [live EXCEPT ![p] = @ + 1]
      BY <1>3 DEF DispatchLost
    <3> QED BY <3>1 DEF TypeOK
  <2>5. UNCHANGED <<tables, now, mode, tasks, logs, commentRuns>>
    BY <1>3 DEF DispatchLost
  <2> QED BY <2>2, <2>3, <2>4, <2>5 DEF TypeOK, tables
<1>4. CASE SavePublished(e, p)
  <2> DEFINE t == [thr[e][p] EXCEPT !.pubAt = now]
  <2>1. t \in Thread
    <3>1. now \in Times
      BY DEF TypeOK, Times
    <3> QED BY <1>t, <3>1 DEF Thread
  <2>2. [t EXCEPT !.pc = "logOk"] \in Thread
        /\ [t EXCEPT !.pc = "logErr", !.retryable = TRUE] \in Thread
    BY <2>1 DEF Thread
  <2>3. thr' \in [Engines -> [PP -> Thread]]
    BY <1>4, <2>2, StepType DEF SavePublished
  <2>4. row' \in [PP -> Row]
    BY <1>4, <2>1, FullSaveType DEF SavePublished, Status, TypeOK
  <2>5. spent' \in Faults
    BY <1>4, FaultType DEF SavePublished, TypeOK
  <2> QED BY <1>4, <2>3, <2>4, <2>5 DEF SavePublished, TypeOK, ghosts
<1>5. CASE LogSuccess(e, p)
  <2>1. [thr[e][p] EXCEPT !.pc = "logErr", !.retryable = TRUE] \in Thread
    BY <1>t DEF Thread
  <2>2. thr' \in [Engines -> [PP -> Thread]]
    BY <1>5, <2>1, StepType, GotoType DEF LogSuccess
  <2>3. spent' \in Faults
    BY <1>5, FaultType DEF LogSuccess, TypeOK
  <2>4. logs' \in [PP -> Seq(Nat)]
    BY <1>5, AppendLogType DEF LogSuccess, TypeOK
  <2> QED BY <1>5, <2>2, <2>3, <2>4 DEF LogSuccess, TypeOK, tables, ghosts
<1>6. CASE LogFailure(e, p)
  <2>1. thr' \in [Engines -> [PP -> Thread]]
    BY <1>6, GotoType DEF LogFailure
  <2>2. spent' \in Faults
    BY <1>6, FaultType DEF LogFailure, TypeOK
  <2>3. logs' \in [PP -> Seq(Nat)]
    BY <1>6, AppendLogType DEF LogFailure, TypeOK
  <2> QED BY <1>6, <2>1, <2>2, <2>3 DEF LogFailure, TypeOK, tables, ghosts
<1>7. CASE SaveOutcome(e, p)
  <2>1. thr' \in [Engines -> [PP -> Thread]]
    BY <1>7, GotoType DEF SaveOutcome
  <2>2. row' \in [PP -> Row]
    <3>1. Rescheduled(thr[e][p]) \in Thread
      BY <1>t, RescheduledType
    <3>2. "scheduled" \in Status /\ "failed" \in Status
      BY DEF Status
    <3>3. \/ FullSave(p, Rescheduled(thr[e][p]), "scheduled")
          \/ FullSave(p, thr[e][p], "failed")
          \/ UNCHANGED row
      BY <1>7 DEF SaveOutcome
    <3>4. UNCHANGED row => row' \in [PP -> Row]
      BY DEF TypeOK
    <3> QED BY <1>t, <3>1, <3>2, <3>3, <3>4, FullSaveType
  <2>3. spent' \in Faults
    BY <1>7, FaultType DEF SaveOutcome, TypeOK
  <2> QED BY <1>7, <2>1, <2>2, <2>3 DEF SaveOutcome, TypeOK, ghosts
<1>8. CASE StartRetry(e, p)
  <2>1. thr' \in [Engines -> [PP -> Thread]]
    BY <1>8, GotoType DEF StartRetry
  <2>2. row' \in [PP -> Row]
    <3>1. row[p] \in Row
      BY DEF TypeOK
    <3>2. [row[p] EXCEPT !.status = "publishing"] \in Row
      BY <3>1 DEF Row, Status
    <3> QED BY <1>8, <3>2 DEF StartRetry, TypeOK
  <2> QED BY <1>8, <2>1, <2>2 DEF StartRetry, TypeOK, ghosts
<1>9. CASE EndFailedRetry(e, p)
  <2>1. thr' \in [Engines -> [PP -> Thread]]
    BY <1>9, IdleType, StepType DEF EndFailedRetry
  <2> QED BY <1>9, <2>1 DEF EndFailedRetry, TypeOK, tables, ghosts
<1>10. CASE ScheduleFirstComment(e, p)
  <2>1. thr' \in [Engines -> [PP -> Thread]]
    BY <1>10, IdleType, StepType DEF ScheduleFirstComment
  <2>2. tasks' \in [PP -> Nat]
    BY <1>10 DEF ScheduleFirstComment, TypeOK
  <2> QED BY <1>10, <2>1, <2>2 DEF ScheduleFirstComment, TypeOK, tables, ghosts
<1> QED BY <1>1, <1>2, <1>3, <1>4, <1>5, <1>6, <1>7, <1>8, <1>9, <1>10 DEF ThreadStep

\* Every statement of _publish_post_group outside its threads keeps the types.
LEMMA GroupTypeOK ==
  ASSUME TypeOK, NEW e \in Engines, NEW q \in Posts, GroupStep(e, q)
  PROVE  TypeOK'
<1>1. CASE ClaimGroup(e, q)
  <2> DEFINE L == {p \in PlatformPosts(q) : thr[e][p].pc = "listed"}
             C == {p \in L : row[p].status = "scheduled"}
             t == [p \in L |->
                    IF p \in C
                    THEN [Load(p, "call") EXCEPT !.postPubAt = thr[e][p].postPubAt]
                    ELSE Idle]
  <2>1. L \in SUBSET PP
    BY DEF PlatformPosts
  <2>2. t \in [L -> Thread]
    <3> SUFFICES ASSUME NEW p \in L PROVE t[p] \in Thread
      OBVIOUS
    <3>1. Load(p, "call") \in Thread
      BY <2>1, LoadType DEF Pcs, Working
    <3>2. thr[e][p].postPubAt \in Times
      BY <2>1, ThreadType DEF Thread
    <3>3. [Load(p, "call") EXCEPT !.postPubAt = thr[e][p].postPubAt] \in Thread
      BY <3>1, <3>2 DEF Thread
    <3> QED BY <3>3, IdleType
  <2>3. StepAll(e, L, t)
    BY <1>1 DEF ClaimGroup
  <2>4. thr' \in [Engines -> [PP -> Thread]]
    BY <2>1, <2>2, <2>3, StepAllType
  <2>5. row' \in [PP -> Row]
    <3>1. \A p \in PP : row[p] \in Row
      BY DEF TypeOK
    <3>2. \A r \in Row : [r EXCEPT !.status = "publishing"] \in Row
      BY DEF Row, Status
    <3>3. row' = [p \in PP |-> IF p \in C THEN [row[p] EXCEPT !.status = "publishing"]
                              ELSE row[p]]
      BY <1>1 DEF ClaimGroup
    <3> QED BY <3>1, <3>2, <3>3
  <2>6. UNCHANGED <<postSched, postPubAt, now, mode, tasks, logs, ghosts, spent>>
    BY <1>1 DEF ClaimGroup
  <2> QED BY <2>4, <2>5, <2>6 DEF TypeOK, ghosts
<1>2. CASE ReadLatest(e, q)
  <2> DEFINE G == Group(e, q)
             t == [p \in G |-> [thr[e][p] EXCEPT !.pc = "sync", !.latest = LatestPubAt(q)]]
  <2>1. G \in SUBSET PP
    BY DEF Group, PlatformPosts
  <2>2. t \in [G -> Thread]
    <3> SUFFICES ASSUME NEW p \in G PROVE t[p] \in Thread
      OBVIOUS
    <3>1. thr[e][p] \in Thread /\ LatestPubAt(q) \in Times
      BY <2>1, ThreadType, LatestType
    <3> HIDE DEF G
    <3> QED BY <3>1 DEF Thread, Pcs
  <2>3. StepAll(e, G, t)
    BY <1>2 DEF ReadLatest
  <2>4. thr' \in [Engines -> [PP -> Thread]]
    BY <2>1, <2>2, <2>3, StepAllType
  <2> QED BY <1>2, <2>4 DEF ReadLatest, TypeOK, tables, ghosts
<1>3. CASE SyncParentPublishedAt(e, q)
  <2> DEFINE G == Group(e, q)
             t == [p \in G |-> IF mode[e] = "polling"
                              THEN [thr[e][p] EXCEPT !.pc = "refresh"] ELSE Idle]
  <2>1. G \in SUBSET PP
    BY DEF Group, PlatformPosts
  <2>2. t \in [G -> Thread]
    <3> SUFFICES ASSUME NEW p \in G PROVE t[p] \in Thread
      OBVIOUS
    <3>1. [thr[e][p] EXCEPT !.pc = "refresh"] \in Thread
      BY <2>1, ThreadType DEF Thread, Pcs
    <3> HIDE DEF G
    <3> QED BY <3>1, IdleType
  <2>3. StepAll(e, G, t)
    BY <1>3 DEF SyncParentPublishedAt
  <2>4. thr' \in [Engines -> [PP -> Thread]]
    BY <2>1, <2>2, <2>3, StepAllType
  <2>5. PICK g \in G : postPubAt' = IF thr[e][g].latest \in {0, thr[e][g].postPubAt}
                                   THEN postPubAt
                                   ELSE [postPubAt EXCEPT ![q] = thr[e][g].latest]
    BY <1>3 DEF SyncParentPublishedAt
  <2>6. postPubAt' \in [Posts -> Times]
    <3>1. thr[e][g].latest \in Times
      BY <2>1, ThreadType DEF Thread
    <3> QED BY <2>5, <3>1 DEF TypeOK
  <2> QED BY <1>3, <2>4, <2>6 DEF SyncParentPublishedAt, TypeOK, ghosts
<1> QED BY <1>1, <1>2, <1>3 DEF GroupStep

\* Every step of the engines, the task queue and the clock keeps the types.
LEMMA NextTypeOK == TypeOK /\ [Next]_vars => TypeOK'
<1> SUFFICES ASSUME TypeOK, [Next]_vars PROVE TypeOK'
  OBVIOUS
<1>1. ASSUME NEW e \in Engines, CycleStep(e) PROVE TypeOK'
  BY <1>1, CycleTypeOK
<1>2. ASSUME NEW e \in Engines, NEW p \in PP, ThreadStep(e, p) PROVE TypeOK'
  BY <1>2, ThreadTypeOK
<1>3. ASSUME NEW e \in Engines, NEW q \in Posts, GroupStep(e, q) PROVE TypeOK'
  BY <1>3, GroupTypeOK
<1>4. ASSUME NEW e \in Engines, Crash(e) PROVE TypeOK'
  <2>1. thr' \in [Engines -> [PP -> Thread]]
    BY <1>4, IdleType DEF Crash, TypeOK
  <2>2. spent' \in Faults
    <3>1. spent.crash \in 0 .. MaxCrashes /\ spent \in Faults
      BY DEF TypeOK, Faults
    <3>2. spent.crash + 1 \in 0 .. MaxCrashes
      BY <1>4, <3>1 DEF Crash
    <3> QED BY <1>4, <3>1, <3>2 DEF Crash, Faults
  <2> QED BY <1>4, <2>1, <2>2 DEF Crash, TypeOK, tables, ghosts
<1>5. ASSUME NEW p \in PP, RunFirstComment(p) PROVE TypeOK'
  <2>1. tasks' \in [PP -> Nat] /\ commentRuns' \in [PP -> Nat]
    <3>1. tasks[p] - 1 \in Nat /\ commentRuns[p] + 1 \in Nat
      BY <1>5 DEF RunFirstComment, TypeOK
    <3> QED BY <1>5, <3>1 DEF RunFirstComment, TypeOK
  <2> QED BY <1>5, <2>1 DEF RunFirstComment, TypeOK, tables
<1>6. CASE Tick
  BY <1>6 DEF Tick, TypeOK, tables, ghosts
<1>7. CASE UNCHANGED vars
  BY <1>7 DEF vars, TypeOK
<1> QED BY <1>1, <1>2, <1>3, <1>4, <1>5, <1>6, <1>7 DEF Next

\* Every table row, thread and counter of the engine keeps its type, for any
\* number of engines, rows and posts (apps/publisher/engine.py).
THEOREM TypeCorrect == Spec => []TypeOK
<1>1. Init => TypeOK
  BY InitTypeOK
<1>2. TypeOK /\ [Next]_vars => TypeOK'
  BY NextTypeOK
<1> QED BY <1>1, <1>2, PTL DEF Spec

-----------------------------------------------------------------------------
(* The first attempt of a row is exclusive                                 *)

\* A thread is in hand when it has been claimed, or is queued for a retry.
InHand == Working \union {"queued"}

\* The thread of f on p in the next state is no more than it was: if it is still
\* in hand, it holds the same instance and was as far along.
NoNewWork(f, p) ==
  thr'[f][p].pc \in InHand =>
    /\ thr'[f][p].retry = thr[f][p].retry
    /\ thr'[f][p].pc \in Working => thr[f][p].pc \in Working
    /\ thr'[f][p].pc = "queued" => thr[f][p].pc = "queued"

\* A step that neither takes work in hand nor writes the table.
LEMMA CalmStep ==
  ASSUME FirstAttemptInv, UNCHANGED row,
         \A f \in Engines, p \in PP : NoNewWork(f, p)
  PROVE  FirstAttemptInv'
  BY DEF FirstAttemptInv, QueuedHaveFailed, RetriesAreCounted, FirstAttemptHoldsRow,
         InFlight, NoNewWork, InHand, Working

\* One thread moves: the others hold what they held.
LEMMA StepOthers ==
  ASSUME TypeOK, NEW e \in Engines, NEW p \in PP, NEW t, Step(e, p, t)
  PROVE  /\ thr'[e][p] = t
         /\ \A f \in Engines, r \in PP : (f # e \/ r # p) => thr'[f][r] = thr[f][r]
  BY DEF TypeOK, Step

\* One thread moves on without writing the table and takes up nothing new.
LEMMA CalmThreadStep ==
  ASSUME TypeOK, FirstAttemptInv, UNCHANGED row,
         NEW e \in Engines, NEW p \in PP, NEW t, Step(e, p, t),
         t.pc \in InHand => /\ t.retry = thr[e][p].retry
                           /\ t.pc \in Working /\ thr[e][p].pc \in Working
  PROVE  FirstAttemptInv'
<1>1. \A f \in Engines, r \in PP : NoNewWork(f, r)
  <2> SUFFICES ASSUME NEW f \in Engines, NEW r \in PP PROVE NoNewWork(f, r)
    OBVIOUS
  <2>1. CASE f = e /\ r = p
    BY <2>1, StepOthers DEF NoNewWork, Working, InHand
  <2>2. CASE f # e \/ r # p
    BY <2>2, StepOthers DEF NoNewWork
  <2> QED BY <2>1, <2>2
<1> QED BY <1>1, CalmStep

\* The threads of a group move to statements that hold no work in hand.
LEMMA CalmGroupStep ==
  ASSUME TypeOK, FirstAttemptInv, UNCHANGED row,
         NEW e \in Engines, NEW G \in SUBSET PP, NEW t, StepAll(e, G, t),
         \A p \in G : t[p].pc \notin InHand
  PROVE  FirstAttemptInv'
<1>1. \A f \in Engines, r \in PP : NoNewWork(f, r)
  BY DEF NoNewWork, StepAll, TypeOK, InHand
<1> QED BY <1>1, CalmStep

\* save() of a working thread with the count it loaded, when the attempt is over
\* or the row is now published.
LEMMA SaveStep ==
  ASSUME TypeOK, FirstAttemptInv, NEW e \in Engines, NEW p \in PP, NEW t, NEW u,
         NEW s, InFlight(e, p), FullSave(p, u, s), Step(e, p, t),
         u.retry \in Nat, u.retry >= thr[e][p].retry,
         \/ t.pc \notin InHand
         \/ /\ t.pc \in Working /\ s = "published"
            /\ t.retry = thr[e][p].retry /\ u.retry = thr[e][p].retry
  PROVE  FirstAttemptInv'
<1>1. /\ row'[p].retry = u.retry /\ row'[p].status = s
      /\ \A r \in PP : r # p => row'[r] = row[r]
  BY DEF FullSave, TypeOK
<1>2. thr[e][p].retry \in Nat
  BY ThreadType DEF Thread
<1>3. \A f \in Engines, r \in PP : (f # e \/ r # p) => thr'[f][r] = thr[f][r]
  BY StepOthers
<1>4. thr'[e][p] = t
  BY StepOthers
<1>5. \A f \in Engines : f # e /\ InFlight(f, p) => thr[f][p].retry > 0
  <2> SUFFICES ASSUME NEW f \in Engines, f # e, InFlight(f, p)
               PROVE  thr[f][p].retry > 0
    OBVIOUS
  <2>1. thr[f][p].retry \in Nat
    BY ThreadType DEF Thread
  <2>2. thr[f][p].retry # 0
    BY DEF FirstAttemptInv, FirstAttemptHoldsRow
  <2> QED BY <2>1, <2>2
<1>6. ASSUME NEW f \in Engines, f # e, thr[f][p].pc \in InHand PROVE u.retry > 0
  <2>1. thr[f][p].retry > 0
    BY <1>5, <1>6 DEF FirstAttemptInv, QueuedHaveFailed, InHand, InFlight
  <2>2. row[p].retry > 0
    BY <1>6, <2>1 DEF FirstAttemptInv, RetriesAreCounted, InHand, InFlight
  <2>3. thr[e][p].retry # 0
    BY <2>2 DEF FirstAttemptInv, FirstAttemptHoldsRow
  <2> QED BY <1>2, <2>3
<1>7. QueuedHaveFailed'
  BY <1>3, <1>4 DEF FirstAttemptInv, QueuedHaveFailed, InHand, Working
<1>8. RetriesAreCounted'
  <2> SUFFICES ASSUME NEW f \in Engines, NEW r \in PP,
                      thr'[f][r].pc \in InHand, thr'[f][r].retry > 0
               PROVE  row'[r].retry > 0
    BY DEF RetriesAreCounted, InHand, InFlight
  <2>1. CASE r # p
    BY <1>1, <1>3, <2>1 DEF FirstAttemptInv, RetriesAreCounted, InHand, InFlight
  <2>2. CASE r = p /\ f = e
    BY <1>1, <1>4, <2>2
  <2>3. CASE r = p /\ f # e
    BY <1>1, <1>3, <1>6, <2>3
  <2> QED BY <2>1, <2>2, <2>3
<1>9. FirstAttemptHoldsRow'
  <2> SUFFICES ASSUME NEW f \in Engines, NEW r \in PP,
                      InFlight(f, r)', thr'[f][r].retry = 0
               PROVE  /\ row'[r].retry = 0 /\ row'[r].status \in {"publishing", "published"}
                      /\ \A g \in Engines \ {f} : ~InFlight(g, r)'
    BY DEF FirstAttemptHoldsRow
  <2>1. CASE r # p
    BY <1>1, <1>3, <2>1 DEF FirstAttemptInv, FirstAttemptHoldsRow, InFlight
  <2>2. CASE r = p /\ f = e
    <3>1. u.retry = 0 /\ s = "published"
      BY <1>4, <2>2 DEF InFlight, InHand
    <3>2. \A g \in Engines \ {e} : thr[g][p].pc \notin InHand
      BY <1>6, <3>1
    <3> QED BY <1>1, <1>3, <2>2, <3>1, <3>2 DEF InFlight, InHand
  <2>3. CASE r = p /\ f # e
    BY <1>3, <1>5, <2>3 DEF InFlight
  <2> QED BY <2>1, <2>2, <2>3
<1> QED BY <1>7, <1>8, <1>9 DEF FirstAttemptInv

\* The retry query only returns rows that count a failure.
LEMMA ListRetriesStep ==
  ASSUME TypeOK, FirstAttemptInv, NEW e \in Engines, ListRetries(e)
  PROVE  FirstAttemptInv'
<1> DEFINE R == {p \in PP : RetryDue(p)}
           t == [p \in R |-> Load(p, "queued")]
<1>1. StepAll(e, R, t) /\ UNCHANGED row /\ \A p \in PP : thr[e][p].pc = "idle"
  BY DEF ListRetries, tables
<1>2. \A p \in R : /\ thr'[e][p].pc = "queued" /\ thr'[e][p].retry = row[p].retry
                   /\ row[p].retry > 0
  BY <1>1 DEF StepAll, TypeOK, Load, RetryDue
<1>3. \A f \in Engines, p \in PP : (f # e \/ p \notin R) => thr'[f][p] = thr[f][p]
  BY <1>1 DEF StepAll, TypeOK
<1> HIDE DEF R
<1>4. QueuedHaveFailed'
  BY <1>2, <1>3 DEF FirstAttemptInv, QueuedHaveFailed
<1>5. RetriesAreCounted'
  BY <1>1, <1>2, <1>3 DEF FirstAttemptInv, RetriesAreCounted, InFlight, Working
<1>6. FirstAttemptHoldsRow'
  <2>1. \A f \in Engines, p \in PP : InFlight(f, p)' => InFlight(f, p) /\ thr'[f][p] = thr[f][p]
    BY <1>2, <1>3 DEF InFlight, Working
  <2> QED BY <1>1, <2>1 DEF FirstAttemptInv, FirstAttemptHoldsRow
<1> QED BY <1>4, <1>5, <1>6 DEF FirstAttemptInv

\* The retry loop takes up a row that has failed, so nobody is at its first
\* attempt.
LEMMA StartRetryStep ==
  ASSUME TypeOK, FirstAttemptInv, NEW e \in Engines, NEW p \in PP, StartRetry(e, p)
  PROVE  FirstAttemptInv'
<1>1. /\ \A r \in PP : row'[r].retry = row[r].retry
      /\ \A r \in PP : r # p => row'[r] = row[r]
  BY DEF StartRetry, TypeOK, Row
<1>2. /\ thr'[e][p].pc = "call" /\ thr'[e][p].retry = thr[e][p].retry
      /\ thr[e][p].pc = "queued"
      /\ \A f \in Engines, r \in PP : (f # e \/ r # p) => thr'[f][r] = thr[f][r]
  BY DEF StartRetry, Goto, Step, TypeOK, Thread
<1>3. thr[e][p].retry > 0 /\ row[p].retry > 0
  BY <1>2 DEF FirstAttemptInv, QueuedHaveFailed, RetriesAreCounted
<1>4. QueuedHaveFailed'
  BY <1>2 DEF FirstAttemptInv, QueuedHaveFailed
<1>5. RetriesAreCounted'
  BY <1>1, <1>2, <1>3 DEF FirstAttemptInv, RetriesAreCounted, InFlight
<1>6. FirstAttemptHoldsRow'
  <2> SUFFICES ASSUME NEW f \in Engines, NEW r \in PP,
                      InFlight(f, r)', thr'[f][r].retry = 0
               PROVE  /\ row'[r].retry = 0 /\ row'[r].status \in {"publishing", "published"}
                      /\ \A g \in Engines \ {f} : ~InFlight(g, r)'
    BY DEF FirstAttemptHoldsRow
  <2>1. ~(f = e /\ r = p)
    BY <1>2, <1>3
  <2>2. thr'[f][r] = thr[f][r] /\ InFlight(f, r)
    BY <1>2, <2>1 DEF InFlight
  <2>3. row[r].retry = 0
    BY <2>2 DEF FirstAttemptInv, FirstAttemptHoldsRow
  <2>4. r # p
    BY <1>3, <2>3
  <2> QED BY <1>1, <1>2, <2>2, <2>4 DEF FirstAttemptInv, FirstAttemptHoldsRow, InFlight
<1> QED BY <1>4, <1>5, <1>6 DEF FirstAttemptInv

\* A claimed row was scheduled under its lock, so nobody is at its first attempt;
\* and if it has never failed, nobody is at a retry of it either.
LEMMA ClaimStep ==
  ASSUME TypeOK, FirstAttemptInv, NEW e \in Engines, NEW q \in Posts, ClaimGroup(e, q)
  PROVE  FirstAttemptInv'
<1> DEFINE L == {p \in PlatformPosts(q) : thr[e][p].pc = "listed"}
           C == {p \in L : row[p].status = "scheduled"}
<1>1. L \subseteq PP /\ C \subseteq L
  BY DEF PlatformPosts
<1>2. /\ \A p \in PP : row'[p].retry = row[p].retry
      /\ \A p \in C : row'[p].status = "publishing"
      /\ \A p \in PP \ C : row'[p] = row[p]
  <2>1. row' = [p \in PP |-> IF p \in C THEN [row[p] EXCEPT !.status = "publishing"]
                            ELSE row[p]]
    BY DEF ClaimGroup
  <2>2. \A p \in PP : row[p] \in Row
    BY DEF TypeOK
  <2>3. \A r \in Row : /\ [r EXCEPT !.status = "publishing"].retry = r.retry
                      /\ [r EXCEPT !.status = "publishing"].status = "publishing"
    BY DEF Row
  <2> HIDE DEF C
  <2> QED BY <1>1, <2>1, <2>2, <2>3
<1>3. /\ \A p \in C : thr'[e][p].pc = "call" /\ thr'[e][p].retry = row[p].retry
      /\ \A p \in L \ C : thr'[e][p].pc = "idle"
  BY <1>1 DEF ClaimGroup, StepAll, TypeOK, Load, Idle
<1>4. \A f \in Engines, p \in PP : (f # e \/ p \notin L) => thr'[f][p] = thr[f][p]
  BY DEF ClaimGroup, StepAll, TypeOK
<1>5. \A p \in C : row[p].status = "scheduled"
  OBVIOUS
<1> HIDE DEF L, C
<1>6. ASSUME NEW f \in Engines, NEW p \in C, f # e, thr[f][p].pc \in Working
      PROVE  row[p].retry > 0
  <2>1. thr[f][p].retry # 0
    BY <1>1, <1>5, <1>6 DEF FirstAttemptInv, FirstAttemptHoldsRow, InFlight
  <2>2. thr[f][p].retry \in Nat
    BY <1>1, ThreadType DEF Thread
  <2> QED BY <1>1, <1>6, <2>1, <2>2 DEF FirstAttemptInv, RetriesAreCounted, InFlight
<1>7. QueuedHaveFailed'
  <2> SUFFICES ASSUME NEW f \in Engines, NEW p \in PP, thr'[f][p].pc = "queued"
               PROVE  thr'[f][p].retry > 0
    BY DEF QueuedHaveFailed
  <2>1. f # e \/ p \notin L
    BY <1>1, <1>3
  <2> QED BY <1>4, <2>1 DEF FirstAttemptInv, QueuedHaveFailed
<1>8. RetriesAreCounted'
  <2> SUFFICES ASSUME NEW f \in Engines, NEW p \in PP,
                      thr'[f][p].pc \in InHand, thr'[f][p].retry > 0
               PROVE  row'[p].retry > 0
    BY DEF RetriesAreCounted, InHand, InFlight
  <2>1. CASE f = e /\ p \in L
    BY <1>1, <1>2, <1>3, <2>1 DEF InHand, Working
  <2>2. CASE f # e \/ p \notin L
    BY <1>2, <1>4, <2>2 DEF FirstAttemptInv, RetriesAreCounted, InHand, InFlight
  <2> QED BY <2>1, <2>2
<1>9. FirstAttemptHoldsRow'
  <2> SUFFICES ASSUME NEW f \in Engines, NEW p \in PP,
                      InFlight(f, p)', thr'[f][p].retry = 0
               PROVE  /\ row'[p].retry = 0 /\ row'[p].status \in {"publishing", "published"}
                      /\ \A g \in Engines \ {f} : ~InFlight(g, p)'
    BY DEF FirstAttemptHoldsRow
  <2>1. CASE f = e /\ p \in L
    <3>1. p \in C /\ row[p].retry = 0
      BY <1>3, <2>1 DEF InFlight, Working
    <3>2. \A g \in Engines \ {e} : thr[g][p].pc \notin Working
      BY <1>6, <3>1
    <3> QED BY <1>2, <1>4, <2>1, <3>1, <3>2 DEF InFlight
  <2>2. CASE f # e \/ p \notin L
    <3>1. InFlight(f, p) /\ thr[f][p].retry = 0
      BY <1>4, <2>2 DEF InFlight
    <3>2. /\ row[p].retry = 0 /\ row[p].status \in {"publishing", "published"}
          /\ \A g \in Engines \ {f} : ~InFlight(g, p)
      BY <3>1 DEF FirstAttemptInv, FirstAttemptHoldsRow
    <3>3. p \notin C
      BY <1>5, <3>2
    <3>4. \A g \in Engines \ {f} : ~InFlight(g, p)'
      BY <1>3, <1>4, <3>2, <3>3 DEF InFlight, Working
    <3> QED BY <1>2, <3>2, <3>3, <3>4
  <2> QED BY <2>1, <2>2
<1> QED BY <1>7, <1>8, <1>9 DEF FirstAttemptInv

\* Every statement of a thread or retry turn preserves it.
LEMMA ThreadFirstAttempt ==
  ASSUME TypeOK, FirstAttemptInv, NEW e \in Engines, NEW p \in PP, ThreadStep(e, p)
  PROVE  FirstAttemptInv'
<1>t. thr[e][p] \in Thread
  BY ThreadType
<1>f. \A pc, again : /\ [thr[e][p] EXCEPT !.pc = pc].pc = pc
                     /\ [thr[e][p] EXCEPT !.pc = pc].retry = thr[e][p].retry
                     /\ [thr[e][p] EXCEPT !.pc = pc, !.retryable = again].pc = pc
                     /\ [thr[e][p] EXCEPT !.pc = pc, !.retryable = again].retry
                          = thr[e][p].retry
  BY <1>t DEF Thread
<1>c. ASSUME UNCHANGED row, thr[e][p].pc \in Working, NEW pc \in Working \union Ended,
             Step(e, p, [thr[e][p] EXCEPT !.pc = pc])
      PROVE  FirstAttemptInv'
  <2> DEFINE t == [thr[e][p] EXCEPT !.pc = pc]
  <2>1. t.pc \in InHand => /\ t.retry = thr[e][p].retry /\ t.pc \in Working
                           /\ thr[e][p].pc \in Working
    BY <1>c, <1>f DEF InHand, Working, Ended
  <2>2. Step(e, p, t) /\ UNCHANGED row
    BY <1>c
  <2> HIDE DEF t
  <2> QED BY <2>1, <2>2, CalmThreadStep
<1>r. ASSUME UNCHANGED row, thr[e][p].pc \in Working, NEW again,
             Step(e, p, [thr[e][p] EXCEPT !.pc = "logErr", !.retryable = again])
      PROVE  FirstAttemptInv'
  <2> DEFINE t == [thr[e][p] EXCEPT !.pc = "logErr", !.retryable = again]
  <2>1. t.pc \in InHand => /\ t.retry = thr[e][p].retry /\ t.pc \in Working
                           /\ thr[e][p].pc \in Working
    BY <1>r, <1>f DEF InHand, Working, Ended
  <2>2. Step(e, p, t) /\ UNCHANGED row
    BY <1>r
  <2> HIDE DEF t
  <2> QED BY <2>1, <2>2, CalmThreadStep
<1> USE DEF Working, Ended
<1>1. CASE DispatchOk(e, p)
  BY <1>1, <1>c DEF DispatchOk, Goto, tables
<1>2. CASE DispatchError(e, p)
  <2>1. PICK again \in BOOLEAN :
          Step(e, p, [thr[e][p] EXCEPT !.pc = "logErr", !.retryable = again])
    BY <1>2 DEF DispatchError
  <2>2. UNCHANGED row /\ thr[e][p].pc \in Working
    BY <1>2 DEF DispatchError, tables
  <2> HIDE DEF Working
  <2> QED BY ONLY <2>1, <2>2, <1>r
<1>3. CASE DispatchLost(e, p)
  <2>1. Step(e, p, [thr[e][p] EXCEPT !.pc = "logErr", !.retryable = TRUE])
    BY <1>3 DEF DispatchLost
  <2>2. UNCHANGED row /\ thr[e][p].pc \in Working
    BY <1>3 DEF DispatchLost, tables
  <2> HIDE DEF Working
  <2> QED BY ONLY <2>1, <2>2, <1>r
<1>4. CASE SavePublished(e, p)
  <2> DEFINE t == [thr[e][p] EXCEPT !.pubAt = now]
  <2>1. /\ t.retry = thr[e][p].retry /\ t.retry \in Nat
        /\ [t EXCEPT !.pc = "logOk"].pc = "logOk"
        /\ [t EXCEPT !.pc = "logOk"].retry = thr[e][p].retry
        /\ [t EXCEPT !.pc = "logErr", !.retryable = TRUE].pc = "logErr"
        /\ [t EXCEPT !.pc = "logErr", !.retryable = TRUE].retry = thr[e][p].retry
    BY <1>t DEF Thread
  <2>2. InFlight(e, p)
    BY <1>4 DEF SavePublished, InFlight
  <2> DEFINE u == [t EXCEPT !.pc = "logOk"]
             w == [t EXCEPT !.pc = "logErr", !.retryable = TRUE]
  <2>5. /\ u.pc = "logOk" /\ u.retry = thr[e][p].retry
        /\ w.pc = "logErr" /\ w.retry = thr[e][p].retry
        /\ t.retry >= thr[e][p].retry
    BY <2>1
  <2>6. \/ FullSave(p, t, "published") /\ Step(e, p, u)
        \/ UNCHANGED row /\ Step(e, p, w)
    BY <1>4 DEF SavePublished
  <2> HIDE DEF t, u, w
  <2>3. CASE FullSave(p, t, "published") /\ Step(e, p, u)
    BY <2>1, <2>2, <2>3, <2>5, SaveStep
  <2>4. CASE UNCHANGED row /\ Step(e, p, w)
    BY <2>2, <2>4, <2>5, CalmThreadStep DEF InFlight
  <2> QED BY <2>3, <2>4, <2>6
<1>5. CASE LogSuccess(e, p)
  <2>1. UNCHANGED row /\ thr[e][p].pc \in Working
    BY <1>5 DEF LogSuccess, tables
  <2>2. CASE Goto(e, p, "success")
    BY <2>1, <2>2, <1>c DEF Goto
  <2>3. CASE Step(e, p, [thr[e][p] EXCEPT !.pc = "logErr", !.retryable = TRUE])
    <3> HIDE DEF Working
    <3> QED BY ONLY <2>1, <2>3, <1>r
  <2> QED BY <1>5, <2>2, <2>3 DEF LogSuccess
<1>6. CASE LogFailure(e, p)
  BY <1>6, <1>c DEF LogFailure, Goto, tables
<1>7. CASE SaveOutcome(e, p)
  <2> DEFINE t == [thr[e][p] EXCEPT !.pc = "failure"]
  <2>1. t.pc \notin InHand /\ thr[e][p].retry \in Nat
    BY <1>t, <1>f DEF InHand, Thread
  <2>2. InFlight(e, p) /\ Step(e, p, t)
    BY <1>7 DEF SaveOutcome, InFlight, Goto
  <2>3. /\ Rescheduled(thr[e][p]).retry = thr[e][p].retry + 1
    BY <1>t DEF Rescheduled, Thread
  <2> HIDE DEF t
  <2>4. CASE FullSave(p, Rescheduled(thr[e][p]), "scheduled")
    <3> DEFINE u == Rescheduled(thr[e][p])
    <3>1. u.retry \in Nat /\ u.retry >= thr[e][p].retry
      BY <2>1, <2>3
    <3>2. FullSave(p, u, "scheduled")
      BY <2>4
    <3> HIDE DEF u
    <3> QED BY <2>1, <2>2, <3>1, <3>2, SaveStep
  <2>5. CASE FullSave(p, thr[e][p], "failed")
    BY <2>1, <2>2, <2>5, SaveStep
  <2>6. CASE UNCHANGED row
    BY <2>1, <2>2, <2>6, CalmThreadStep
  <2> QED BY <1>7, <2>4, <2>5, <2>6 DEF SaveOutcome
<1>8. CASE StartRetry(e, p)
  BY <1>8, StartRetryStep
<1>9. CASE EndFailedRetry(e, p)
  BY <1>9, CalmThreadStep DEF EndFailedRetry, Idle, InHand, tables
<1>10. CASE ScheduleFirstComment(e, p)
  BY <1>10, CalmThreadStep DEF ScheduleFirstComment, Idle, InHand, tables
<1> QED BY <1>1, <1>2, <1>3, <1>4, <1>5, <1>6, <1>7, <1>8, <1>9, <1>10 DEF ThreadStep

\* Every statement between the threads of a group preserves it.
LEMMA GroupFirstAttempt ==
  ASSUME TypeOK, FirstAttemptInv, NEW e \in Engines, NEW q \in Posts, GroupStep(e, q)
  PROVE  FirstAttemptInv'
<1> DEFINE G == Group(e, q)
<1>1. G \in SUBSET PP /\ \A p \in G : thr[e][p] \in Thread
  BY ThreadType DEF Group, PlatformPosts
<1>2. CASE ClaimGroup(e, q)
  BY <1>2, ClaimStep
<1>3. CASE ReadLatest(e, q)
  <2> DEFINE t == [p \in G |-> [thr[e][p] EXCEPT !.pc = "sync", !.latest = LatestPubAt(q)]]
  <2>1. \A p \in G : t[p].pc \notin InHand
    <3> HIDE DEF G
    <3> QED BY <1>1 DEF Thread, InHand, Working
  <2>2. StepAll(e, G, t) /\ UNCHANGED row
    BY <1>3, ZenonT(30) DEF ReadLatest, tables
  <2> HIDE DEF t, G
  <2> QED BY <1>1, <2>1, <2>2, CalmGroupStep
<1>4. CASE SyncParentPublishedAt(e, q)
  <2> DEFINE t == [p \in G |-> IF mode[e] = "polling"
                              THEN [thr[e][p] EXCEPT !.pc = "refresh"] ELSE Idle]
  <2>1. \A p \in G : t[p].pc \notin InHand
    <3> HIDE DEF G
    <3> QED BY <1>1 DEF Thread, InHand, Working, Idle
  <2>2. StepAll(e, G, t) /\ UNCHANGED row
    BY <1>4 DEF SyncParentPublishedAt
  <2> HIDE DEF t, G
  <2> QED BY <1>1, <2>1, <2>2, CalmGroupStep
<1> QED BY <1>2, <1>3, <1>4 DEF GroupStep

\* Every step of the system preserves it.
LEMMA NextFirstAttempt ==
  TypeOK /\ FirstAttemptInv /\ [Next]_vars => FirstAttemptInv'
<1> SUFFICES ASSUME TypeOK, FirstAttemptInv, [Next]_vars PROVE FirstAttemptInv'
  OBVIOUS
<1>1. ASSUME NEW e \in Engines, Poll(e) PROVE FirstAttemptInv'
  <2>1. PICK B \in SUBSET PP :
          StepAll(e, B, [p \in B |-> [Idle EXCEPT !.pc = "listed",
                                        !.postPubAt = postPubAt[ParentOf[p]]]])
    BY <1>1 DEF Poll
  <2> DEFINE t == [p \in B |-> [Idle EXCEPT !.pc = "listed",
                                           !.postPubAt = postPubAt[ParentOf[p]]]]
  <2>2. \A p \in B : t[p].pc \notin InHand
    BY DEF Idle, InHand, Working
  <2>3. StepAll(e, B, t) /\ UNCHANGED row
    <3>1. UNCHANGED tables
      BY <1>1 DEF Poll
    <3> QED BY <2>1, <3>1 DEF tables
  <2> HIDE DEF t
  <2> QED BY <2>2, <2>3, CalmGroupStep
<1>2. ASSUME NEW e \in Engines, ListRetries(e) PROVE FirstAttemptInv'
  BY <1>2, ListRetriesStep
<1>3. ASSUME NEW e \in Engines, NEW p \in PP, ThreadStep(e, p) PROVE FirstAttemptInv'
  BY <1>3, ThreadFirstAttempt
<1>4. ASSUME NEW e \in Engines, NEW q \in Posts, GroupStep(e, q) PROVE FirstAttemptInv'
  BY <1>4, GroupFirstAttempt
<1>5. ASSUME NEW e \in Engines, Crash(e) PROVE FirstAttemptInv'
  <2>1. /\ UNCHANGED row
        /\ \A f \in Engines, p \in PP : thr'[f][p] = thr[f][p] \/ thr'[f][p] = Idle
    BY <1>5 DEF Crash, TypeOK, tables
  <2>2. \A f \in Engines, p \in PP : NoNewWork(f, p)
    BY <2>1 DEF NoNewWork, Idle, InHand, Working
  <2> QED BY <2>1, <2>2, CalmStep
<1>6. CASE UNCHANGED <<row, thr>>
  BY <1>6, CalmStep DEF NoNewWork
<1>7. ASSUME NEW e \in Engines, EndCycle(e) PROVE UNCHANGED <<row, thr>>
  BY <1>7 DEF EndCycle, tables
<1>8. ASSUME NEW p \in PP, RunFirstComment(p) PROVE UNCHANGED <<row, thr>>
  BY <1>8 DEF RunFirstComment, tables
<1>9. Tick \/ UNCHANGED vars => UNCHANGED <<row, thr>>
  BY DEF Tick, vars, tables
<1> QED BY <1>1, <1>2, <1>3, <1>4, <1>5, <1>6, <1>7, <1>8, <1>9 DEF Next, CycleStep

\* The first attempt of a row is made by one engine alone, however many engines
\* poll the table and whatever crashes and fails (select_for_update and the
\* status check of _publish_post_group).  A retry is not: _process_retries takes a
\* row without a lock.
THEOREM FirstAttempt == Spec => []FirstAttemptExclusive
<1>1. Init => FirstAttemptInv
  BY DEF Init, Idle, FirstAttemptInv, QueuedHaveFailed, RetriesAreCounted,
         FirstAttemptHoldsRow, InFlight, Working
<1>2. TypeOK /\ FirstAttemptInv /\ [Next]_vars => FirstAttemptInv'
  BY NextFirstAttempt
<1>3. FirstAttemptInv => FirstAttemptExclusive
  BY DEF FirstAttemptInv, FirstAttemptHoldsRow, FirstAttemptExclusive
<1> QED BY <1>1, <1>2, <1>3, TypeCorrect, PTL DEF Spec

-----------------------------------------------------------------------------
(* What a step leaves alone                                                *)

\* Failures are counted and never taken back.
SpentGrows ==
  spent'.lost >= spent.lost /\ spent'.db >= spent.db /\ spent'.crash >= spent.crash

\* Nothing that is kept of row r changes in this step.
Untouched(e, r) ==
  /\ row'[r] = row[r] /\ thr'[e][r] = thr[e][r] /\ logs'[r] = logs[r]
  /\ live'[r] = live[r] /\ attempts'[r] = attempts[r]
  /\ tasks'[r] + commentRuns'[r] = tasks[r] + commentRuns[r]

\* The counts of a well-typed state are numbers.
LEMMA BookTypes ==
  ASSUME TypeOK, NEW e \in Engines, NEW p \in PP
  PROVE  /\ row[p] \in Row /\ thr[e][p] \in Thread
         /\ live[p] \in Nat /\ attempts[p] \in Nat /\ Len(logs[p]) \in Nat
         /\ tasks[p] \in Nat /\ commentRuns[p] \in Nat
         /\ spent.lost \in Nat /\ spent.db \in Nat /\ spent.crash \in Nat
<1>1. spent \in Faults /\ logs[p] \in Seq(Nat)
  BY DEF TypeOK
<1> QED BY <1>1 DEF TypeOK, Faults

\* Where the threads are after the threads of a group have stepped together.
LEMMA StepAllAt ==
  ASSUME TypeOK, NEW e \in Engines, NEW G \in SUBSET PP, NEW t, StepAll(e, G, t)
  PROVE  \A r \in PP : thr'[e][r] = IF r \in G THEN t[r] ELSE thr[e][r]
  BY DEF TypeOK, StepAll

\* A step that counts no failure.
LEMMA NothingSpent ==
  ASSUME TypeOK, UNCHANGED spent
  PROVE  SpentGrows
<1>1. spent.lost \in Nat /\ spent.db \in Nat /\ spent.crash \in Nat
  BY DEF TypeOK, Faults
<1> QED BY <1>1 DEF SpentGrows

\* The tables that a thread of row p writes, it writes at p.
LEMMA WritesAt ==
  ASSUME TypeOK, NEW e \in Engines, NEW p \in PP, NEW t, Step(e, p, t),
         row' = row \/ (\E u : row' = [row EXCEPT ![p] = u]),
         logs' = logs \/ (\E u : logs' = [logs EXCEPT ![p] = u]),
         live' = live \/ (\E u : live' = [live EXCEPT ![p] = u]),
         attempts' = attempts \/ (\E u : attempts' = [attempts EXCEPT ![p] = u]),
         tasks' = tasks \/ (\E u : tasks' = [tasks EXCEPT ![p] = u]),
         UNCHANGED commentRuns
  PROVE  \A r \in PP : r # p => Untouched(e, r)
<1> SUFFICES ASSUME NEW r \in PP, r # p PROVE Untouched(e, r)
  OBVIOUS
<1>1. thr'[e][r] = thr[e][r]
  BY StepOthers
<1>2. row'[r] = row[r] /\ logs'[r] = logs[r]
  BY DEF TypeOK
<1>3. live'[r] = live[r] /\ attempts'[r] = attempts[r] /\ tasks'[r] = tasks[r]
  BY DEF TypeOK
<1> QED BY <1>1, <1>2, <1>3 DEF Untouched

\* A statement of the thread of row p counts failures and writes at p alone.
LEMMA ThreadFrame ==
  ASSUME TypeOK, NEW e \in Engines, NEW p \in PP, ThreadStep(e, p)
  PROVE  SpentGrows /\ \A r \in PP : r # p => Untouched(e, r)
<1>n. spent \in Faults /\ spent.lost \in Nat /\ spent.db \in Nat /\ spent.crash \in Nat
  BY DEF TypeOK, Faults
<1>u. UNCHANGED spent => SpentGrows
  BY <1>n DEF SpentGrows
<1>f. Fault => SpentGrows
  BY <1>n DEF SpentGrows, Fault, Faults
<1>1. CASE DispatchOk(e, p)
  BY <1>1, <1>u, WritesAt DEF DispatchOk, Goto, tables
<1>2. CASE DispatchError(e, p)
  BY <1>2, <1>u, WritesAt DEF DispatchError, tables
<1>3. CASE DispatchLost(e, p)
  <2>1. SpentGrows
    BY <1>3, <1>n DEF DispatchLost, SpentGrows, Faults
  <2> QED BY <1>3, <2>1, WritesAt DEF DispatchLost, tables
<1>4. CASE SavePublished(e, p)
  BY <1>4, <1>u, <1>f, WritesAt DEF SavePublished, FullSave, ghosts
<1>5. CASE LogSuccess(e, p)
  BY <1>5, <1>u, <1>f, WritesAt DEF LogSuccess, Goto, tables, ghosts
<1>6. CASE LogFailure(e, p)
  BY <1>6, <1>u, <1>f, WritesAt DEF LogFailure, Goto, tables, ghosts
<1>7. CASE SaveOutcome(e, p)
  BY <1>7, <1>u, <1>f, WritesAt DEF SaveOutcome, FullSave, Goto, ghosts
<1>8. CASE StartRetry(e, p)
  BY <1>8, <1>u, WritesAt DEF StartRetry, Goto, ghosts
<1>9. CASE EndFailedRetry(e, p)
  BY <1>9, <1>u, WritesAt DEF EndFailedRetry, tables, ghosts
<1>10. CASE ScheduleFirstComment(e, p)
  BY <1>10, <1>u, WritesAt DEF ScheduleFirstComment, tables, ghosts
<1> QED BY <1>1, <1>2, <1>3, <1>4, <1>5, <1>6, <1>7, <1>8, <1>9, <1>10 DEF ThreadStep

\* A thread that moves to its next statement holds the instance it held.
LEMMA GotoHolds ==
  ASSUME TypeOK, NEW e \in Engines, NEW p \in PP, NEW pc, Goto(e, p, pc)
  PROVE  /\ thr'[e][p].pc = pc /\ thr'[e][p].retry = thr[e][p].retry
         /\ thr'[e][p].pubAt = thr[e][p].pubAt
         /\ thr'[e][p].postPubAt = thr[e][p].postPubAt
<1> DEFINE t == [thr[e][p] EXCEPT !.pc = pc]
<1>1. /\ t.pc = pc /\ t.retry = thr[e][p].retry /\ t.pubAt = thr[e][p].pubAt
      /\ t.postPubAt = thr[e][p].postPubAt
  BY ThreadType DEF Thread
<1>2. Step(e, p, t)
  BY DEF Goto
<1> HIDE DEF t
<1>3. thr'[e][p] = t
  BY <1>2, StepOthers
<1> QED BY <1>1, <1>3

\* So does one that goes to the except branch.
CallRaises(e, p) ==
  \E again \in BOOLEAN :
    Step(e, p, [thr[e][p] EXCEPT !.pc = "logErr", !.retryable = again])

\* An exception takes the thread to the log of the failure; its row and times stay.
LEMMA RaiseHolds ==
  ASSUME TypeOK, NEW e \in Engines, NEW p \in PP, CallRaises(e, p)
  PROVE  /\ thr'[e][p].pc = "logErr" /\ thr'[e][p].retry = thr[e][p].retry
         /\ thr'[e][p].pubAt = thr[e][p].pubAt
         /\ thr'[e][p].postPubAt = thr[e][p].postPubAt
<1>1. PICK again \in BOOLEAN :
        Step(e, p, [thr[e][p] EXCEPT !.pc = "logErr", !.retryable = again])
  BY DEF CallRaises
<1> DEFINE t == [thr[e][p] EXCEPT !.pc = "logErr", !.retryable = again]
<1>2. /\ t.pc = "logErr" /\ t.retry = thr[e][p].retry /\ t.pubAt = thr[e][p].pubAt
      /\ t.postPubAt = thr[e][p].postPubAt
  BY ThreadType DEF Thread
<1>3. Step(e, p, t)
  BY <1>1
<1> HIDE DEF t
<1>4. thr'[e][p] = t
  BY <1>3, StepOthers
<1> QED BY <1>2, <1>4

\* A statement that raises is counted once.
LEMMA FaultCounts ==
  ASSUME TypeOK, Fault
  PROVE  /\ spent'.lost = spent.lost /\ spent'.db = spent.db + 1
         /\ spent'.crash = spent.crash
  BY DEF TypeOK, Fault, Faults
=============================================================================
