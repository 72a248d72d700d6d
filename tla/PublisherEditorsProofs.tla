----------------------- MODULE PublisherEditorsProofs -----------------------
(***************************************************************************)
(* What editors can make one engine do, for every number of rows, posts    *)
(* and editors, whatever crashes, fails or is lost, and however many edits *)
(* there are.                                                              *)
(*                                                                         *)
(* Both results speak of a row at a time.  A step of the engine is, for a  *)
(* row, one of the few in EngineRow; a step of an editor is EditorRow.     *)
(* BudgetInv and RespectInv follow from these summaries.                   *)
(***************************************************************************)
EXTENDS PublisherEditors, PublisherProofs

USE PublisherAssumption

-----------------------------------------------------------------------------
(* What a step of the engine does to a row                                 *)

\* The statements between which a row is in the hands of the engine.
InWork == {"queued", "call", "saveOk", "logOk", "logErr", "saveErr"}

\* The status and the count of row p, and what has been made of it, stay.
RowStays(p) ==
  /\ row'[p].status = row[p].status /\ row'[p].retry = row[p].retry
  /\ attempts'[p] = attempts[p] /\ live'[p] = live[p]

\* The thread of row p takes up nothing new.
ThreadRests(e, p) ==
  \/ /\ thr'[e][p].pc \notin InWork
     /\ thr'[e][p].retry = 0 \/ thr'[e][p].retry = thr[e][p].retry
  \/ thr'[e][p].pc = thr[e][p].pc /\ thr'[e][p].retry = thr[e][p].retry

\* A scheduled row is claimed, or listed for a retry.
IsTaken(e, p) ==
  /\ row[p].status = "scheduled" /\ thr'[e][p].retry = row[p].retry
  /\ row'[p].retry = row[p].retry /\ attempts'[p] = attempts[p] /\ live'[p] = live[p]
  /\ \/ thr'[e][p].pc = "call" /\ row'[p].status = "publishing"
     \/ thr'[e][p].pc = "queued" /\ row'[p].status = "scheduled" /\ row[p].retry > 0

\* A thread that holds row p goes on with the count it holds.
Holds(e, p, from, to) ==
  /\ thr[e][p].pc \in from /\ thr'[e][p].pc = to
  /\ thr'[e][p].retry = thr[e][p].retry

IsRetried(e, p) ==
  /\ Holds(e, p, {"queued"}, "call")
  /\ row'[p].status = "publishing" /\ row'[p].retry = row[p].retry
  /\ attempts'[p] = attempts[p] /\ live'[p] = live[p]

IsCalled(e, p) ==
  /\ row'[p].status = row[p].status /\ row'[p].retry = row[p].retry
  /\ attempts'[p] = attempts[p] + 1
  /\ \/ Holds(e, p, {"call"}, "saveOk") /\ live'[p] = live[p] + 1
     \/ Holds(e, p, {"call"}, "logErr") /\ live'[p] = live[p]
     \/ /\ Holds(e, p, {"call"}, "logErr") /\ live'[p] = live[p] + 1
        /\ spent'.lost = spent.lost + 1

IsPublished(e, p) ==
  /\ Holds(e, p, {"saveOk"}, "logOk")
  /\ row'[p].status = "published" /\ row'[p].retry = thr[e][p].retry
  /\ attempts'[p] = attempts[p] /\ live'[p] = live[p]

IsRaised(e, p) ==
  /\ RowStays(p)
  /\ \/ Holds(e, p, {"saveOk", "logOk"}, "logErr") /\ spent'.db = spent.db + 1
     \/ Holds(e, p, {"logErr"}, "saveErr")

IsSettled(e, p) ==
  /\ Holds(e, p, {"saveErr"}, "failure")
  /\ attempts'[p] = attempts[p] /\ live'[p] = live[p]
  /\ \/ /\ row'[p].status = "scheduled" /\ row'[p].retry = thr[e][p].retry + 1
        /\ thr[e][p].retry < MAX_RETRIES
     \/ row'[p].status = "failed" /\ row'[p].retry = thr[e][p].retry

EngineRow(e, p) ==
  /\ spent'.lost >= spent.lost /\ spent'.db >= spent.db
  /\ \/ RowStays(p) /\ ThreadRests(e, p)
     \/ IsTaken(e, p) \/ IsRetried(e, p) \/ IsCalled(e, p) \/ IsPublished(e, p)
     \/ IsRaised(e, p) \/ IsSettled(e, p)

\* A row that nothing happens to rests.
LEMMA UntouchedRests ==
  ASSUME NEW e \in Engines, NEW p \in PP, SpentGrows, Untouched(e, p)
  PROVE  EngineRow(e, p)
  BY DEF SpentGrows, Untouched, EngineRow, RowStays, ThreadRests

\* What save() of a thread's instance writes.
LEMMA FullSaveHolds ==
  ASSUME TypeOK, NEW p \in PP, NEW t, NEW s, FullSave(p, t, s)
  PROVE  row'[p].status = s /\ row'[p].retry = t.retry
  BY DEF FullSave, TypeOK

\* The three answers of a platform.
LEMMA DispatchRow ==
  ASSUME TypeOK, NEW e \in Engines, NEW p \in PP, SpentGrows,
         DispatchOk(e, p) \/ DispatchError(e, p) \/ DispatchLost(e, p)
  PROVE  EngineRow(e, p)
<1>1. /\ UNCHANGED row /\ thr[e][p].pc = "call" /\ attempts'[p] = attempts[p] + 1
  BY DEF DispatchOk, DispatchError, DispatchLost, tables, TypeOK
<1>2. CASE DispatchOk(e, p)
  <2>1. live'[p] = live[p] + 1 /\ Goto(e, p, "saveOk")
    BY <1>2 DEF DispatchOk, TypeOK
  <2> QED BY <1>1, <2>1, GotoHolds DEF EngineRow, IsCalled, Holds, SpentGrows
<1>3. CASE DispatchError(e, p)
  <2>1. live'[p] = live[p] /\ CallRaises(e, p)
    BY <1>3 DEF DispatchError, CallRaises
  <2> QED BY <1>1, <2>1, RaiseHolds DEF EngineRow, IsCalled, Holds, SpentGrows
<1>4. CASE DispatchLost(e, p)
  <2>1. live'[p] = live[p] + 1 /\ spent'.lost = spent.lost + 1
    BY <1>4 DEF DispatchLost, Faults, TypeOK
  <2>2. CallRaises(e, p)
    BY <1>4 DEF DispatchLost, CallRaises
  <2> QED BY <1>1, <2>1, <2>2, RaiseHolds DEF EngineRow, IsCalled, Holds, SpentGrows
<1> QED BY <1>2, <1>3, <1>4

\* The save of a success, and the logs.
LEMMA RecordRow ==
  ASSUME TypeOK, NEW e \in Engines, NEW p \in PP, SpentGrows,
         SavePublished(e, p) \/ LogSuccess(e, p) \/ LogFailure(e, p)
  PROVE  EngineRow(e, p)
<1> USE DEF EngineRow, SpentGrows
<1>1. ASSUME UNCHANGED <<row, live, attempts>>, Fault, CallRaises(e, p),
             thr[e][p].pc \in {"saveOk", "logOk"}
      PROVE  EngineRow(e, p)
  <2>1. spent'.db = spent.db + 1
    BY <1>1, FaultCounts
  <2> QED BY <1>1, <2>1, RaiseHolds DEF IsRaised, Holds, RowStays
<1>2. CASE SavePublished(e, p)
  <2> DEFINE t == [thr[e][p] EXCEPT !.pubAt = now]
  <2>1. thr[e][p].pc = "saveOk" /\ UNCHANGED <<live, attempts>>
    BY <1>2 DEF SavePublished, ghosts
  <2>2. thr[e][p] \in Thread
    BY ThreadType
  <2>3. CASE Fault
    <3>1. UNCHANGED row
      BY <1>2, <2>3, FaultCounts, BookTypes DEF SavePublished
    <3>2. Step(e, p, [t EXCEPT !.pc = "logErr", !.retryable = TRUE])
      BY <1>2, <2>3, FaultCounts, BookTypes DEF SavePublished
    <3> DEFINE u == [t EXCEPT !.pc = "logErr", !.retryable = TRUE]
    <3>3. u.pc = "logErr" /\ u.retry = thr[e][p].retry
      BY <2>2 DEF Thread
    <3> HIDE DEF u
    <3>4. thr'[e][p] = u
      BY <3>2, StepOthers DEF u
    <3>5. spent'.db = spent.db + 1
      BY <2>3, FaultCounts
    <3> QED BY <2>1, <3>1, <3>3, <3>4, <3>5 DEF IsRaised, Holds, RowStays
  <2>4. CASE ~Fault
    <3> DEFINE u == [t EXCEPT !.pc = "logOk"]
    <3>1. FullSave(p, t, "published") /\ Step(e, p, u)
      BY <1>2, <2>4 DEF SavePublished
    <3>2. t.retry = thr[e][p].retry /\ u.pc = "logOk" /\ u.retry = thr[e][p].retry
      BY <2>2 DEF Thread
    <3> HIDE DEF t, u
    <3>3. thr'[e][p] = u /\ row'[p].status = "published" /\ row'[p].retry = t.retry
      BY <3>1, StepOthers, FullSaveHolds
    <3> QED BY <2>1, <3>2, <3>3 DEF IsPublished, Holds
  <2> QED BY <2>3, <2>4
<1>3. CASE LogSuccess(e, p)
  <2>1. thr[e][p].pc = "logOk" /\ UNCHANGED <<row, live, attempts>>
    BY <1>3 DEF LogSuccess, tables, ghosts
  <2>2. \/ Goto(e, p, "success")
        \/ Fault /\ CallRaises(e, p)
    BY <1>3 DEF LogSuccess, CallRaises
  <2>3. CASE Goto(e, p, "success")
    BY <2>1, <2>3, GotoHolds DEF RowStays, ThreadRests, InWork
  <2> QED BY <1>1, <2>1, <2>2, <2>3
<1>4. CASE LogFailure(e, p)
  <2>1. thr[e][p].pc = "logErr" /\ UNCHANGED <<row, live, attempts>>
    BY <1>4 DEF LogFailure, tables, ghosts
  <2>2. Goto(e, p, "saveErr") \/ Goto(e, p, "failure")
    BY <1>4 DEF LogFailure
  <2>3. CASE Goto(e, p, "saveErr")
    BY <2>1, <2>3, GotoHolds DEF RowStays, IsRaised, Holds
  <2>4. CASE Goto(e, p, "failure")
    BY <2>1, <2>4, GotoHolds DEF RowStays, ThreadRests, InWork
  <2> QED BY <2>2, <2>3, <2>4
<1> QED BY <1>2, <1>3, <1>4

\* The save of a failure, and the statements around a retry.
LEMMA SettleRow ==
  ASSUME TypeOK, NEW e \in Engines, NEW p \in PP, SpentGrows,
         \/ SaveOutcome(e, p) \/ StartRetry(e, p)
         \/ EndFailedRetry(e, p) \/ ScheduleFirstComment(e, p)
  PROVE  EngineRow(e, p)
<1> USE DEF EngineRow, SpentGrows
<1>1. CASE SaveOutcome(e, p)
  <2> DEFINE t == thr[e][p]
  <2>1. t.pc = "saveErr" /\ UNCHANGED <<live, attempts>> /\ Goto(e, p, "failure")
    BY <1>1 DEF SaveOutcome, ghosts
  <2>2. thr'[e][p].pc = "failure" /\ thr'[e][p].retry = t.retry
    BY <2>1, GotoHolds
  <2>3. \/ UNCHANGED row
        \/ t.retry < MAX_RETRIES /\ FullSave(p, Rescheduled(t), "scheduled")
        \/ FullSave(p, t, "failed")
    BY <1>1 DEF SaveOutcome
  <2>4. Rescheduled(t).retry = t.retry + 1
    BY ThreadType DEF Thread, Rescheduled
  <2>5. CASE UNCHANGED row
    BY <2>1, <2>2, <2>5 DEF RowStays, ThreadRests, InWork
  <2>6. CASE t.retry < MAX_RETRIES /\ FullSave(p, Rescheduled(t), "scheduled")
    BY <2>1, <2>2, <2>4, <2>6, FullSaveHolds DEF IsSettled, Holds
  <2>7. CASE FullSave(p, t, "failed")
    BY <2>1, <2>2, <2>7, FullSaveHolds DEF IsSettled, Holds
  <2> QED BY <2>3, <2>5, <2>6, <2>7
<1>2. CASE StartRetry(e, p)
  <2>1. thr[e][p].pc = "queued" /\ UNCHANGED <<live, attempts>> /\ Goto(e, p, "call")
    BY <1>2 DEF StartRetry, ghosts
  <2>2. row'[p].status = "publishing" /\ row'[p].retry = row[p].retry
    BY <1>2 DEF StartRetry, TypeOK, Row
  <2> QED BY <2>1, <2>2, GotoHolds DEF IsRetried, Holds
<1>3. CASE EndFailedRetry(e, p) \/ ScheduleFirstComment(e, p)
  <2>1. UNCHANGED <<row, live, attempts>> /\ Step(e, p, Idle)
    BY <1>3 DEF EndFailedRetry, ScheduleFirstComment, tables, ghosts
  <2>2. thr'[e][p].pc = "idle" /\ thr'[e][p].retry = 0
    BY <2>1, StepOthers DEF Idle
  <2> QED BY <2>1, <2>2 DEF RowStays, ThreadRests, InWork
<1> QED BY <1>1, <1>2, <1>3

\* Threads that step together and take up nothing new, or list a row that is due.
LEMMA TogetherRow ==
  ASSUME TypeOK, NEW e \in Engines, NEW p \in PP, UNCHANGED <<row, attempts, live, spent>>,
         NEW G \in SUBSET PP, NEW t, StepAll(e, G, t),
         p \in G => \/ /\ t[p].pc \notin InWork
                       /\ t[p].retry = 0 \/ t[p].retry = thr[e][p].retry
                    \/ /\ t[p].pc = "queued" /\ t[p].retry = row[p].retry
                       /\ row[p].status = "scheduled" /\ row[p].retry > 0
  PROVE  EngineRow(e, p)
<1>1. thr'[e][p] = IF p \in G THEN t[p] ELSE thr[e][p]
  BY StepAllAt
<1>2. SpentGrows
  BY NothingSpent
<1> QED BY <1>1, <1>2 DEF EngineRow, SpentGrows, RowStays, ThreadRests, IsTaken

\* The statements of the cycle.
LEMMA CycleRow ==
  ASSUME TypeOK, NEW e \in Engines, NEW p \in PP, CycleStep(e)
  PROVE  EngineRow(e, p)
<1>1. CASE Poll(e)
  <2>1. PICK B \in SUBSET PP :
          StepAll(e, B, [r \in B |-> [Idle EXCEPT !.pc = "listed",
                                          !.postPubAt = postPubAt[ParentOf[r]]]])
    BY <1>1 DEF Poll
  <2> DEFINE t == [r \in B |-> [Idle EXCEPT !.pc = "listed",
                                           !.postPubAt = postPubAt[ParentOf[r]]]]
  <2>2. p \in B => t[p].pc = "listed" /\ t[p].retry = 0
    BY DEF Idle
  <2>3. StepAll(e, B, t) /\ UNCHANGED <<row, attempts, live, spent>>
    BY <1>1, <2>1 DEF Poll, tables, ghosts
  <2> HIDE DEF t
  <2> QED BY <2>2, <2>3, TogetherRow DEF InWork
<1>2. CASE ListRetries(e)
  <2> DEFINE R == {r \in PP : RetryDue(r)}
             t == [r \in R |-> Load(r, "queued")]
  <2>1. p \in R => /\ t[p].pc = "queued" /\ t[p].retry = row[p].retry
                   /\ row[p].status = "scheduled" /\ row[p].retry > 0
    BY DEF Load, RetryDue
  <2>2. StepAll(e, R, t) /\ UNCHANGED <<row, attempts, live, spent>>
    BY <1>2 DEF ListRetries, tables, ghosts
  <2>3. R \in SUBSET PP
    OBVIOUS
  <2> HIDE DEF R, t
  <2> QED BY <2>1, <2>2, <2>3, TogetherRow
<1>3. CASE EndCycle(e)
  <2>1. UNCHANGED <<row, thr, logs, live, attempts, tasks, commentRuns, spent>>
    BY <1>3 DEF EndCycle, tables, ghosts
  <2>2. SpentGrows /\ Untouched(e, p)
    BY <2>1, NothingSpent DEF Untouched
  <2> QED BY <2>2, UntouchedRests
<1> QED BY <1>1, <1>2, <1>3 DEF CycleStep

\* The claim takes the listed rows that are still scheduled and drops the others.
LEMMA ClaimRow ==
  ASSUME TypeOK, NEW e \in Engines, NEW p \in PP, NEW q \in Posts, ClaimGroup(e, q)
  PROVE  EngineRow(e, p)
<1> DEFINE L == {r \in PlatformPosts(q) : thr[e][r].pc = "listed"}
           C == {r \in L : row[r].status = "scheduled"}
           t == [r \in L |->
                  IF r \in C
                  THEN [Load(r, "call") EXCEPT !.postPubAt = thr[e][r].postPubAt]
                  ELSE Idle]
<1>1. L \in SUBSET PP
  BY DEF PlatformPosts
<1>2. StepAll(e, L, t) /\ UNCHANGED <<attempts, live, spent>>
  BY DEF ClaimGroup, ghosts
<1>3. row' = [r \in PP |-> IF r \in C THEN [row[r] EXCEPT !.status = "publishing"]
                          ELSE row[r]]
  BY DEF ClaimGroup
<1>4. p \in C => p \in L /\ t[p].pc = "call" /\ t[p].retry = row[p].retry
  BY DEF Load
<1>5. p \in L /\ p \notin C => t[p].pc = "idle" /\ t[p].retry = 0
  BY DEF Idle
<1>6. p \in C => /\ row[p].status = "scheduled" /\ row'[p].status = "publishing"
                 /\ row'[p].retry = row[p].retry
  <2> SUFFICES ASSUME p \in C
               PROVE  /\ row[p].status = "scheduled" /\ row'[p].status = "publishing"
                      /\ row'[p].retry = row[p].retry
    OBVIOUS
  <2>1. row'[p] = [row[p] EXCEPT !.status = "publishing"] /\ row[p] \in Row
    BY <1>3 DEF TypeOK
  <2> QED BY <2>1 DEF Row
<1>7. p \notin C => row'[p] = row[p]
  BY <1>3
<1>8. SpentGrows
  BY <1>2, NothingSpent
<1> HIDE DEF L, C, t
<1>9. thr'[e][p] = IF p \in L THEN t[p] ELSE thr[e][p]
  BY <1>1, <1>2, StepAllAt
<1> USE DEF EngineRow, SpentGrows
<1>10. CASE p \in C
  BY <1>2, <1>4, <1>6, <1>8, <1>9, <1>10 DEF IsTaken
<1>11. CASE p \notin C
  BY <1>2, <1>5, <1>7, <1>8, <1>9, <1>11 DEF RowStays, ThreadRests, InWork
<1> QED BY <1>10, <1>11

\* The statements between the threads of a group.
LEMMA GroupRow ==
  ASSUME TypeOK, NEW e \in Engines, NEW p \in PP, NEW q \in Posts, GroupStep(e, q)
  PROVE  EngineRow(e, p)
<1> DEFINE G == Group(e, q)
<1>1. G \in SUBSET PP /\ \A r \in G : thr[e][r] \in Thread
  BY ThreadType DEF Group, PlatformPosts
<1>2. CASE ClaimGroup(e, q)
  BY <1>2, ClaimRow
<1>3. CASE ReadLatest(e, q)
  <2> DEFINE t == [r \in G |-> [thr[e][r] EXCEPT !.pc = "sync", !.latest = LatestPubAt(q)]]
  <2>1. p \in G => t[p].pc = "sync" /\ t[p].retry = thr[e][p].retry
    <3> HIDE DEF G
    <3> QED BY <1>1 DEF Thread
  <2>2. StepAll(e, G, t)
    BY <1>3, ZenonT(60) DEF ReadLatest
  <2>3. UNCHANGED <<row, attempts, live, spent>>
    BY <1>3 DEF ReadLatest, tables, ghosts
  <2> HIDE DEF t, G
  <2> QED BY <1>1, <2>1, <2>2, <2>3, TogetherRow DEF InWork
<1>4. CASE SyncParentPublishedAt(e, q)
  <2> DEFINE t == [r \in G |-> IF mode[e] = "polling"
                              THEN [thr[e][r] EXCEPT !.pc = "refresh"] ELSE Idle]
  <2>1. p \in G => /\ t[p].pc \notin InWork
                   /\ t[p].retry = 0 \/ t[p].retry = thr[e][p].retry
    <3> HIDE DEF G
    <3> QED BY <1>1 DEF Thread, Idle, InWork
  <2>2. StepAll(e, G, t)
    BY <1>4, ZenonT(60) DEF SyncParentPublishedAt
  <2>3. UNCHANGED <<row, attempts, live, spent>>
    BY <1>4 DEF SyncParentPublishedAt, ghosts
  <2> HIDE DEF t, G
  <2> QED BY <1>1, <2>1, <2>2, <2>3, TogetherRow
<1> QED BY <1>2, <1>3, <1>4 DEF GroupStep

\* With one engine, every step of the system that no editor takes.
LEMMA SystemRow ==
  ASSUME NEW e, Engines = {e}, TypeOK, Next, NEW p \in PP
  PROVE  EngineRow(e, p)
<1>e. e \in Engines
  OBVIOUS
<1>1. CASE CycleStep(e)
  BY <1>e, <1>1, CycleRow
<1>2. CASE Crash(e)
  <2>1. /\ UNCHANGED <<row, live, attempts>> /\ thr'[e][p] = Idle
        /\ spent'.lost = spent.lost /\ spent'.db = spent.db
    BY <1>e, <1>2 DEF Crash, tables, ghosts, TypeOK, Faults
  <2>2. spent.lost \in Nat /\ spent.db \in Nat
    BY <1>e, BookTypes
  <2> QED BY <2>1, <2>2 DEF Idle, EngineRow, RowStays, ThreadRests, InWork
<1>3. ASSUME NEW r \in PP, ThreadStep(e, r) PROVE EngineRow(e, p)
  <2>1. SpentGrows /\ \A c \in PP : c # r => Untouched(e, c)
    BY <1>e, <1>3, ThreadFrame
  <2>2. CASE r # p
    BY <1>e, <2>1, <2>2, UntouchedRests
  <2>3. CASE r = p
    BY <1>e, <1>3, <2>1, <2>3, DispatchRow, RecordRow, SettleRow DEF ThreadStep
  <2> QED BY <2>2, <2>3
<1>4. ASSUME NEW q \in Posts, GroupStep(e, q) PROVE EngineRow(e, p)
  BY <1>e, <1>4, GroupRow
<1>5. ASSUME UNCHANGED <<row, thr, attempts, live, spent>> PROVE EngineRow(e, p)
  <2>1. SpentGrows
    BY <1>5, NothingSpent
  <2> QED BY <1>5, <2>1 DEF EngineRow, SpentGrows, RowStays, ThreadRests
<1>6. ASSUME NEW r \in PP, RunFirstComment(r) PROVE EngineRow(e, p)
  BY <1>5, <1>6 DEF RunFirstComment, tables
<1>7. CASE Tick
  BY <1>5, <1>7 DEF Tick, tables, ghosts
<1> QED BY <1>e, <1>1, <1>2, <1>3, <1>4, <1>6, <1>7 DEF Next

-----------------------------------------------------------------------------
(* What an edit is made of                                                 *)

\* The columns of a row in a request that has not loaded it.
Unloaded == [status |-> "draft", sched |-> 0, retry |-> 0, next |-> 0, pubAt |-> 0]

\* A request that does nothing is well typed.
LEMMA NoRequestType ==
  NoRequest \in Request /\ \A p \in PP : NoRequest.inst[p] = Unloaded
<1>1. (CHOOSE q \in Posts : TRUE) \in Posts
  BY EditorsAssumption
<1>2. 0 \in Times
  BY DEF Times
<1>3. [p \in PP |-> [status |-> "draft", sched |-> 0, retry |-> 0, next |-> 0, pubAt |-> 0]]
        \in [PP -> Row]
  BY <1>2 DEF Row, Status
<1> QED BY <1>1, <1>2, <1>3 DEF NoRequest, Request, Unloaded

\* Loading rows replaces the copies of these rows and nothing else.
LEMMA LoadedHolds ==
  ASSUME TypeOK, NEW r \in Request, NEW R \in SUBSET PP
  PROVE  /\ Loaded(r, R) \in Request
         /\ Loaded(r, R).kind = r.kind /\ Loaded(r, R).pc = r.pc
         /\ \A p \in PP : Loaded(r, R).inst[p] = IF p \in R THEN row[p] ELSE r.inst[p]
<1> DEFINE f == [p \in PP |-> IF p \in R THEN row[p] ELSE r.inst[p]]
<1>1. f \in [PP -> Row]
  <2>1. r.inst \in [PP -> Row] /\ row \in [PP -> Row]
    BY DEF TypeOK, Request
  <2> QED BY <2>1
<1>2. \A p \in PP : f[p] = IF p \in R THEN row[p] ELSE r.inst[p]
  OBVIOUS
<1>3. Loaded(r, R) = [r EXCEPT !.inst = f]
  BY DEF Loaded
<1> HIDE DEF f
<1>4. [r EXCEPT !.inst = f] \in Request /\ [r EXCEPT !.inst = f].inst = f
      /\ [r EXCEPT !.inst = f].kind = r.kind /\ [r EXCEPT !.inst = f].pc = r.pc
  BY <1>1 DEF Request
<1> QED BY <1>2, <1>3, <1>4

\* The copies of row p that the requests hold come from the table.
InstsKeep(p) ==
  \A v \in Editors : req'[v].inst[p] \in {req[v].inst[p], row[p], Unloaded}

\* A request that moves on keeps the types, and its copies are old or fresh.
LEMMA RequestHolds ==
  ASSUME EditorsTypeOK, NEW w \in Editors, NEW r \in Request,
         req' = [req EXCEPT ![w] = r],
         \A p \in PP : r.inst[p] \in {req[w].inst[p], row[p], Unloaded}
  PROVE  /\ req' \in [Editors -> Request] /\ req'[w] = r
         /\ \A p \in PP : InstsKeep(p)
<1>1. req \in [Editors -> Request]
  BY DEF EditorsTypeOK
<1>2. req'[w] = r /\ \A v \in Editors : v # w => req'[v] = req[v]
  BY <1>1
<1>3. req' \in [Editors -> Request]
  BY <1>1
<1> QED BY <1>2, <1>3 DEF InstsKeep

\* A request that ends drops its copies.
LEMMA DoneHolds ==
  ASSUME EditorsTypeOK, NEW w \in Editors, Done(w)
  PROVE  /\ req' \in [Editors -> Request] /\ req'[w] = NoRequest
         /\ \A p \in PP : InstsKeep(p)
<1>1. \A p \in PP : NoRequest.inst[p] \in {req[w].inst[p], row[p], Unloaded}
  BY NoRequestType
<1> QED BY <1>1, NoRequestType, RequestHolds DEF Done

\* What an edit writes into the table, and what it buys.
LEMMA WriteRowsHolds ==
  ASSUME EditorsTypeOK, NEW R \in SUBSET PP, NEW f, WriteRows(R, f),
         \A p \in R : f[p] \in Row
  PROVE  /\ row' \in [PP -> Row] /\ rearmed' \in [PP -> Nat]
         /\ \A p \in PP : row'[p] = IF p \in R THEN f[p] ELSE row[p]
         /\ \A p \in PP : rearmed'[p] = IF p \in R /\ f[p].status = "scheduled"
                                        THEN rearmed[p] + 1 ELSE rearmed[p]
<1>1. row \in [PP -> Row] /\ rearmed \in [PP -> Nat]
  BY DEF EditorsTypeOK, TypeOK
<1> QED BY <1>1 DEF WriteRows

\* A set of ticks has a smallest one, so the earliest time of a post's rows is a tick.
LEMMA EarliestType ==
  ASSUME NEW tab \in [PP -> Row], NEW q
  PROVE  Earliest(tab, q) \in Times
<1> DEFINE T == {tab[p].sched : p \in PlatformPosts(q)} \ {0}
<1>1. T \subseteq Times
  BY DEF PlatformPosts, Row
<1>2. CASE T = {}
  BY <1>2 DEF Earliest, Times
<1>3. CASE T # {}
  <2> DEFINE D == {MaxNow - t : t \in T}
  <2>1. D \in SUBSET Times /\ D # {}
    <3>1. \A t \in T : MaxNow - t \in Times
      <4> HIDE DEF T
      <4> QED BY <1>1 DEF Times
    <3> HIDE DEF T
    <3> QED BY <1>3, <3>1
  <2>2. PICK d \in D : \A x \in D : x <= d
    BY <2>1, LargestTick
  <2>3. PICK t \in T : d = MaxNow - t
    OBVIOUS
  <2>4. \A u \in T : t <= u
    <3> SUFFICES ASSUME NEW u \in T PROVE t <= u
      OBVIOUS
    <3>1. MaxNow - u <= d
      BY <2>2
    <3> HIDE DEF T
    <3>2. t \in Times /\ u \in Times
      BY <1>1
    <3> QED BY <2>3, <3>1, <3>2 DEF Times
  <2>5. (CHOOSE z \in T : \A u \in T : z <= u) \in T
    BY <2>4
  <2> QED BY <1>1, <1>3, <2>5 DEF Earliest
<1> QED BY <1>2, <1>3

\* sync_post_scheduled_at writes a tick.
LEMMA SyncType ==
  ASSUME EditorsTypeOK, NEW q \in Posts, NEW known, NEW e \in Times,
         SyncPostScheduledAt(q, known, e)
  PROVE  postSched' \in [Posts -> Times]
  BY DEF EditorsTypeOK, TypeOK, SyncPostScheduledAt

\* The rest of the engine's state stays, so what an editor writes is all there is
\* to check.
LEMMA EditorsFrame ==
  ASSUME EditorsTypeOK, UNCHANGED EngineOnly,
         row' \in [PP -> Row], rearmed' \in [PP -> Nat],
         postSched' \in [Posts -> Times], postPubAt' \in [Posts -> Times],
         req' \in [Editors -> Request],
         begun' \in [edits : 0 .. MaxEdits, saves : 0 .. MaxSaves]
  PROVE  EditorsTypeOK'
  BY DEF EditorsTypeOK, TypeOK, EngineOnly, ghosts

\* A step of an editor, for row p.  What leaves the row scheduled is counted.
EditorRow(p) ==
  /\ UNCHANGED <<thr, attempts, live, spent>> /\ InstsKeep(p)
  /\ \/ row'[p].retry = row[p].retry
     \/ \E v \in Editors : row'[p].retry = req[v].inst[p].retry
  /\ row'[p].status = "published" =>
       \/ row[p].status = "published"
       \/ \E v \in Editors : req[v].inst[p].status = "published"
  /\ \/ rearmed'[p] = rearmed[p] + 1
     \/ /\ rearmed'[p] = rearmed[p]
        /\ row'[p].status = "scheduled" =>
             row[p].status = "scheduled" /\ row'[p].retry = row[p].retry

\* A step of an editor that writes no row.
LEMMA NoWriteRow ==
  ASSUME NEW p \in PP, UNCHANGED <<row, rearmed, thr, attempts, live, spent>>, InstsKeep(p)
  PROVE  EditorRow(p)
  BY DEF EditorRow

\* What every step of an editor satisfies.
EditorHolds == EditorsTypeOK' /\ \A p \in PP : EditorRow(p)

-----------------------------------------------------------------------------
(* The steps of the editors                                                *)

\* A request begins: it loads rows and writes nothing.
LEMMA BeginHolds ==
  ASSUME EditorsTypeOK, NEW w \in Editors, NEW kind \in Edits, NEW q \in Posts,
         NEW R \in SUBSET PP, NEW t \in Times, Begin(w, kind, q, R, t),
         kind = "save" => begun.saves < MaxSaves
  PROVE  EditorHolds
<1>1. TypeOK
  BY DEF EditorsTypeOK
<1>2. postSched[q] \in Times /\ postPubAt[q] \in Times
  BY <1>1 DEF TypeOK
<1>3. PICK b : b = [NoRequest EXCEPT !.kind = kind, !.post = q, !.time = t, !.pc = "loaded",
                                     !.psched = postSched[q], !.ppub = postPubAt[q]]
  OBVIOUS
<1>4. b \in Request /\ b.inst = NoRequest.inst
  BY <1>2, <1>3, NoRequestType DEF Request
<1>5. PICK c : c = Loaded(b, R)
  OBVIOUS
<1>6. c \in Request /\ \A p \in PP : c.inst[p] = IF p \in R THEN row[p] ELSE b.inst[p]
  BY <1>1, <1>4, <1>5, LoadedHolds
<1>7. PICK d : d = [c EXCEPT !.todo = R]
  OBVIOUS
<1>8. d \in Request /\ d.inst = c.inst
  BY <1>6, <1>7 DEF Request
<1>9. req' = [req EXCEPT ![w] = d]
  BY <1>3, <1>5, <1>7 DEF Begin
<1>10. \A p \in PP : d.inst[p] \in {req[w].inst[p], row[p], Unloaded}
  BY <1>4, <1>6, <1>8, NoRequestType
<1>11. req' \in [Editors -> Request] /\ \A p \in PP : InstsKeep(p)
  BY <1>8, <1>9, <1>10, RequestHolds
<1>12. begun' \in [edits : 0 .. MaxEdits, saves : 0 .. MaxSaves]
  <2>1. begun.edits \in 0 .. MaxEdits /\ begun.saves \in 0 .. MaxSaves
        /\ begun.edits < MaxEdits
    BY DEF EditorsTypeOK, Begin
  <2>2. begun.edits + 1 \in 0 .. MaxEdits
    BY <2>1, EditorsAssumption
  <2>3. begun.saves + (IF kind = "save" THEN 1 ELSE 0) \in 0 .. MaxSaves
    BY <2>1, EditorsAssumption
  <2> QED BY <2>2, <2>3 DEF Begin
<1>13. UNCHANGED <<vars, rearmed>>
  BY DEF Begin
<1>14. EditorsTypeOK'
  BY <1>11, <1>12, <1>13 DEF EditorsTypeOK, TypeOK, vars
<1> QED BY <1>11, <1>13, <1>14, NoWriteRow DEF EditorHolds, vars

\* A commit that sets times of rows: their status and count stay.
LEMMA RetimeRow ==
  ASSUME EditorsTypeOK, NEW S \in SUBSET PP, NEW t \in Times,
         row' = [p \in PP |-> IF p \in S THEN [row[p] EXCEPT !.sched = t] ELSE row[p]],
         UNCHANGED <<rearmed, thr, attempts, live, spent>>,
         \A p \in PP : InstsKeep(p)
  PROVE  row' \in [PP -> Row] /\ \A p \in PP : EditorRow(p)
<1>1. \A p \in PP : row[p] \in Row
  BY DEF EditorsTypeOK, TypeOK
<1>2. \A p \in PP : LET u == [row[p] EXCEPT !.sched = t] IN
        u \in Row /\ u.status = row[p].status /\ u.retry = row[p].retry
  BY <1>1 DEF Row
<1>3. \A p \in PP : /\ row'[p] \in Row
                    /\ row'[p].status = row[p].status /\ row'[p].retry = row[p].retry
  BY <1>1, <1>2
<1>4. row' \in [PP -> Row]
  BY <1>3
<1> QED BY <1>3, <1>4 DEF EditorRow

\* PATCH with a scheduled_at.
LEMMA PatchHolds ==
  ASSUME EditorsTypeOK, NEW w \in Editors, CommitPatch(w)
  PROVE  EditorHolds
<1> DEFINE r == req[w]
           S == {p \in PlatformPosts(r.post) : row[p].status = "scheduled"}
<1>1. r.post \in Posts /\ r.time \in Times /\ S \in SUBSET PP
  BY DEF EditorsTypeOK, Request, PlatformPosts
<1>2. req' \in [Editors -> Request] /\ \A p \in PP : InstsKeep(p)
  BY DoneHolds DEF CommitPatch
<1>3. UNCHANGED <<postPubAt, EngineOnly, begun, rearmed>>
  BY DEF CommitPatch
<1>4. row' = [p \in PP |-> IF p \in S THEN [row[p] EXCEPT !.sched = r.time] ELSE row[p]]
  BY DEF CommitPatch
<1>5. row' \in [PP -> Row] /\ \A p \in PP : EditorRow(p)
  <2> HIDE DEF S, r
  <2> QED BY <1>1, <1>2, <1>3, <1>4, RetimeRow DEF EngineOnly, ghosts
<1>6. Earliest(row', r.post) \in Times
  BY <1>5, EarliestType
<1>7. postSched' \in [Posts -> Times]
  BY <1>6 DEF CommitPatch, EditorsTypeOK, TypeOK
<1> QED BY <1>2, <1>3, <1>5, <1>7, EditorsFrame DEF EditorHolds, EditorsTypeOK, TypeOK

\* A commit that writes rows: what it leaves scheduled is counted.
LEMMA WriteRowsRow ==
  ASSUME EditorsTypeOK, NEW R \in SUBSET PP, NEW f, WriteRows(R, f),
         \A p \in R : /\ f[p] \in Row
                      /\ \/ f[p].retry = row[p].retry
                         \/ \E v \in Editors : f[p].retry = req[v].inst[p].retry
                      /\ f[p].status = "published" =>
                           \/ row[p].status = "published"
                           \/ \E v \in Editors : req[v].inst[p].status = "published",
         UNCHANGED <<thr, attempts, live, spent>>,
         \A p \in PP : InstsKeep(p)
  PROVE  \A p \in PP : EditorRow(p)
<1> SUFFICES ASSUME NEW p \in PP PROVE EditorRow(p)
  OBVIOUS
<1>1. /\ row'[p] = IF p \in R THEN f[p] ELSE row[p]
      /\ rearmed'[p] = IF p \in R /\ f[p].status = "scheduled"
                       THEN rearmed[p] + 1 ELSE rearmed[p]
  BY WriteRowsHolds
<1>2. CASE p \in R
  BY <1>1, <1>2 DEF EditorRow
<1>3. CASE p \notin R
  BY <1>1, <1>3 DEF EditorRow
<1> QED BY <1>2, <1>3

\* cancel and schedule.
LEMMA TransitionsHold ==
  ASSUME EditorsTypeOK, NEW w \in Editors, CommitTransitions(w)
  PROVE  EditorHolds
<1> DEFINE r == req[w]
<1>1. PICK f : f = [p \in PP |->
             IF r.kind = "schedule"
             THEN [row[p] EXCEPT !.status = "scheduled", !.sched = r.time]
             ELSE [row[p] EXCEPT !.status = "draft",
                                 !.sched = IF r.inst[p].sched # 0 THEN 0 ELSE @]]
  OBVIOUS
<1>2. r.post \in Posts /\ r.time \in Times /\ r.todo \in SUBSET PP
      /\ \A p \in PP : row[p] \in Row /\ r.inst[p].sched \in Times
  BY DEF EditorsTypeOK, TypeOK, Request, Row
<1>3. req' \in [Editors -> Request] /\ \A p \in PP : InstsKeep(p)
  BY DoneHolds DEF CommitTransitions
<1>4. UNCHANGED <<postPubAt, EngineOnly, begun>> /\ WriteRows(r.todo, f)
  BY <1>1 DEF CommitTransitions
<1>5. \A p \in PP : /\ f[p] \in Row /\ f[p].retry = row[p].retry
                    /\ f[p].status \in {"scheduled", "draft"}
  <2> SUFFICES ASSUME NEW p \in PP
               PROVE  /\ f[p] \in Row /\ f[p].retry = row[p].retry
                      /\ f[p].status \in {"scheduled", "draft"}
    OBVIOUS
  <2>1. PICK c : c = row[p]
    OBVIOUS
  <2>2. c \in Row /\ 0 \in Times
    BY <1>2, <2>1 DEF Times
  <2>3. CASE r.kind = "schedule"
    <3>1. f[p] = [c EXCEPT !.status = "scheduled", !.sched = r.time]
      BY <1>1, <2>1, <2>3
    <3> QED BY <1>2, <2>1, <2>2, <3>1 DEF Row, Status
  <2>4. CASE r.kind # "schedule"
    <3>1. PICK t : t = IF r.inst[p].sched # 0 THEN 0 ELSE c.sched
      OBVIOUS
    <3>2. t \in Times
      BY <1>2, <2>2, <3>1 DEF Row
    <3>3. f[p] = [c EXCEPT !.status = "draft", !.sched = t]
      BY <1>1, <2>1, <2>4, <3>1
    <3> QED BY <2>1, <2>2, <3>2, <3>3 DEF Row, Status
  <2> QED BY <2>3, <2>4
<1>6. \A p \in PP : EditorRow(p)
  <2>1. UNCHANGED <<thr, attempts, live, spent>>
    BY <1>4 DEF EngineOnly, ghosts
  <2> HIDE DEF r
  <2> QED BY <1>2, <1>3, <1>4, <1>5, <2>1, WriteRowsRow
<1>7. row' \in [PP -> Row] /\ rearmed' \in [PP -> Nat]
  <2> HIDE DEF r
  <2> QED BY <1>2, <1>4, <1>5, WriteRowsHolds
<1>8. postSched' \in [Posts -> Times]
  <2>1. Earliest(row', r.post) \in Times
    BY <1>7, EarliestType
  <2> QED BY <1>2, <2>1, SyncType DEF CommitTransitions
<1> QED BY <1>3, <1>4, <1>6, <1>7, <1>8, EditorsFrame DEF EditorHolds, EditorsTypeOK, TypeOK

\* A request that goes on to another statement keeps its copies.
LEMMA PcHolds ==
  ASSUME EditorsTypeOK, NEW w \in Editors,
         NEW pc \in {"sync", "children", "rows", "parent"}, req' = [req EXCEPT ![w].pc = pc]
  PROVE  req' \in [Editors -> Request] /\ \A p \in PP : InstsKeep(p)
<1>1. PICK r : r = [req[w] EXCEPT !.pc = pc]
  OBVIOUS
<1>2. r \in Request /\ r.inst = req[w].inst
  <2>1. PICK c : c = req[w]
    OBVIOUS
  <2>2. c \in Request
    BY <2>1 DEF EditorsTypeOK
  <2>3. [c EXCEPT !.pc = pc] \in Request /\ [c EXCEPT !.pc = pc].inst = c.inst
    BY <2>2 DEF Request
  <2> QED BY <1>1, <2>1, <2>3
<1>3. req' = [req EXCEPT ![w] = r]
  BY <1>1
<1> QED BY <1>2, <1>3, RequestHolds

\* The drag: its save, and the two statements after it.
LEMMA DragHolds ==
  ASSUME EditorsTypeOK, NEW w \in Editors,
         SaveDragged(w) \/ ReadEarliest(w) \/ SaveParentSched(w)
  PROVE  EditorHolds
<1> DEFINE r == req[w]
<1>1. r.post \in Posts /\ r.time \in Times /\ r.todo \in SUBSET PP /\ r.earliest \in Times
      /\ \A p \in PP : row[p] \in Row /\ r.inst[p] \in Row
  BY DEF EditorsTypeOK, TypeOK, Request
<1>2. CASE SaveDragged(w)
  <2>1. PICK s : s = [p \in PP |-> IF r.inst[p].status = "draft" THEN "scheduled"
                                   ELSE r.inst[p].status]
    OBVIOUS
  <2>2. PICK f : f = [p \in PP |-> [row[p] EXCEPT !.status = s[p], !.sched = r.time]]
    OBVIOUS
  <2>3. WriteRows(r.todo, f) /\ UNCHANGED <<postSched, postPubAt, EngineOnly, begun>>
        /\ req' = [req EXCEPT ![w].pc = "sync"]
    BY <1>2, <2>1, <2>2 DEF SaveDragged
  <2>4. req' \in [Editors -> Request] /\ \A p \in PP : InstsKeep(p)
    BY <2>3, PcHolds
  <2>5. \A p \in PP : /\ s[p] \in Status
                      /\ s[p] = "published" => r.inst[p].status = "published"
    BY <1>1, <2>1 DEF Row, Status
  <2>6. \A p \in PP : f[p] \in Row /\ f[p].retry = row[p].retry /\ f[p].status = s[p]
    BY <1>1, <2>2, <2>5 DEF Row
  <2>7. \A p \in PP : f[p].status = "published" =>
                        \E v \in Editors : req[v].inst[p].status = "published"
    BY <2>5, <2>6
  <2>8. UNCHANGED <<thr, attempts, live, spent>>
    BY <2>3 DEF EngineOnly, ghosts
  <2>9. \A p \in PP : EditorRow(p)
    <3> HIDE DEF r
    <3> QED BY <1>1, <2>3, <2>4, <2>6, <2>7, <2>8, WriteRowsRow
  <2>10. row' \in [PP -> Row] /\ rearmed' \in [PP -> Nat]
    <3> HIDE DEF r
    <3> QED BY <1>1, <2>3, <2>6, WriteRowsHolds
  <2> QED BY <2>3, <2>4, <2>9, <2>10, EditorsFrame DEF EditorHolds, EditorsTypeOK, TypeOK
<1>3. CASE ReadEarliest(w)
  <2>1. PICK t : t = Earliest(row, r.post)
    OBVIOUS
  <2>2. t \in Times
    BY <2>1, EarliestType DEF EditorsTypeOK, TypeOK
  <2>3. PICK u : u = [req[w] EXCEPT !.pc = "parent", !.earliest = t]
    OBVIOUS
  <2>4. u \in Request /\ u.inst = req[w].inst
    <3>1. PICK c : c = req[w]
      OBVIOUS
    <3>2. c \in Request
      BY <3>1 DEF EditorsTypeOK
    <3>3. LET d == [c EXCEPT !.pc = "parent", !.earliest = t] IN
            d \in Request /\ d.inst = c.inst
      BY <2>2, <3>2 DEF Request
    <3> QED BY <2>3, <3>1, <3>3
  <2>5. req' = [req EXCEPT ![w] = u]
    BY <1>3, <2>1, <2>3 DEF ReadEarliest
  <2>6. req' \in [Editors -> Request] /\ \A p \in PP : InstsKeep(p)
    BY <2>4, <2>5, RequestHolds
  <2>7. UNCHANGED <<vars, begun, rearmed>>
    BY <1>3 DEF ReadEarliest
  <2> QED BY <2>6, <2>7, NoWriteRow DEF EditorHolds, EditorsTypeOK, TypeOK, vars
<1>4. CASE SaveParentSched(w)
  <2>1. req' \in [Editors -> Request] /\ \A p \in PP : InstsKeep(p)
    BY <1>4, DoneHolds DEF SaveParentSched
  <2>2. UNCHANGED <<row, postPubAt, EngineOnly, begun, rearmed>>
    BY <1>4 DEF SaveParentSched
  <2>3. postSched' \in [Posts -> Times]
    BY <1>1, <1>4, SyncType DEF SaveParentSched
  <2>4. UNCHANGED <<thr, attempts, live, spent>>
    BY <2>2 DEF EngineOnly, ghosts
  <2> QED BY <2>1, <2>2, <2>3, <2>4, NoWriteRow, EditorsFrame
          DEF EditorHolds, EditorsTypeOK, TypeOK
<1> QED BY <1>2, <1>3, <1>4

\* The composer's save: the post, the end of a draft, the propagation of the time.
LEMMA SavePostHolds ==
  ASSUME EditorsTypeOK, NEW w \in Editors, SavePost(w) \/ EndSaveDraft(w) \/ Propagate(w)
  PROVE  EditorHolds
<1>1. PICK r : r = req[w]
  OBVIOUS
<1>2. r \in Request /\ r.post \in Posts /\ r.time \in Times /\ r.psched \in Times
      /\ r.ppub \in Times /\ PlatformPosts(r.post) \in SUBSET PP
  BY <1>1 DEF EditorsTypeOK, Request, PlatformPosts
<1>3. CASE SavePost(w)
  <2>1. PICK u : u = [r EXCEPT !.pc = "rows", !.todo = PlatformPosts(r.post)]
    OBVIOUS
  <2>2. u \in Request /\ u.inst = r.inst
    BY <1>2, <2>1 DEF Request
  <2>3. req' = [req EXCEPT ![w] = u]
    BY <1>1, <1>3, <2>1 DEF SavePost
  <2>4. req' \in [Editors -> Request] /\ \A p \in PP : InstsKeep(p)
    BY <1>1, <2>2, <2>3, RequestHolds
  <2>5. UNCHANGED <<row, EngineOnly, begun, rearmed>>
    BY <1>3 DEF SavePost
  <2>6. postSched' \in [Posts -> Times] /\ postPubAt' \in [Posts -> Times]
    BY <1>1, <1>2, <1>3 DEF SavePost, EditorsTypeOK, TypeOK
  <2>7. UNCHANGED <<thr, attempts, live, spent>>
    BY <2>5 DEF EngineOnly, ghosts
  <2> QED BY <2>4, <2>5, <2>6, <2>7, NoWriteRow, EditorsFrame
          DEF EditorHolds, EditorsTypeOK, TypeOK
<1>4. CASE EndSaveDraft(w)
  <2>1. req' \in [Editors -> Request] /\ \A p \in PP : InstsKeep(p)
    BY <1>4, DoneHolds DEF EndSaveDraft
  <2>2. UNCHANGED <<vars, begun, rearmed>>
    BY <1>4 DEF EndSaveDraft
  <2> QED BY <2>1, <2>2, NoWriteRow DEF EditorHolds, EditorsTypeOK, TypeOK, vars
<1>5. CASE Propagate(w)
  <2> DEFINE S == {p \in PlatformPosts(r.post) :
                     row[p].status \notin Lifecycle!PROTECTED_STATUSES}
  <2>1. S \in SUBSET PP
    BY <1>2
  <2>2. UNCHANGED <<postSched, postPubAt, EngineOnly, begun, rearmed>>
        /\ req' = [req EXCEPT ![w].pc = "children"]
    BY <1>5 DEF Propagate
  <2>3. row' = [p \in PP |-> IF p \in S THEN [row[p] EXCEPT !.sched = r.time] ELSE row[p]]
    BY <1>1, <1>5 DEF Propagate
  <2>4. req' \in [Editors -> Request] /\ \A p \in PP : InstsKeep(p)
    BY <2>2, PcHolds
  <2> HIDE DEF S
  <2>5. row' \in [PP -> Row] /\ \A p \in PP : EditorRow(p)
    BY <1>2, <2>1, <2>2, <2>3, <2>4, RetimeRow DEF EngineOnly, ghosts
  <2> QED BY <2>2, <2>4, <2>5, EditorsFrame DEF EditorHolds, EditorsTypeOK, TypeOK
<1> QED BY <1>3, <1>4, <1>5

\* The rows of the save: loaded one by one, or all children at once.
LEMMA LoadHolds ==
  ASSUME EditorsTypeOK, NEW w \in Editors,
         (\E p \in PP : LoadChild(w, p)) \/ ListChildren(w)
  PROVE  EditorHolds
<1>1. PICK r : r = req[w]
  OBVIOUS
<1>2. TypeOK /\ r \in Request /\ PlatformPosts(r.post) \in SUBSET PP
  BY <1>1 DEF EditorsTypeOK, PlatformPosts
<1>3. UNCHANGED <<vars, begun, rearmed>>
  BY DEF LoadChild, ListChildren
<1>4. ASSUME NEW R \in SUBSET PP, NEW u \in Request, u.inst = Loaded(r, R).inst,
             req' = [req EXCEPT ![w] = u]
      PROVE  EditorHolds
  <2>1. \A c \in PP : u.inst[c] \in {req[w].inst[c], row[c], Unloaded}
    BY <1>1, <1>2, <1>4, LoadedHolds
  <2>2. req' \in [Editors -> Request] /\ \A c \in PP : InstsKeep(c)
    BY <1>4, <2>1, RequestHolds
  <2> QED BY <1>3, <2>2, NoWriteRow DEF EditorHolds, EditorsTypeOK, TypeOK, vars
<1>5. ASSUME NEW p \in PP, LoadChild(w, p) PROVE EditorHolds
  <2>1. PICK l : l = Loaded(r, {p})
    OBVIOUS
  <2>2. l \in Request
    BY <1>2, <2>1, LoadedHolds
  <2>3. PICK u : u = [l EXCEPT !.held = {p}]
    OBVIOUS
  <2>4. u \in Request /\ u.inst = l.inst
    <3>1. {p} \in SUBSET PP
      OBVIOUS
    <3> QED BY <2>2, <2>3, <3>1 DEF Request
  <2>5. req' = [req EXCEPT ![w] = u]
    BY <1>1, <1>5, <2>1, <2>3 DEF LoadChild, EditorsTypeOK
  <2> QED BY <1>2, <1>4, <2>1, <2>4, <2>5
<1>6. CASE ListChildren(w)
  <2>1. PICK R : R = PlatformPosts(r.post)
    OBVIOUS
  <2>2. PICK l : l = Loaded(r, R)
    OBVIOUS
  <2>3. l \in Request /\ R \in SUBSET PP
    BY <1>2, <2>1, <2>2, LoadedHolds
  <2>4. PICK u : u = [l EXCEPT !.pc = "moving", !.todo = R]
    OBVIOUS
  <2>5. u \in Request /\ u.inst = l.inst
    BY <2>3, <2>4 DEF Request
  <2>6. req' = [req EXCEPT ![w] = u]
    BY <1>1, <1>6, <2>1, <2>2, <2>4 DEF ListChildren
  <2> QED BY <1>4, <2>2, <2>3, <2>5, <2>6
<1> QED BY <1>5, <1>6

\* The saves of the rows.
LEMMA SaveRowsHold ==
  ASSUME EditorsTypeOK, NEW w \in Editors, NEW p \in PP, SaveChild(w, p) \/ MoveChild(w, p)
  PROVE  EditorHolds
<1>1. PICK r : r = req[w]
  OBVIOUS
<1>2. r \in Request /\ r.inst \in [PP -> Row] /\ row \in [PP -> Row]
  BY <1>1 DEF EditorsTypeOK, TypeOK, Request
<1>3. UNCHANGED <<postSched, postPubAt, EngineOnly, begun>>
  BY DEF SaveChild, MoveChild
<1>4. UNCHANGED <<thr, attempts, live, spent>>
  BY <1>3 DEF EngineOnly, ghosts
<1>5. CASE SaveChild(w, p)
  <2>1. PICK u : u = [r EXCEPT !.held = {}, !.todo = @ \ {p}]
    OBVIOUS
  <2>2. u \in Request /\ u.inst = r.inst
    <3>1. r.todo \ {p} \in SUBSET PP
      BY <1>2 DEF Request
    <3> QED BY <1>2, <2>1, <3>1 DEF Request
  <2>3. req' = [req EXCEPT ![w] = u]
    BY <1>1, <1>5, <2>1 DEF SaveChild
  <2>4. req' \in [Editors -> Request] /\ \A c \in PP : InstsKeep(c)
    BY <1>1, <2>2, <2>3, RequestHolds
  <2>5. WriteRows({p}, r.inst)
    BY <1>1, <1>5 DEF SaveChild
  <2>6. \A c \in {p} : r.inst[c] \in Row
    BY <1>2
  <2>7. \A c \in PP : EditorRow(c)
    BY <1>1, <1>4, <2>4, <2>5, <2>6, WriteRowsRow
  <2>8. row' \in [PP -> Row] /\ rearmed' \in [PP -> Nat]
    <3>1. {p} \in SUBSET PP
      OBVIOUS
    <3> QED BY <2>5, <2>6, <3>1, WriteRowsHolds
  <2> QED BY <1>3, <2>4, <2>7, <2>8, EditorsFrame DEF EditorHolds, EditorsTypeOK, TypeOK
<1>6. CASE MoveChild(w, p)
  <2>1. PICK u : u = [r EXCEPT !.todo = @ \ {p}]
    OBVIOUS
  <2>2. u \in Request /\ u.inst = r.inst
    <3>1. r.todo \ {p} \in SUBSET PP
      BY <1>2 DEF Request
    <3> QED BY <1>2, <2>1, <3>1 DEF Request
  <2>3. req' = [req EXCEPT ![w] = NoRequest] \/ req' = [req EXCEPT ![w] = u]
    BY <1>1, <1>6, <2>1 DEF MoveChild
  <2>4. req' \in [Editors -> Request] /\ \A c \in PP : InstsKeep(c)
    <3>1. CASE req' = [req EXCEPT ![w] = NoRequest]
      BY <3>1, DoneHolds DEF Done
    <3>2. CASE req' = [req EXCEPT ![w] = u]
      BY <1>1, <2>2, <3>2, RequestHolds
    <3> QED BY <2>3, <3>1, <3>2
  <2>5. CASE UNCHANGED <<row, rearmed>>
    BY <1>3, <1>4, <2>4, <2>5, NoWriteRow, EditorsFrame DEF EditorHolds, EditorsTypeOK, TypeOK
  <2>6. CASE ~UNCHANGED <<row, rearmed>>
    <3>1. PICK f : f = [row EXCEPT ![p].status = "scheduled", ![p].pubAt = r.inst[p].pubAt]
      OBVIOUS
    <3>2. WriteRows({p}, f)
      <4>1. WriteRows({p}, [row EXCEPT ![p].status = "scheduled",
                                       ![p].pubAt = req[w].inst[p].pubAt])
        BY <1>6, <2>6, Zenon DEF MoveChild
      <4> QED BY <1>1, <3>1, <4>1
    <3>3. \A c \in {p} : f[c] \in Row /\ f[c].retry = row[c].retry /\ f[c].status = "scheduled"
      <4>1. r.inst[p].pubAt \in Times /\ row[p] \in Row
        BY <1>2 DEF Row
      <4>2. PICK c : c = row[p]
        OBVIOUS
      <4>3. PICK d : d = [c EXCEPT !.status = "scheduled", !.pubAt = r.inst[p].pubAt]
        OBVIOUS
      <4>4. d \in Row /\ d.retry = c.retry /\ d.status = "scheduled"
        BY <4>1, <4>2, <4>3 DEF Row, Status
      <4>5. f[p] = d
        <5>1. PICK g : g = [row EXCEPT ![p].status = "scheduled"]
          OBVIOUS
        <5>2. g \in [PP -> Row] /\ g[p] = [c EXCEPT !.status = "scheduled"]
          <6>1. [c EXCEPT !.status = "scheduled"] \in Row
            BY <4>1, <4>2 DEF Row, Status
          <6> QED BY <1>2, <4>2, <5>1, <6>1
        <5>3. f = [g EXCEPT ![p].pubAt = r.inst[p].pubAt]
          BY <3>1, <5>1
        <5> QED BY <4>3, <5>2, <5>3
      <4> QED BY <4>2, <4>4, <4>5
    <3>4. \A c \in PP : EditorRow(c)
      BY <1>4, <2>4, <3>2, <3>3, WriteRowsRow
    <3>5. row' \in [PP -> Row] /\ rearmed' \in [PP -> Nat]
      <4>1. {p} \in SUBSET PP
        OBVIOUS
      <4> QED BY <3>2, <3>3, <4>1, WriteRowsHolds
    <3> QED BY <1>3, <2>4, <3>4, <3>5, EditorsFrame DEF EditorHolds, EditorsTypeOK, TypeOK
  <2> QED BY <2>5, <2>6
<1> QED BY <1>5, <1>6

\* Every step of an editor keeps the types and is an EditorRow for each row.
LEMMA EditorStepHolds ==
  ASSUME EditorsTypeOK, NEW w \in Editors, EditorStep(w)
  PROVE  EditorHolds
<1>1. CASE \E q \in Posts :
             \/ BeginCancel(w, q)
             \/ \E t \in Times : BeginPatch(w, q, t) \/ BeginSchedule(w, q, t) \/ BeginSave(w, q, t)
  <2>1. PICK q \in Posts :
             \/ BeginCancel(w, q)
             \/ \E t \in Times : BeginPatch(w, q, t) \/ BeginSchedule(w, q, t) \/ BeginSave(w, q, t)
    BY <1>1
  <2>2. CASE BeginCancel(w, q)
    <3>1. ChildrenIn(q, "scheduled") \in SUBSET PP /\ 0 \in Times
      BY DEF ChildrenIn, PlatformPosts, Times
    <3> QED BY <2>2, <3>1, BeginHolds DEF BeginCancel, Edits
  <2>3. ASSUME NEW t \in Times,
               BeginPatch(w, q, t) \/ BeginSchedule(w, q, t) \/ BeginSave(w, q, t)
        PROVE  EditorHolds
    <3>1. PlatformPosts(q) \in SUBSET PP /\ ChildrenIn(q, "draft") \in SUBSET PP
          /\ {} \in SUBSET PP
      BY DEF ChildrenIn, PlatformPosts
    <3> QED BY <2>3, <3>1, BeginHolds DEF BeginPatch, BeginSchedule, BeginSave, Edits
  <2> QED BY <2>1, <2>2, <2>3
<1>2. ASSUME NEW p \in PP, NEW t \in Times, BeginDrag(w, p, t) PROVE EditorHolds
  <2>1. ParentOf[p] \in Posts /\ {p} \in SUBSET PP
    OBVIOUS
  <2> QED BY <1>2, <2>1, BeginHolds DEF BeginDrag, Edits
<1>3. CASE CommitPatch(w) \/ CommitTransitions(w)
  BY <1>3, PatchHolds, TransitionsHold
<1>4. CASE SaveDragged(w) \/ ReadEarliest(w) \/ SaveParentSched(w)
  BY <1>4, DragHolds
<1>5. CASE SavePost(w) \/ EndSaveDraft(w) \/ Propagate(w)
  BY <1>5, SavePostHolds
<1>6. CASE ListChildren(w)
  BY <1>6, LoadHolds
<1>7. ASSUME NEW p \in PP, LoadChild(w, p) \/ SaveChild(w, p) \/ MoveChild(w, p)
      PROVE  EditorHolds
  BY <1>7, LoadHolds, SaveRowsHold
<1> QED BY <1>1, <1>2, <1>3, <1>4, <1>5, <1>6, <1>7 DEF EditorStep

-----------------------------------------------------------------------------
(* The budget                                                              *)

\* An edit that leaves the row scheduled buys one more round.
LEMMA BoughtType ==
  ASSUME EditorsTypeOK, NEW p \in PP
  PROVE  /\ Bought(p) \in Nat
         /\ rearmed'[p] = rearmed[p] => Bought(p)' = Bought(p)
         /\ rearmed'[p] = rearmed[p] + 1 => Bought(p)' = Bought(p) + MAX_RETRIES + 1
<1>1. rearmed[p] \in Nat /\ MAX_RETRIES \in Nat
  BY DEF EditorsTypeOK
<1>2. \A m, n \in Nat : /\ (m + 1) * (1 + n) \in Nat
                        /\ (m + 1) * (1 + (n + 1)) = (m + 1) * (1 + n) + m + 1
  <2> SUFFICES ASSUME NEW m \in Nat, NEW n \in Nat
               PROVE  /\ (m + 1) * (1 + n) \in Nat
                      /\ (m + 1) * (1 + (n + 1)) = (m + 1) * (1 + n) + m + 1
    OBVIOUS
  <2> QED OBVIOUS
<1> QED BY <1>1, <1>2 DEF Bought

\* What a well-typed state counts.
LEMMA BudgetTypes ==
  ASSUME EditorsTypeOK, NEW e, Engines = {e}, NEW p \in PP
  PROVE  /\ row[p].retry \in Nat /\ thr[e][p].retry \in Nat
         /\ attempts[p] \in Nat /\ live[p] \in Nat /\ rearmed[p] \in Nat
         /\ spent.lost \in Nat /\ spent.db \in Nat
         /\ \A w \in Editors : req[w].inst[p].retry \in Nat
<1>1. e \in Engines /\ TypeOK
  BY DEF EditorsTypeOK
<1>2. row[p] \in Row /\ thr[e][p] \in Thread /\ attempts[p] \in Nat /\ live[p] \in Nat
      /\ spent.lost \in Nat /\ spent.db \in Nat
  BY <1>1, BookTypes
<1>3. rearmed[p] \in Nat /\ \A w \in Editors : req[w].inst[p] \in Row
  BY DEF EditorsTypeOK, Request
<1> QED BY <1>2, <1>3 DEF Row, Thread

\* So does the next one.
LEMMA NextBudgetTypes ==
  ASSUME EditorsTypeOK', NEW e, Engines = {e}, NEW p \in PP
  PROVE  /\ row'[p].retry \in Nat /\ thr'[e][p].retry \in Nat
         /\ attempts'[p] \in Nat /\ live'[p] \in Nat /\ rearmed'[p] \in Nat
         /\ spent'.lost \in Nat /\ spent'.db \in Nat
<1>1. e \in Engines /\ row' \in [PP -> Row] /\ thr' \in [Engines -> [PP -> Thread]]
      /\ spent' \in Faults
  BY DEF EditorsTypeOK, TypeOK
<1>2. row'[p] \in Row /\ thr'[e][p] \in Thread
  BY <1>1
<1>3. attempts'[p] \in Nat /\ live'[p] \in Nat /\ rearmed'[p] \in Nat
  BY DEF EditorsTypeOK, TypeOK
<1> QED BY <1>1, <1>2, <1>3 DEF Row, Thread, Faults

\* BudgetInv for one row and the only engine: the status st of the row and its count
\* k, the pc and the count n of the thread, a attempts and l copies, with b attempts
\* bought and x copies excused.
Within(st, k, pc, n, a, l, b, x) ==
  /\ k <= MAX_RETRIES /\ n <= MAX_RETRIES
  /\ st = "scheduled" =>
       LET c == IF pc = "call" THEN 1 ELSE 0 IN
       a + c + MAX_RETRIES + 1 - k <= b /\ l + c <= x
  /\ pc \in {"queued", "call"} => a + MAX_RETRIES + 1 - n <= b
  /\ pc \in {"saveOk", "logOk", "logErr", "saveErr"} => a + MAX_RETRIES - n <= b
  /\ pc \in {"queued", "call", "logErr", "saveErr"} => l <= x
  /\ a <= b /\ l <= 1 + x

BudgetFits(e, p) ==
  /\ Within(row[p].status, row[p].retry, thr[e][p].pc, thr[e][p].retry,
            attempts[p], live[p], Bought(p), Excused(p))
  /\ \A w \in Editors : req[w].inst[p].retry <= MAX_RETRIES

\* With one engine it says the same.
LEMMA BudgetOfOne ==
  ASSUME NEW e, Engines = {e}
  PROVE  BudgetInv <=> \A p \in PP : BudgetFits(e, p)
<1>1. \A p \in PP : Pending(p) = IF thr[e][p].pc = "call" THEN 1 ELSE 0
  BY DEF Pending
<1> QED BY <1>1 DEF BudgetInv, BudgetFits, Within, RetriesBounded, ScheduledIsPaid,
                    AttemptIsPaid

\* And so it does in the next state.
LEMMA PrimedBudgetOfOne ==
  ASSUME NEW e, Engines = {e}
  PROVE  BudgetInv' <=> \A p \in PP : BudgetFits(e, p)'
<1>1. \A p \in PP : Pending(p)' = IF thr'[e][p].pc = "call" THEN 1 ELSE 0
  BY DEF Pending
<1> QED BY <1>1 DEF BudgetInv, BudgetFits, Within, RetriesBounded, ScheduledIsPaid,
                    AttemptIsPaid

\* The steps of EngineRow, in numbers.
LEMMA EngineWithin ==
  ASSUME NEW st, NEW st1, NEW pc, NEW pc1, NEW k \in Nat, NEW k1 \in Nat,
         NEW n \in Nat, NEW n1 \in Nat, NEW a \in Nat, NEW a1 \in Nat,
         NEW l \in Nat, NEW l1 \in Nat, NEW b \in Nat, NEW x \in Nat, NEW y \in Nat,
         x <= y, Within(st, k, pc, n, a, l, b, x),
         \/ /\ st1 = st /\ k1 = k /\ a1 = a /\ l1 = l
            /\ \/ pc1 \notin InWork /\ (n1 = 0 \/ n1 = n)
               \/ pc1 = pc /\ n1 = n
         \/ /\ st = "scheduled" /\ n1 = k /\ k1 = k /\ a1 = a /\ l1 = l
            /\ \/ pc1 = "call" /\ st1 = "publishing"
               \/ pc1 = "queued" /\ st1 = "scheduled"
         \/ /\ pc = "queued" /\ pc1 = "call" /\ n1 = n
            /\ st1 = "publishing" /\ k1 = k /\ a1 = a /\ l1 = l
         \/ /\ pc = "call" /\ n1 = n /\ st1 = st /\ k1 = k /\ a1 = a + 1
            /\ \/ pc1 = "saveOk" /\ l1 = l + 1
               \/ pc1 = "logErr" /\ l1 = l
               \/ pc1 = "logErr" /\ l1 = l + 1 /\ x + 1 <= y
         \/ /\ pc = "saveOk" /\ pc1 = "logOk" /\ n1 = n
            /\ st1 = "published" /\ k1 = n /\ a1 = a /\ l1 = l
         \/ /\ st1 = st /\ k1 = k /\ a1 = a /\ l1 = l /\ n1 = n
            /\ \/ pc \in {"saveOk", "logOk"} /\ pc1 = "logErr" /\ x + 1 <= y
               \/ pc = "logErr" /\ pc1 = "saveErr"
         \/ /\ pc = "saveErr" /\ pc1 = "failure" /\ n1 = n /\ a1 = a /\ l1 = l
            /\ \/ st1 = "scheduled" /\ k1 = n + 1 /\ n < MAX_RETRIES
               \/ st1 = "failed" /\ k1 = n
  PROVE  Within(st1, k1, pc1, n1, a1, l1, b, y)
  BY DEF Within, InWork

\* A write of an editor, in numbers.
LEMMA EditorWithin ==
  ASSUME NEW st, NEW st1, NEW pc, NEW k \in Nat, NEW k1 \in Nat, NEW n \in Nat,
         NEW a \in Nat, NEW l \in Nat, NEW b \in Nat, NEW x \in Nat,
         Within(st, k, pc, n, a, l, b, x), k1 <= MAX_RETRIES
  PROVE  /\ Within(st1, k1, pc, n, a, l, b + MAX_RETRIES + 1, x + 1)
         /\ st1 # "scheduled" \/ (st = "scheduled" /\ k1 = k)
              => Within(st1, k1, pc, n, a, l, b, x)
  BY DEF Within

\* What is excused, as a number.
LEMMA ExcusedType ==
  ASSUME EditorsTypeOK, EditorsTypeOK', NEW e, Engines = {e}, NEW p \in PP,
         spent'.lost >= spent.lost, spent'.db >= spent.db
  PROVE  /\ Excused(p) \in Nat /\ Excused(p)' \in Nat
         /\ rearmed'[p] = rearmed[p] =>
              /\ Excused(p) <= Excused(p)'
              /\ spent'.lost = spent.lost + 1 \/ spent'.db = spent.db + 1
                   => Excused(p) + 1 <= Excused(p)'
         /\ rearmed'[p] = rearmed[p] + 1 /\ UNCHANGED spent
              => Excused(p)' = Excused(p) + 1
<1>1. PICK r, r1, o, o1, d, d1 :
        /\ r = rearmed[p] /\ o = spent.lost /\ d = spent.db
        /\ r1 = rearmed'[p] /\ o1 = spent'.lost /\ d1 = spent'.db
  OBVIOUS
<1>2. r \in Nat /\ o \in Nat /\ d \in Nat /\ r1 \in Nat /\ o1 \in Nat /\ d1 \in Nat
  BY <1>1, BudgetTypes, NextBudgetTypes
<1>3. Excused(p) = r + o + d /\ Excused(p)' = r1 + o1 + d1
  BY <1>1 DEF Excused
<1>4. o1 >= o /\ d1 >= d
  BY <1>1
<1>5. UNCHANGED spent => o1 = o /\ d1 = d
  BY <1>1
<1>6. PICK x, y : x = Excused(p) /\ y = Excused(p)'
  OBVIOUS
<1>7. /\ x \in Nat /\ y \in Nat
      /\ r1 = r => x <= y /\ (o1 = o + 1 \/ d1 = d + 1 => x + 1 <= y)
      /\ r1 = r + 1 /\ o1 = o /\ d1 = d => y = x + 1
  BY <1>2, <1>3, <1>4, <1>6
<1> QED BY <1>1, <1>5, <1>6, <1>7

\* A step of the engine keeps to the budget of a row.
LEMMA EngineBudget ==
  ASSUME EditorsTypeOK, EditorsTypeOK', NEW e, Engines = {e}, NEW p \in PP,
         BudgetFits(e, p), EngineRow(e, p), UNCHANGED editorVars
  PROVE  BudgetFits(e, p)'
<1>1. PICK st, st1, pc, pc1, k, k1, n, n1 :
        /\ st = row[p].status /\ st1 = row'[p].status
        /\ pc = thr[e][p].pc /\ pc1 = thr'[e][p].pc
        /\ k = row[p].retry /\ k1 = row'[p].retry
        /\ n = thr[e][p].retry /\ n1 = thr'[e][p].retry
  OBVIOUS
<1>2. PICK a, a1, l, l1, b, x, y :
        /\ a = attempts[p] /\ a1 = attempts'[p] /\ l = live[p] /\ l1 = live'[p]
        /\ b = Bought(p) /\ x = Excused(p) /\ y = Excused(p)'
  OBVIOUS
<1>3. k \in Nat /\ k1 \in Nat /\ n \in Nat /\ n1 \in Nat
  BY <1>1, BudgetTypes, NextBudgetTypes
<1>4. a \in Nat /\ a1 \in Nat /\ l \in Nat /\ l1 \in Nat
  BY <1>2, BudgetTypes, NextBudgetTypes
<1>5. b \in Nat /\ Bought(p)' = b
  BY <1>2, BoughtType DEF editorVars
<1>6. /\ x \in Nat /\ y \in Nat /\ x <= y
      /\ spent'.lost = spent.lost + 1 \/ spent'.db = spent.db + 1 => x + 1 <= y
  BY <1>2, ExcusedType DEF EngineRow, editorVars
<1>7. Within(st, k, pc, n, a, l, b, x)
  BY <1>1, <1>2 DEF BudgetFits
<1>8. Within(st1, k1, pc1, n1, a1, l1, b, y)
  <2>1. CASE RowStays(p) /\ ThreadRests(e, p)
    <3>1. /\ st1 = st /\ k1 = k /\ a1 = a /\ l1 = l
          /\ \/ pc1 \notin InWork /\ (n1 = 0 \/ n1 = n)
             \/ pc1 = pc /\ n1 = n
      BY <1>1, <1>2, <2>1 DEF RowStays, ThreadRests
    <3> QED BY <1>3, <1>4, <1>5, <1>6, <1>7, <3>1, EngineWithin
  <2>2. CASE IsTaken(e, p)
    <3>1. /\ st = "scheduled" /\ n1 = k /\ k1 = k /\ a1 = a /\ l1 = l
          /\ \/ pc1 = "call" /\ st1 = "publishing"
             \/ pc1 = "queued" /\ st1 = "scheduled"
      BY <1>1, <1>2, <2>2 DEF IsTaken
    <3> QED BY <1>3, <1>4, <1>5, <1>6, <1>7, <3>1, EngineWithin
  <2>3. CASE IsRetried(e, p)
    <3>1. /\ pc = "queued" /\ pc1 = "call" /\ n1 = n
          /\ st1 = "publishing" /\ k1 = k /\ a1 = a /\ l1 = l
      BY <1>1, <1>2, <2>3 DEF IsRetried, Holds
    <3> QED BY <1>3, <1>4, <1>5, <1>6, <1>7, <3>1, EngineWithin
  <2>4. CASE IsCalled(e, p)
    <3>1. /\ pc = "call" /\ n1 = n /\ st1 = st /\ k1 = k /\ a1 = a + 1
          /\ \/ pc1 = "saveOk" /\ l1 = l + 1
             \/ pc1 = "logErr" /\ l1 = l
             \/ pc1 = "logErr" /\ l1 = l + 1 /\ x + 1 <= y
      BY <1>1, <1>2, <2>4, <1>6 DEF IsCalled, Holds
    <3> QED BY <1>3, <1>4, <1>5, <1>6, <1>7, <3>1, EngineWithin
  <2>5. CASE IsPublished(e, p)
    <3>1. /\ pc = "saveOk" /\ pc1 = "logOk" /\ n1 = n
          /\ st1 = "published" /\ k1 = n /\ a1 = a /\ l1 = l
      BY <1>1, <1>2, <2>5 DEF IsPublished, Holds
    <3> QED BY <1>3, <1>4, <1>5, <1>6, <1>7, <3>1, EngineWithin
  <2>6. CASE IsRaised(e, p)
    <3>1. /\ st1 = st /\ k1 = k /\ a1 = a /\ l1 = l /\ n1 = n
          /\ \/ pc \in {"saveOk", "logOk"} /\ pc1 = "logErr" /\ x + 1 <= y
             \/ pc = "logErr" /\ pc1 = "saveErr"
      BY <1>1, <1>2, <2>6, <1>6 DEF IsRaised, Holds, RowStays
    <3> QED BY <1>3, <1>4, <1>5, <1>6, <1>7, <3>1, EngineWithin
  <2>7. CASE IsSettled(e, p)
    <3>1. /\ pc = "saveErr" /\ pc1 = "failure" /\ n1 = n /\ a1 = a /\ l1 = l
          /\ \/ st1 = "scheduled" /\ k1 = n + 1 /\ n < MAX_RETRIES
             \/ st1 = "failed" /\ k1 = n
      BY <1>1, <1>2, <2>7 DEF IsSettled, Holds
    <3> QED BY <1>3, <1>4, <1>5, <1>6, <1>7, <3>1, EngineWithin
  <2> QED BY <2>1, <2>2, <2>3, <2>4, <2>5, <2>6, <2>7 DEF EngineRow
<1>9. \A w \in Editors : req'[w].inst[p].retry <= MAX_RETRIES
  BY DEF BudgetFits, editorVars
<1> QED BY <1>1, <1>2, <1>5, <1>8, <1>9 DEF BudgetFits

\* A step of an editor pays for what it leaves scheduled.
LEMMA EditorBudget ==
  ASSUME EditorsTypeOK, EditorsTypeOK', NEW e, Engines = {e}, NEW p \in PP,
         BudgetFits(e, p), EditorRow(p)
  PROVE  BudgetFits(e, p)'
<1>1. PICK st, st1, pc, k, k1, n, a, l, b, x :
        /\ st = row[p].status /\ st1 = row'[p].status /\ pc = thr[e][p].pc
        /\ k = row[p].retry /\ k1 = row'[p].retry /\ n = thr[e][p].retry
        /\ a = attempts[p] /\ l = live[p] /\ b = Bought(p) /\ x = Excused(p)
  OBVIOUS
<1>2. k \in Nat /\ k1 \in Nat /\ n \in Nat /\ a \in Nat /\ l \in Nat
  BY <1>1, BudgetTypes, NextBudgetTypes
<1>3. UNCHANGED <<thr, attempts, live, spent>>
  BY DEF EditorRow
<1>4. spent'.lost >= spent.lost /\ spent'.db >= spent.db
  <2>1. PICK o, d : o = spent.lost /\ d = spent.db
    OBVIOUS
  <2>2. o \in Nat /\ d \in Nat
    BY <2>1, BudgetTypes
  <2>3. o >= o /\ d >= d
    BY <2>2
  <2> QED BY <1>3, <2>1, <2>3
<1>5. b \in Nat /\ x \in Nat
  BY <1>1, <1>4, BoughtType, ExcusedType
<1>6. Within(st, k, pc, n, a, l, b, x)
  BY <1>1 DEF BudgetFits
<1>7. \A w \in Editors : req'[w].inst[p].retry <= MAX_RETRIES
  <2> SUFFICES ASSUME NEW w \in Editors PROVE req'[w].inst[p].retry <= MAX_RETRIES
    OBVIOUS
  <2>1. req'[w].inst[p] \in {req[w].inst[p], row[p], Unloaded}
    BY DEF EditorRow, InstsKeep
  <2>2. req[w].inst[p].retry <= MAX_RETRIES /\ row[p].retry <= MAX_RETRIES
    BY <1>1, <1>6 DEF BudgetFits, Within
  <2> QED BY <2>1, <2>2 DEF Unloaded
<1>8. k1 <= MAX_RETRIES
  <2>1. \/ k1 = k
        \/ \E w \in Editors : k1 = req[w].inst[p].retry
    BY <1>1 DEF EditorRow
  <2> QED BY <1>6, <2>1 DEF BudgetFits, Within
<1>9. CASE rearmed'[p] = rearmed[p] + 1
  <2>1. Bought(p)' = b + MAX_RETRIES + 1 /\ Excused(p)' = x + 1
    BY <1>1, <1>3, <1>4, <1>9, BoughtType, ExcusedType
  <2>2. Within(st1, k1, pc, n, a, l, b + MAX_RETRIES + 1, x + 1)
    BY <1>2, <1>5, <1>6, <1>8, EditorWithin
  <2> QED BY <1>1, <1>3, <1>7, <2>1, <2>2 DEF BudgetFits
<1>10. CASE rearmed'[p] = rearmed[p]
  <2>1. Bought(p)' = b
    BY <1>1, <1>10, BoughtType
  <2>2. Excused(p)' = x
    BY <1>1, <1>3, <1>10 DEF Excused
  <2>3. st1 # "scheduled" \/ (st = "scheduled" /\ k1 = k)
    BY <1>1, <1>2, <1>10, BudgetTypes DEF EditorRow
  <2>4. Within(st1, k1, pc, n, a, l, b, x)
    BY <1>2, <1>5, <1>6, <1>8, <2>3, EditorWithin
  <2> QED BY <1>1, <1>3, <1>7, <2>1, <2>2, <2>4 DEF BudgetFits
<1> QED BY <1>9, <1>10 DEF EditorRow

-----------------------------------------------------------------------------
(* The edits are bounded                                                   *)

\* The engine and the editors together keep the types.
LEMMA EditorsNextTypeOK ==
  EditorsTypeOK /\ [EditorsNext]_<<vars, editorVars>> => EditorsTypeOK'
<1> SUFFICES ASSUME EditorsTypeOK, [EditorsNext]_<<vars, editorVars>>
             PROVE  EditorsTypeOK'
  OBVIOUS
<1>1. ASSUME [Next]_vars, UNCHANGED editorVars PROVE EditorsTypeOK'
  <2>1. TypeOK'
    BY <1>1, NextTypeOK DEF EditorsTypeOK
  <2> QED BY <1>1, <2>1 DEF EditorsTypeOK, editorVars
<1>2. ASSUME NEW w \in Editors, EditorStep(w) PROVE EditorsTypeOK'
  BY <1>2, EditorStepHolds DEF EditorHolds
<1>3. CASE UNCHANGED <<vars, editorVars>>
  <2>1. UNCHANGED vars /\ UNCHANGED editorVars
    BY <1>3
  <2> QED BY <1>1, <2>1
<1> QED BY <1>1, <1>2, <1>3 DEF EditorsNext

\* They begin with nothing edited.
LEMMA EditorsInitTypeOK == EditorsInit => EditorsTypeOK
<1> SUFFICES ASSUME EditorsInit PROVE EditorsTypeOK
  OBVIOUS
<1>1. TypeOK
  BY InitTypeOK DEF EditorsInit
<1>2. req \in [Editors -> Request]
  BY NoRequestType DEF EditorsInit
<1>3. begun \in [edits : 0 .. MaxEdits, saves : 0 .. MaxSaves] /\ rearmed \in [PP -> Nat]
  BY EditorsAssumption DEF EditorsInit
<1> QED BY <1>1, <1>2, <1>3 DEF EditorsTypeOK

\* At the beginning one round of attempts has been bought for every row.
LEMMA InitBudget ==
  ASSUME NEW e, Engines = {e}, EditorsInit
  PROVE  BudgetInv
<1>1. \A p \in PP : BudgetFits(e, p)
  <2> SUFFICES ASSUME NEW p \in PP PROVE BudgetFits(e, p)
    OBVIOUS
  <2>1. /\ row[p].status = "scheduled" /\ row[p].retry = 0
        /\ thr[e][p].pc = "idle" /\ thr[e][p].retry = 0
        /\ attempts[p] = 0 /\ live[p] = 0 /\ spent.lost = 0 /\ spent.db = 0
    BY DEF EditorsInit, Init, Idle
  <2>2. \A w \in Editors : req[w].inst[p].retry = 0
    BY NoRequestType DEF EditorsInit, Unloaded
  <2>3. rearmed[p] = 0
    BY DEF EditorsInit
  <2>4. Bought(p) = MAX_RETRIES + 1 /\ Excused(p) = 0
    BY <2>1, <2>3 DEF Bought, Excused
  <2>5. Within("scheduled", 0, "idle", 0, 0, 0, MAX_RETRIES + 1, 0)
    BY DEF Within
  <2> QED BY <2>1, <2>2, <2>4, <2>5 DEF BudgetFits
<1> QED BY <1>1, BudgetOfOne

\* Every step keeps to the budget.
LEMMA NextBudget ==
  ASSUME NEW e, Engines = {e}
  PROVE  EditorsTypeOK /\ BudgetInv /\ [EditorsNext]_<<vars, editorVars>> => BudgetInv'
<1> SUFFICES ASSUME EditorsTypeOK, BudgetInv, [EditorsNext]_<<vars, editorVars>>
             PROVE  BudgetInv'
  OBVIOUS
<1>1. EditorsTypeOK'
  BY EditorsNextTypeOK
<1>2. \A p \in PP : BudgetFits(e, p)
  BY BudgetOfOne
<1>3. CASE Next /\ UNCHANGED editorVars
  <2>1. \A p \in PP : EngineRow(e, p)
    BY <1>3, SystemRow DEF EditorsTypeOK
  <2>2. \A p \in PP : BudgetFits(e, p)'
    BY <1>1, <1>2, <1>3, <2>1, EngineBudget
  <2> QED BY <2>2, PrimedBudgetOfOne
<1>4. ASSUME NEW w \in Editors, EditorStep(w) PROVE BudgetInv'
  <2>1. \A p \in PP : EditorRow(p)
    BY <1>4, EditorStepHolds DEF EditorHolds
  <2>2. \A p \in PP : BudgetFits(e, p)'
    BY <1>1, <1>2, <2>1, EditorBudget
  <2> QED BY <2>2, PrimedBudgetOfOne
<1>5. CASE UNCHANGED <<vars, editorVars>>
  BY <1>5 DEF BudgetInv, RetriesBounded, ScheduledIsPaid, AttemptIsPaid, Pending, Bought,
              Excused, vars, editorVars, ghosts
<1> QED BY <1>3, <1>4, <1>5 DEF EditorsNext

\* The attempts on a row, and the copies of it, are paid for by what edits of it left
\* it scheduled: however old the copies a request writes back, an edit buys one round
\* of MAX_RETRIES + 1 attempts and one post, and nothing else does, but for a lost
\* answer or a failed statement.  For every number of rows, editors, edits and saves,
\* whatever crashes, with one worker.
THEOREM EditsAreBoundedWithOneEngine ==
  ASSUME NEW e, Engines = {e}
  PROVE  EditorsSpec => []EditsAreBounded
<1>1. EditorsInit => EditorsTypeOK /\ BudgetInv
  BY EditorsInitTypeOK, InitBudget
<1>2. EditorsTypeOK /\ BudgetInv /\ [EditorsNext]_<<vars, editorVars>>
        => (EditorsTypeOK /\ BudgetInv)'
  BY EditorsNextTypeOK, NextBudget
<1>3. EditorsTypeOK /\ BudgetInv => EditsAreBounded
  <2> SUFFICES ASSUME EditorsTypeOK, BudgetInv PROVE EditsAreBounded
    OBVIOUS
  <2>1. EditsBuyAttempts
    BY DEF BudgetInv, EditsBuyAttempts, Bought
  <2>2. ASSUME NEW p \in PP PROVE live[p] <= 1 + rearmed[p] + spent.lost + spent.db
    <3>1. PICK r, o, d : r = rearmed[p] /\ o = spent.lost /\ d = spent.db
      OBVIOUS
    <3>2. r \in Nat /\ o \in Nat /\ d \in Nat
      BY <3>1, BudgetTypes
    <3>3. 1 + (r + o + d) = 1 + r + o + d
      BY <3>2
    <3> QED BY <3>1, <3>3 DEF BudgetInv, Excused
  <2> QED BY <2>1, <2>2 DEF EditsAreBounded, EditsBuyPosts
<1> QED BY <1>1, <1>2, <1>3, PTL DEF EditorsSpec

-----------------------------------------------------------------------------
(* The edits are respected                                                 *)

\* A step of an editor moves its request, and only the statements of the composer's
\* save, of a transition and of a drag give a row another status.
RequestMoves(w) ==
  /\ req'[w] # req[w]
  /\ req'[w].pc \in {"rows", "children", "moving"} => req'[w].kind = "save"
  /\ \A v \in Editors : v # w => req'[v] = req[v]
  /\ req[w].kind # "patch" \/ \A p \in PP : row'[p].status = row[p].status

\* A request that begins.
LEMMA BeginMoves ==
  ASSUME EditorsTypeOK, NEW w \in Editors, NEW kind \in Edits, NEW q \in Posts,
         NEW R \in SUBSET PP, NEW t \in Times, Begin(w, kind, q, R, t)
  PROVE  RequestMoves(w)
<1>1. req[w].kind = "none" /\ UNCHANGED row
  BY DEF Begin, vars, tables
<1>2. PICK n : n = [NoRequest EXCEPT !.kind = kind, !.post = q, !.time = t, !.pc = "loaded",
                      !.psched = postSched[q], !.ppub = postPubAt[q]]
  OBVIOUS
<1>3. n \in Request /\ n.kind = kind /\ n.pc = "loaded"
  <2>1. postSched[q] \in Times /\ postPubAt[q] \in Times
    BY DEF EditorsTypeOK, TypeOK
  <2> QED BY <1>2, <2>1, NoRequestType DEF Request
<1>4. PICK l : l = Loaded(n, R)
  OBVIOUS
<1>5. l \in Request /\ l.kind = kind /\ l.pc = "loaded"
  BY <1>3, <1>4, LoadedHolds DEF EditorsTypeOK
<1>6. PICK u : u = [l EXCEPT !.todo = R]
  OBVIOUS
<1>7. u \in Request /\ u.kind = kind /\ u.pc = "loaded"
  BY <1>5, <1>6 DEF Request
<1>8. req' = [req EXCEPT ![w] = u]
  BY <1>2, <1>4, <1>6 DEF Begin
<1>9. req'[w] = u /\ \A v \in Editors : v # w => req'[v] = req[v]
  BY <1>8 DEF EditorsTypeOK
<1>10. kind # "none"
  BY DEF Edits
<1> QED BY <1>1, <1>7, <1>9, <1>10 DEF RequestMoves

\* A request that ends.
LEMMA DoneMoves ==
  ASSUME EditorsTypeOK, NEW w \in Editors, req' = [req EXCEPT ![w] = NoRequest],
         req[w].kind # "none" \/ req[w].pc # "none",
         req[w].kind # "patch" \/ \A p \in PP : row'[p].status = row[p].status
  PROVE  RequestMoves(w)
<1>1. req'[w] = NoRequest /\ \A v \in Editors : v # w => req'[v] = req[v]
  BY DEF EditorsTypeOK
<1>2. NoRequest.kind = "none" /\ NoRequest.pc = "none"
  BY DEF NoRequest
<1> QED BY <1>1, <1>2 DEF RequestMoves

\* A request that goes on to another statement.
LEMMA StatementMoves ==
  ASSUME EditorsTypeOK, SavesAreSaves, NEW w \in Editors, NEW u,
         req' = [req EXCEPT ![w] = u], u # req[w], u.kind = req[w].kind,
         \/ u.pc \notin {"rows", "children", "moving"}
         \/ req[w].pc \in {"rows", "children", "moving"}
         \/ req[w].kind = "save",
         req[w].kind # "patch" \/ \A p \in PP : row'[p].status = row[p].status
  PROVE  RequestMoves(w)
<1>1. req'[w] = u /\ \A v \in Editors : v # w => req'[v] = req[v]
  BY DEF EditorsTypeOK
<1> QED BY <1>1 DEF RequestMoves, SavesAreSaves

\* The statements that load or read.
LEMMA ReadsMove ==
  ASSUME EditorsTypeOK, SavesAreSaves, NEW w \in Editors,
         \/ ReadEarliest(w) \/ ListChildren(w) \/ \E p \in PP : LoadChild(w, p)
  PROVE  RequestMoves(w)
<1>1. PICK r : r = req[w]
  OBVIOUS
<1>2. TypeOK /\ r \in Request /\ PlatformPosts(r.post) \in SUBSET PP
  BY <1>1 DEF EditorsTypeOK, PlatformPosts
<1>3. UNCHANGED row
  BY DEF ReadEarliest, ListChildren, LoadChild, vars, tables
<1>4. CASE ReadEarliest(w)
  <2>1. PICK u : u = [r EXCEPT !.pc = "parent", !.earliest = Earliest(row, r.post)]
    OBVIOUS
  <2>2. req' = [req EXCEPT ![w] = u] /\ r.pc = "sync"
    BY <1>1, <1>4, <2>1 DEF ReadEarliest, EditorsTypeOK
  <2>3. u.pc = "parent" /\ u.kind = r.kind
    BY <1>2, <2>1 DEF Request
  <2> QED BY <1>1, <1>3, <2>2, <2>3, StatementMoves
<1>5. CASE ListChildren(w)
  <2>1. PICK R, l : R = PlatformPosts(r.post) /\ l = Loaded(r, R)
    OBVIOUS
  <2>2. l \in Request /\ l.kind = r.kind
    BY <1>2, <2>1, LoadedHolds
  <2>3. PICK u : u = [l EXCEPT !.pc = "moving", !.todo = R]
    OBVIOUS
  <2>4. req' = [req EXCEPT ![w] = u] /\ r.pc = "children"
    BY <1>1, <1>5, <2>1, <2>3 DEF ListChildren
  <2>5. u.pc = "moving" /\ u.kind = r.kind
    BY <2>2, <2>3 DEF Request
  <2> QED BY <1>1, <1>3, <2>4, <2>5, StatementMoves
<1>6. ASSUME NEW p \in PP, LoadChild(w, p) PROVE RequestMoves(w)
  <2>1. PICK l : l = Loaded(r, {p})
    OBVIOUS
  <2>2. l \in Request /\ l.kind = r.kind /\ l.pc = r.pc
    <3>1. {p} \in SUBSET PP
      OBVIOUS
    <3> QED BY <1>2, <2>1, <3>1, LoadedHolds
  <2>3. PICK u : u = [l EXCEPT !.held = {p}]
    OBVIOUS
  <2>4. req' = [req EXCEPT ![w] = u] /\ r.held = {} /\ r.pc = "rows"
    BY <1>1, <1>6, <2>1, <2>3 DEF LoadChild, EditorsTypeOK
  <2>5. u.held = {p} /\ u.kind = r.kind
    BY <2>2, <2>3 DEF Request
  <2> QED BY <1>1, <1>3, <2>4, <2>5, StatementMoves
<1> QED BY <1>4, <1>5, <1>6

\* The statements of a composer's save that write.
LEMMA SavesMove ==
  ASSUME EditorsTypeOK, SavesAreSaves, NEW w \in Editors,
         \/ SavePost(w) \/ EndSaveDraft(w) \/ Propagate(w)
         \/ \E p \in PP : SaveChild(w, p) \/ MoveChild(w, p)
  PROVE  RequestMoves(w)
<1>1. PICK r : r = req[w]
  OBVIOUS
<1>2. r \in Request
  BY <1>1 DEF EditorsTypeOK
<1>3. r.kind = "save"
  BY <1>1 DEF SavePost, EndSaveDraft, Propagate, SaveChild, MoveChild, RowsSynced,
              SavesAreSaves
<1>4. CASE SavePost(w)
  <2>1. PICK u : u = [r EXCEPT !.pc = "rows", !.todo = PlatformPosts(r.post)]
    OBVIOUS
  <2>2. req' = [req EXCEPT ![w] = u] /\ r.pc = "loaded"
    BY <1>1, <1>4, <2>1 DEF SavePost, EditorsTypeOK
  <2>3. u.pc = "rows" /\ u.kind = r.kind
    BY <1>2, <2>1 DEF Request
  <2> QED BY <1>1, <1>3, <2>2, <2>3, StatementMoves
<1>5. CASE EndSaveDraft(w)
  BY <1>1, <1>3, <1>5, DoneMoves DEF EndSaveDraft, Done
<1>6. CASE Propagate(w)
  <2>1. PICK u : u = [r EXCEPT !.pc = "children"]
    OBVIOUS
  <2>2. req' = [req EXCEPT ![w] = u] /\ r.pc = "rows"
    BY <1>1, <1>6, <2>1 DEF Propagate, RowsSynced, EditorsTypeOK
  <2>3. u.pc = "children" /\ u.kind = r.kind
    BY <1>2, <2>1 DEF Request
  <2> QED BY <1>1, <1>3, <2>2, <2>3, StatementMoves
<1>7. ASSUME NEW p \in PP, SaveChild(w, p) PROVE RequestMoves(w)
  <2>1. PICK u : u = [r EXCEPT !.held = {}, !.todo = @ \ {p}]
    OBVIOUS
  <2>2. req' = [req EXCEPT ![w] = u] /\ p \in r.held
    BY <1>1, <1>7, <2>1 DEF SaveChild, EditorsTypeOK
  <2>3. u.held = {} /\ u.kind = r.kind
    BY <1>2, <2>1 DEF Request
  <2> QED BY <1>1, <1>3, <2>2, <2>3, StatementMoves
<1>8. ASSUME NEW p \in PP, MoveChild(w, p) PROVE RequestMoves(w)
  <2>1. PICK u : u = [r EXCEPT !.todo = @ \ {p}]
    OBVIOUS
  <2>2. p \in r.todo /\ u.todo = r.todo \ {p} /\ u.kind = r.kind
    BY <1>1, <1>2, <1>8, <2>1 DEF MoveChild, Request
  <2>3. req' = [req EXCEPT ![w] = NoRequest] \/ req' = [req EXCEPT ![w] = u]
    BY <1>1, <1>8, <2>1 DEF MoveChild
  <2>4. u # r
    BY <2>2
  <2>5. CASE req' = [req EXCEPT ![w] = NoRequest]
    BY <1>1, <1>3, <2>5, DoneMoves
  <2>6. CASE req' = [req EXCEPT ![w] = u]
    BY <1>1, <1>3, <2>2, <2>4, <2>6, StatementMoves
  <2> QED BY <2>3, <2>5, <2>6
<1> QED BY <1>4, <1>5, <1>6, <1>7, <1>8

\* The commits of the REST routes, and the drag.
LEMMA CommitsMove ==
  ASSUME EditorsTypeOK, SavesAreSaves, NEW w \in Editors,
         \/ CommitPatch(w) \/ CommitTransitions(w) \/ SaveDragged(w) \/ SaveParentSched(w)
  PROVE  RequestMoves(w)
<1>1. PICK r : r = req[w]
  OBVIOUS
<1>2. r \in Request /\ row \in [PP -> Row]
  BY <1>1 DEF EditorsTypeOK, TypeOK
<1>3. CASE CommitPatch(w)
  <2>1. PICK S : row' = [p \in PP |-> IF p \in S THEN [row[p] EXCEPT !.sched = r.time]
                                     ELSE row[p]]
    BY <1>1, <1>3 DEF CommitPatch
  <2>2. ASSUME NEW p \in PP PROVE row'[p].status = row[p].status
    <3>1. row'[p] = row[p] \/ row'[p] = [row[p] EXCEPT !.sched = r.time]
      BY <2>1
    <3> QED BY <1>2, <3>1 DEF Row
  <2>3. req' = [req EXCEPT ![w] = NoRequest] /\ req[w].kind = "patch"
    BY <1>3 DEF CommitPatch, Done
  <2> QED BY <2>2, <2>3, DoneMoves
<1>4. CASE CommitTransitions(w)
  <2>1. req' = [req EXCEPT ![w] = NoRequest] /\ req[w].kind \in {"cancel", "schedule"}
    BY <1>4 DEF CommitTransitions, Done
  <2> QED BY <2>1, DoneMoves
<1>5. CASE SaveDragged(w)
  <2>1. PICK u : u = [r EXCEPT !.pc = "sync"]
    OBVIOUS
  <2>2. req' = [req EXCEPT ![w] = u] /\ r.pc = "loaded" /\ r.kind = "drag"
    BY <1>1, <1>5, <2>1 DEF SaveDragged, EditorsTypeOK
  <2>3. u.pc = "sync" /\ u.kind = r.kind
    BY <1>2, <2>1 DEF Request
  <2> QED BY <1>1, <2>2, <2>3, StatementMoves
<1>6. CASE SaveParentSched(w)
  <2>1. req' = [req EXCEPT ![w] = NoRequest] /\ req[w].pc = "parent" /\ UNCHANGED row
    BY <1>6 DEF SaveParentSched, Done
  <2> QED BY <2>1, DoneMoves
<1> QED BY <1>3, <1>4, <1>5, <1>6

\* Every step of an editor.
LEMMA EditorMoves ==
  ASSUME EditorsTypeOK, SavesAreSaves, NEW w \in Editors, EditorStep(w)
  PROVE  RequestMoves(w)
<1>1. CASE \E q \in Posts :
             \/ BeginCancel(w, q)
             \/ \E t \in Times : BeginPatch(w, q, t) \/ BeginSchedule(w, q, t) \/ BeginSave(w, q, t)
  <2>1. PICK q \in Posts :
             \/ BeginCancel(w, q)
             \/ \E t \in Times : BeginPatch(w, q, t) \/ BeginSchedule(w, q, t) \/ BeginSave(w, q, t)
    BY <1>1
  <2>2. CASE BeginCancel(w, q)
    <3>1. ChildrenIn(q, "scheduled") \in SUBSET PP /\ 0 \in Times
      BY DEF ChildrenIn, PlatformPosts, Times
    <3> QED BY <2>2, <3>1, BeginMoves DEF BeginCancel, Edits
  <2>3. ASSUME NEW t \in Times,
               BeginPatch(w, q, t) \/ BeginSchedule(w, q, t) \/ BeginSave(w, q, t)
        PROVE  RequestMoves(w)
    <3>1. PlatformPosts(q) \in SUBSET PP /\ ChildrenIn(q, "draft") \in SUBSET PP
          /\ {} \in SUBSET PP
      BY DEF ChildrenIn, PlatformPosts
    <3> QED BY <2>3, <3>1, BeginMoves DEF BeginPatch, BeginSchedule, BeginSave, Edits
  <2> QED BY <2>1, <2>2, <2>3
<1>2. ASSUME NEW p \in PP, NEW t \in Times, BeginDrag(w, p, t) PROVE RequestMoves(w)
  <2>1. ParentOf[p] \in Posts /\ {p} \in SUBSET PP
    OBVIOUS
  <2> QED BY <1>2, <2>1, BeginMoves DEF BeginDrag, Edits
<1>3. CASE CommitPatch(w) \/ CommitTransitions(w) \/ SaveDragged(w) \/ SaveParentSched(w)
  BY <1>3, CommitsMove
<1>4. CASE ReadEarliest(w) \/ ListChildren(w)
  BY <1>4, ReadsMove
<1>5. CASE SavePost(w) \/ EndSaveDraft(w) \/ Propagate(w)
  BY <1>5, SavesMove
<1>6. ASSUME NEW p \in PP, LoadChild(w, p) \/ SaveChild(w, p) \/ MoveChild(w, p)
      PROVE  RequestMoves(w)
  BY <1>6, ReadsMove, SavesMove
<1> QED BY <1>1, <1>2, <1>3, <1>4, <1>5, <1>6 DEF EditorStep

\* RespectInv for one row and the only engine.
TriedFits(e, p) ==
  \/ row[p].retry > 0 \/ thr[e][p].retry > 0
  \/ thr[e][p].pc \in {"queued", "saveOk", "logOk", "logErr", "saveErr"}
  \/ \E w \in Editors : req[w].inst[p].retry > 0
  => attempts[p] > 0

LeftFits(e, p) ==
  /\ rearmed[p] = 0 /\ spent.db = 0
  /\ row[p].status = "published" \/ \E w \in Editors : req[w].inst[p].status = "published"
  => /\ row[p].status # "scheduled"
     /\ thr[e][p].pc \notin {"queued", "call", "saveOk", "logErr", "saveErr"}

\* With one engine it says the same, now and in the next state.
LEMMA RespectOfOne ==
  ASSUME NEW e, Engines = {e}
  PROVE  /\ RespectInv <=> SavesAreSaves /\ \A p \in PP : TriedFits(e, p) /\ LeftFits(e, p)
         /\ RespectInv' <=>
              SavesAreSaves' /\ \A p \in PP : TriedFits(e, p)' /\ LeftFits(e, p)'
  BY DEF RespectInv, RetryWasTried, PublishedIsLeft, TriedFits, LeftFits

\* A step of the engine counts an attempt before it counts a retry.
LEMMA EngineTried ==
  ASSUME EditorsTypeOK, EditorsTypeOK', NEW e, Engines = {e}, NEW p \in PP,
         TriedFits(e, p), EngineRow(e, p), UNCHANGED editorVars
  PROVE  TriedFits(e, p)'
<1>1. PICK k, k1, n, n1, a, a1 :
        /\ k = row[p].retry /\ k1 = row'[p].retry
        /\ n = thr[e][p].retry /\ n1 = thr'[e][p].retry
        /\ a = attempts[p] /\ a1 = attempts'[p]
  OBVIOUS
<1>2. k \in Nat /\ k1 \in Nat /\ n \in Nat /\ n1 \in Nat /\ a \in Nat /\ a1 \in Nat
  BY <1>1, BudgetTypes, NextBudgetTypes
<1>3. a1 = a \/ a1 = a + 1
  BY <1>1 DEF EngineRow, RowStays, IsTaken, IsRetried, IsCalled, IsPublished, IsRaised,
              IsSettled
<1>4. (a > 0 => a1 > 0) /\ (a1 = a + 1 => a1 > 0)
  BY <1>2, <1>3
<1>5. UNCHANGED req
  BY DEF editorVars
<1>6. ~(0 > 0)
  OBVIOUS
<1> USE DEF TriedFits
<1>7. CASE RowStays(p) /\ ThreadRests(e, p)
  BY <1>1, <1>4, <1>5, <1>6, <1>7 DEF RowStays, ThreadRests, InWork
<1>8. CASE IsTaken(e, p)
  BY <1>1, <1>4, <1>5, <1>8 DEF IsTaken
<1>9. CASE IsRetried(e, p)
  BY <1>1, <1>4, <1>5, <1>9 DEF IsRetried, Holds
<1>10. CASE IsCalled(e, p)
  BY <1>1, <1>4, <1>10 DEF IsCalled
<1>11. CASE IsPublished(e, p)
  BY <1>1, <1>4, <1>11 DEF IsPublished, Holds
<1>12. CASE IsRaised(e, p)
  BY <1>1, <1>4, <1>12 DEF IsRaised, RowStays, Holds
<1>13. CASE IsSettled(e, p)
  BY <1>1, <1>4, <1>13 DEF IsSettled, Holds
<1> QED BY <1>7, <1>8, <1>9, <1>10, <1>11, <1>12, <1>13 DEF EngineRow

\* An edit that puts an old retry_count back has read it from the row.
LEMMA EditorTried ==
  ASSUME NEW e, Engines = {e}, NEW p \in PP, TriedFits(e, p), EditorRow(p)
  PROVE  TriedFits(e, p)'
<1>1. UNCHANGED thr /\ attempts'[p] = attempts[p]
  BY DEF EditorRow
<1>2. \A w \in Editors : \/ req'[w].inst[p] \in {req[w].inst[p], row[p]}
                         \/ req'[w].inst[p] = Unloaded /\ Unloaded.retry = 0
  BY DEF EditorRow, InstsKeep, Unloaded
<1>3. \/ row'[p].retry = row[p].retry
      \/ \E v \in Editors : row'[p].retry = req[v].inst[p].retry
  BY DEF EditorRow
<1>4. ~(0 > 0)
  OBVIOUS
<1>5. ASSUME NEW w \in Editors, req'[w].inst[p].retry > 0
      PROVE  row[p].retry > 0 \/ \E v \in Editors : req[v].inst[p].retry > 0
  BY <1>2, <1>4, <1>5
<1>6. row'[p].retry > 0
        => row[p].retry > 0 \/ \E v \in Editors : req[v].inst[p].retry > 0
  BY <1>3
<1> QED BY <1>1, <1>5, <1>6 DEF TriedFits

\* The engine leaves a published row alone.
LEMMA EngineLeft ==
  ASSUME EditorsTypeOK, EditorsTypeOK', NEW e, Engines = {e}, NEW p \in PP,
         LeftFits(e, p), EngineRow(e, p), UNCHANGED editorVars
  PROVE  LeftFits(e, p)'
<1>1. PICK d, d1 : d = spent.db /\ d1 = spent'.db
  OBVIOUS
<1>2. d \in Nat /\ d1 \in Nat /\ d1 >= d
  BY <1>1, BudgetTypes, NextBudgetTypes DEF EngineRow
<1>3. (d1 = 0 => d = 0) /\ (d1 = d + 1 => d1 # 0)
  BY <1>2
<1>4. UNCHANGED req /\ rearmed'[p] = rearmed[p]
  BY DEF editorVars
<1> SUFFICES ASSUME rearmed'[p] = 0, d1 = 0,
                    \/ row'[p].status = "published"
                    \/ \E w \in Editors : req'[w].inst[p].status = "published"
             PROVE  /\ row'[p].status # "scheduled"
                    /\ thr'[e][p].pc \notin {"queued", "call", "saveOk", "logErr", "saveErr"}
  BY <1>1 DEF LeftFits
<1>5. \/ row[p].status = "published"
      \/ \E w \in Editors : req[w].inst[p].status = "published"
      => /\ row[p].status # "scheduled"
         /\ thr[e][p].pc \notin {"queued", "call", "saveOk", "logErr", "saveErr"}
  BY <1>1, <1>3, <1>4 DEF LeftFits
<1>6. CASE RowStays(p) /\ ThreadRests(e, p)
  BY <1>4, <1>5, <1>6 DEF RowStays, ThreadRests, InWork
<1>7. CASE IsTaken(e, p)
  BY <1>4, <1>5, <1>7 DEF IsTaken
<1>8. CASE IsRetried(e, p)
  BY <1>4, <1>5, <1>8 DEF IsRetried, Holds
<1>9. CASE IsCalled(e, p)
  BY <1>4, <1>5, <1>9 DEF IsCalled, Holds
<1>10. CASE IsPublished(e, p)
  BY <1>10 DEF IsPublished, Holds
<1>11. CASE IsRaised(e, p)
  BY <1>1, <1>3, <1>4, <1>5, <1>11 DEF IsRaised, RowStays, Holds
<1>12. CASE IsSettled(e, p)
  BY <1>4, <1>5, <1>12 DEF IsSettled, Holds
<1> QED BY <1>6, <1>7, <1>8, <1>9, <1>10, <1>11, <1>12 DEF EngineRow

\* An edit that does not count leaves a row that was published unscheduled.
LEMMA EditorLeft ==
  ASSUME EditorsTypeOK, NEW e, Engines = {e}, NEW p \in PP, LeftFits(e, p), EditorRow(p)
  PROVE  LeftFits(e, p)'
<1>1. UNCHANGED thr /\ UNCHANGED spent
  BY DEF EditorRow
<1>2. \A w \in Editors : \/ req'[w].inst[p] \in {req[w].inst[p], row[p]}
                         \/ req'[w].inst[p].status = "draft"
  BY DEF EditorRow, InstsKeep, Unloaded
<1>3. CASE rearmed'[p] = rearmed[p] + 1
  <2>1. PICK r, r1 : r = rearmed[p] /\ r1 = rearmed'[p]
    OBVIOUS
  <2>2. r \in Nat /\ r1 = r + 1
    BY <1>3, <2>1, BudgetTypes
  <2>3. r1 # 0
    BY <2>2
  <2> QED BY <2>1, <2>3 DEF LeftFits
<1>4. CASE /\ rearmed'[p] = rearmed[p]
           /\ row'[p].status = "scheduled" => row[p].status = "scheduled"
  <2>1. row'[p].status = "published" =>
          \/ row[p].status = "published"
          \/ \E w \in Editors : req[w].inst[p].status = "published"
    BY DEF EditorRow
  <2>2. ASSUME NEW w \in Editors, req'[w].inst[p].status = "published"
        PROVE  \/ row[p].status = "published"
               \/ \E v \in Editors : req[v].inst[p].status = "published"
    BY <1>2, <2>2
  <2> QED BY <1>1, <1>4, <2>1, <2>2 DEF LeftFits
<1> QED BY <1>3, <1>4 DEF EditorRow

\* At the beginning nothing has been tried, loaded or published.
LEMMA InitRespect ==
  ASSUME NEW e, Engines = {e}, EditorsInit
  PROVE  RespectInv
<1>1. SavesAreSaves
  BY DEF EditorsInit, NoRequest, SavesAreSaves
<1>2. ASSUME NEW p \in PP PROVE TriedFits(e, p) /\ LeftFits(e, p)
  <2>1. /\ row[p].status = "scheduled" /\ row[p].retry = 0
        /\ thr[e][p].pc = "idle" /\ thr[e][p].retry = 0
    BY DEF EditorsInit, Init, Idle
  <2>2. \A w \in Editors : req[w].inst[p].retry = 0 /\ req[w].inst[p].status = "draft"
    BY NoRequestType DEF EditorsInit, Unloaded
  <2>3. ~(0 > 0)
    OBVIOUS
  <2> QED BY <2>1, <2>2, <2>3 DEF TriedFits, LeftFits
<1> QED BY <1>1, <1>2, RespectOfOne

\* Every step keeps RespectInv.
LEMMA NextRespect ==
  ASSUME NEW e, Engines = {e}
  PROVE  EditorsTypeOK /\ RespectInv /\ [EditorsNext]_<<vars, editorVars>> => RespectInv'
<1> SUFFICES ASSUME EditorsTypeOK, RespectInv, [EditorsNext]_<<vars, editorVars>>
             PROVE  RespectInv'
  OBVIOUS
<1>1. EditorsTypeOK'
  BY EditorsNextTypeOK
<1>2. SavesAreSaves /\ \A p \in PP : TriedFits(e, p) /\ LeftFits(e, p)
  BY RespectOfOne
<1>3. CASE Next /\ UNCHANGED editorVars
  <2>1. \A p \in PP : EngineRow(e, p)
    BY <1>3, SystemRow DEF EditorsTypeOK
  <2>2. \A p \in PP : TriedFits(e, p)' /\ LeftFits(e, p)'
    BY <1>1, <1>2, <1>3, <2>1, EngineTried, EngineLeft
  <2>3. SavesAreSaves'
    BY <1>2, <1>3 DEF SavesAreSaves, editorVars
  <2> QED BY <2>2, <2>3, RespectOfOne
<1>4. ASSUME NEW w \in Editors, EditorStep(w) PROVE RespectInv'
  <2>1. \A p \in PP : EditorRow(p)
    BY <1>4, EditorStepHolds DEF EditorHolds
  <2>2. \A p \in PP : TriedFits(e, p)' /\ LeftFits(e, p)'
    BY <1>2, <2>1, EditorTried, EditorLeft
  <2>3. SavesAreSaves'
    <3>1. RequestMoves(w)
      BY <1>2, <1>4, EditorMoves
    <3> QED BY <1>2, <3>1 DEF RequestMoves, SavesAreSaves
  <2> QED BY <2>2, <2>3, RespectOfOne
<1>5. CASE UNCHANGED <<vars, editorVars>>
  <2>1. UNCHANGED <<row, thr, attempts, spent, req, rearmed>>
    BY <1>5 DEF vars, editorVars, ghosts, tables
  <2> QED BY <2>1 DEF RespectInv, RetryWasTried, PublishedIsLeft, SavesAreSaves
<1> QED BY <1>3, <1>4, <1>5 DEF EditorsNext

\* A cancellation committed before the first attempt of a row is honoured, and a row
\* that is published stays so, unless an edit saves a copy of it, has left it
\* scheduled before, or a statement failed.  For every number of rows, editors, edits
\* and saves, whatever crashes, with one worker.
THEOREM EditsAreRespectedWithOneEngine ==
  ASSUME NEW e, Engines = {e}
  PROVE  EditorsSpec => EditsAreRespected
<1>1. EditorsInit => EditorsTypeOK /\ RespectInv
  BY EditorsInitTypeOK, InitRespect
<1>2. EditorsTypeOK /\ RespectInv /\ [EditorsNext]_<<vars, editorVars>>
        => (EditorsTypeOK /\ RespectInv)'
  BY EditorsNextTypeOK, NextRespect
<1> DEFINE Honoured == req' = req => \A p \in PP :
                         row[p].status = "draft" /\ attempts[p] = 0
                           => row'[p].status # "publishing"
           Reopened == \A p \in PP : row[p].status = "published" /\ row'[p].status # "published" =>
                         \/ \E w \in Editors : req'[w] # req[w] /\ req[w].kind # "patch"
                         \/ rearmed[p] > 0 \/ spent.db > 0
<1>3. EditorsTypeOK /\ RespectInv /\ [EditorsNext]_<<vars, editorVars>>
        => [Honoured]_<<vars, editorVars>> /\ [Reopened]_<<vars, editorVars>>
  <2> SUFFICES ASSUME EditorsTypeOK, RespectInv, EditorsNext
               PROVE  Honoured /\ Reopened
    OBVIOUS
  <2>1. SavesAreSaves /\ \A p \in PP : TriedFits(e, p) /\ LeftFits(e, p)
    BY RespectOfOne
  <2>2. ASSUME NEW w \in Editors, EditorStep(w) PROVE Honoured /\ Reopened
    <3>1. RequestMoves(w)
      BY <2>1, <2>2, EditorMoves
    <3> QED BY <3>1 DEF RequestMoves
  <2>3. ASSUME Next PROVE Honoured /\ Reopened
    <3> SUFFICES ASSUME NEW p \in PP
                 PROVE  /\ row[p].status = "draft" /\ attempts[p] = 0
                             => row'[p].status # "publishing"
                        /\ row[p].status = "published" /\ row'[p].status # "published"
                             => rearmed[p] > 0 \/ spent.db > 0
      OBVIOUS
    <3>1. EngineRow(e, p)
      BY <2>3, SystemRow DEF EditorsTypeOK
    <3>2. attempts[p] = 0 => thr[e][p].pc \notin {"queued", "saveOk", "logOk"}
      <4>1. ~(0 > 0)
        OBVIOUS
      <4> QED BY <2>1, <4>1 DEF TriedFits
    <3>3. \/ rearmed[p] > 0 \/ spent.db > 0
          \/ rearmed[p] = 0 /\ spent.db = 0
      <4>1. PICK r, d : r = rearmed[p] /\ d = spent.db
        OBVIOUS
      <4>2. r \in Nat /\ d \in Nat
        BY <4>1, BudgetTypes
      <4>3. r > 0 \/ d > 0 \/ (r = 0 /\ d = 0)
        BY <4>2
      <4> QED BY <4>1, <4>3
    <3>4. row[p].status = "published" =>
            \/ rearmed[p] > 0 \/ spent.db > 0
            \/ thr[e][p].pc \notin {"queued", "call", "saveOk", "logErr", "saveErr"}
      BY <2>1, <3>3 DEF LeftFits
    <3>5. \/ row'[p].status = row[p].status
          \/ row[p].status = "scheduled"
          \/ thr[e][p].pc = "queued"
          \/ row'[p].status = "published"
          \/ thr[e][p].pc = "saveErr" /\ row'[p].status # "publishing"
      BY <3>1 DEF EngineRow, RowStays, IsTaken, IsRetried, IsCalled, IsPublished,
                  IsRaised, IsSettled, Holds
    <3> QED BY <3>2, <3>4, <3>5
  <2> QED BY <2>2, <2>3 DEF EditorsNext
<1>4. EditsAreRespected <=> [][Honoured]_<<vars, editorVars>> /\ [][Reopened]_<<vars, editorVars>>
  BY DEF EditsAreRespected, CancelledIsNotClaimed, OnlySavedCopiesReopen
<1> QED BY <1>1, <1>2, <1>3, <1>4, PTL DEF EditorsSpec
=============================================================================
