------------------------------ MODULE AgentApi ------------------------------
(***************************************************************************)
(* The writing half of the Agent API: the routes that create posts and     *)
(* media under an idempotency key, the routes and MCP tools that do so     *)
(* without one or that promote a draft, the quota they consult and the     *)
(* hourly sweep of old idempotency records.  Requests run at the same time *)
(* in the threads of the web server and meet only in the database, where   *)
(* every statement, and every transaction at its commit, is one step.      *)
(*                                                                         *)
(* There is no clock: records, items and requests carry their age in       *)
(* ticks, and an age stops at OLD, past which nothing looks at it.         *)
(***************************************************************************)
EXTENDS FiniteSets, Integers

CONSTANTS Workers,      \* request threads of the web server
          Keys,         \* (api_key, key) pairs the requests come with, and
          NoKey,        \* NoKey, if it is one of them, for requests without a key
          Bodies,       \* fingerprints: method, path and body of a request
          KindOf,       \* what a body asks for
          Items,        \* posts and media assets; bound on those ever created
          NoItem, NoBody,
          LIMIT,        \* resolve_platform_limit of the one account
          TTL,          \* IDEMPOTENCY_RECORD_TTL_HOURS, in ticks
          WINDOW,       \* window_hours of the quota, in ticks
          TIMEOUT,      \* the longest a request may live, in ticks
          MaxStatementFaults,    \* bound: failing statements
          MaxServerDeaths    \* bound: web server processes that die

ASSUME AgentApiAssumption ==
  /\ NoItem \notin Items /\ NoBody \notin Bodies
  /\ IsFiniteSet(Items \union Workers) /\ Workers # {}
  /\ LIMIT \in Nat /\ TTL \in Nat /\ WINDOW \in Nat /\ MaxStatementFaults \in Nat /\ MaxServerDeaths \in Nat
  /\ TIMEOUT \in 0 .. TTL

VARIABLES record,   \* the IdempotencyRecord of each key
          item,     \* the rows of PlatformPost and MediaAsset
          req,      \* the request in each thread, or the last answer it gave
          failures, crashes

ApiVars == <<record, item, req, failures, crashes>>

-----------------------------------------------------------------------------

OLD == IF TTL > WINDOW THEN TTL + 1 ELSE WINDOW + 1
Ages == 0 .. OLD

QUOTA_CONSUMING_STATUSES == {"scheduled", "published", "failed"}

\* The statements of a request that has claimed its key, if it has one.
Claimed == {"folder", "quota", "create", "finalize", "release"}

\* record has a row for every real key; NoKey has none.
RealKeys == Keys \ {NoKey}

Record == [status : {"absent", "pending", "done"}, body : Bodies \union {NoBody},
           item : Items \union {NoItem}, age : Ages]

\* touched: age of updated_at; admitted: age since the API last scheduled it.
Item == [status : {"unused", "media", "draft"} \union QUOTA_CONSUMING_STATUSES,
         key : Keys \union {NoKey}, body : Bodies \union {NoBody},
         created : Ages, touched : Ages, admitted : Ages]

\* An idle thread keeps the item of its last answer, if that was a 201; an error
\* leaves nothing behind.
Request == [pc : {"idle", "claim", "fetch", "promote"} \union Claimed,
            key : Keys \union {NoKey}, body : Bodies \union {NoBody},
            item : Items \union {NoItem}, age : Ages]

ApiTypeOK ==
  /\ record \in [RealKeys -> Record] /\ item \in [Items -> Item] /\ req \in [Workers -> Request]
  /\ failures \in 0 .. MaxStatementFaults /\ crashes \in 0 .. MaxServerDeaths

NoRecord == [status |-> "absent", body |-> NoBody, item |-> NoItem, age |-> 0]
NoCall == [pc |-> "idle", key |-> NoKey, body |-> NoBody, item |-> NoItem, age |-> 0]

ApiInit ==
  /\ record = [k \in RealKeys |-> NoRecord]
  /\ item = [i \in Items |-> [status |-> "unused", key |-> NoKey, body |-> NoBody,
                              created |-> 0, touched |-> 0, admitted |-> 0]]
  /\ req = [w \in Workers |-> NoCall]
  /\ failures = 0 /\ crashes = 0

-----------------------------------------------------------------------------

Live(w) == req[w].pc # "idle"

\* A request that is going to finalize or to release the record of k.
Owns(w, k) == req[w].key = k /\ req[w].pc \in Claimed

\* Thread w moves to statement pc, answers 201 with item i, or answers with another
\* code, which no later step looks at.
Onward(w, pc) == req' = [req EXCEPT ![w].pc = pc]
Created(w, i) == req' = [req EXCEPT ![w] = [@ EXCEPT !.pc = "idle", !.item = i, !.age = 0]]
Answer(w, code) == req' = [req EXCEPT ![w] = NoCall]

\* An error inside the try: the record is released, then code is answered.
Fail(w, code) == Onward(w, "release")

StatementFails == failures < MaxStatementFaults /\ failures' = failures + 1
NoFault == UNCHANGED failures

\* The first statement after the claim.
Work(body) == CASE KindOf[body] = "schedule" -> "quota"
                [] KindOf[body] = "upload_to_folder" -> "folder"
                [] OTHER -> "create"

\* The posts router has everything after the quota inside its try; the media router
\* only create_asset.
AllInsideTry(body) == KindOf[body] \in {"draft", "schedule"}

\* Threads without a key never touch the records.
SetRecord(k, r) == record' = IF k = NoKey THEN record ELSE [record EXCEPT ![k] = r]

\* Items made so far and room for those the live requests may still make.
Unused == {i \in Items : item[i].status = "unused"}
Room == Cardinality(Unused) > Cardinality({w \in Workers : Live(w)})

\* POST /posts/, POST /media/, and the MCP tools create_draft, schedule_post and
\* upload_media, which take no key.
Arrive(w, k, b) ==
  /\ ~Live(w) /\ Room
  /\ req' = [req EXCEPT ![w] = [NoCall EXCEPT !.pc = IF k = NoKey THEN Work(b) ELSE "claim",
                                            !.key = k, !.body = b]]
  /\ UNCHANGED <<record, item, failures, crashes>>

\* POST /posts/{id}/schedule and the MCP tool schedule_draft read a draft.
ArrivePromote(w, i) ==
  /\ ~Live(w) /\ item[i].status = "draft"
  /\ req' = [req EXCEPT ![w] = [NoCall EXCEPT !.pc = "quota", !.item = i]]
  /\ UNCHANGED <<record, item, failures, crashes>>

Placeholder(w) == [status |-> "pending", body |-> req[w].body, item |-> NoItem, age |-> 0]

\* claim_idempotency_slot: the INSERT is the mutex.  A failing one may have
\* been committed, which nobody will know.
Claim(w) ==
  LET k == req[w].key IN
  /\ req[w].pc = "claim"
  /\ \/ /\ record[k].status = "absent"
        /\ SetRecord(k, Placeholder(w)) /\ Onward(w, Work(req[w].body)) /\ NoFault
     \/ /\ record[k].status # "absent"
        /\ Onward(w, "fetch") /\ NoFault /\ UNCHANGED record
     \/ /\ StatementFails /\ Answer(w, 500)
        /\ \/ UNCHANGED record
           \/ record[k].status = "absent" /\ SetRecord(k, Placeholder(w))
  /\ UNCHANGED <<item, crashes>>

\* Mutant: the fingerprint is not compared.
FetchAnyBody(w) ==
  LET r == record[req[w].key] IN
  /\ req[w].pc = "fetch"
  /\ \/ r.status # "done" /\ Answer(w, 409)
     \/ r.status = "done" /\ Created(w, r.item)
  /\ UNCHANGED <<record, item, failures, crashes>>

\* After the IntegrityError: the row may be gone again by the time it is read.
Fetch(w) ==
  LET r == record[req[w].key] IN
  /\ req[w].pc = "fetch"
  /\ \/ r.status = "absent" /\ Answer(w, 500)
     \/ r.status # "absent" /\ r.body # req[w].body /\ Answer(w, 422)
     \/ r.status = "pending" /\ r.body = req[w].body /\ Answer(w, 409)
     \/ r.status = "done" /\ r.body = req[w].body /\ Created(w, r.item)
  /\ UNCHANGED <<record, item, failures, crashes>>

\* The folder of an upload is looked up after the claim and outside the try.
LookUpFolder(w) ==
  /\ req[w].pc = "folder"
  /\ \/ Onward(w, "create")
     \/ Answer(w, 404)
  /\ UNCHANGED <<record, item, failures, crashes>>

\* count_recent_creations
Used == Cardinality({i \in Items : /\ item[i].status \in QUOTA_CONSUMING_STATUSES
                                   /\ item[i].touched <= WINDOW})

\* Mutant: > instead of >=.
CheckQuotaOffByOne(w) ==
  /\ req[w].pc = "quota"
  /\ \/ Used > LIMIT /\ Fail(w, 429)
     \/ Used <= LIMIT /\ Onward(w, IF req[w].item = NoItem THEN "create" ELSE "promote")
  /\ UNCHANGED <<record, item, failures, crashes>>

\* check_platform_quota: only its own 429 releases the record.
CheckQuota(w) ==
  /\ req[w].pc = "quota"
  /\ \/ /\ Used >= LIMIT
        /\ Fail(w, 429) /\ NoFault
     \/ /\ Used < LIMIT
        /\ Onward(w, IF req[w].item = NoItem THEN "create" ELSE "promote") /\ NoFault
     \/ StatementFails /\ Answer(w, 500)
  /\ UNCHANGED <<record, item, crashes>>

\* transition_platform_post on the draft the request has read, whatever has
\* become of the row since.
Promote(w) ==
  /\ req[w].pc = "promote"
  /\ \/ /\ item' = [item EXCEPT ![req[w].item] =
                     [@ EXCEPT !.status = "scheduled", !.touched = 0, !.admitted = 0]]
        /\ Answer(w, 200) /\ NoFault
     \/ StatementFails /\ Answer(w, 500) /\ UNCHANGED item
  /\ UNCHANGED <<record, crashes>>

\* create_post and create_asset commit a new row; admitted matters if scheduled.
Make(w, i) ==
  /\ item[i].status = "unused"
  /\ item' = [item EXCEPT ![i] =
       [status |-> CASE KindOf[req[w].body] = "schedule" -> "scheduled"
                     [] KindOf[req[w].body] = "draft" -> "draft"
                     [] OTHER -> "media",
        key |-> req[w].key, body |-> req[w].body, created |-> 0, touched |-> 0, admitted |-> 0]]

\* They may refuse (ValueError, ValidationError), and a statement may fail before
\* the commit or, in sync_post_scheduled_at, after it.
CreateItem(w) ==
  /\ req[w].pc = "create"
  /\ \/ Fail(w, 422) /\ NoFault /\ UNCHANGED item
     \/ \E i \in Items : /\ Make(w, i) /\ NoFault
                         /\ req' = [req EXCEPT ![w] = [@ EXCEPT !.pc = "finalize", !.item = i]]
     \/ StatementFails /\ Fail(w, 500) /\ (UNCHANGED item \/ \E i \in Items : Make(w, i))
  /\ UNCHANGED <<record, crashes>>

\* finalize_idempotent_response, and the answer.  The UPDATE may fail, or be
\* committed all the same; the posts router then releases, the media router does not.
Finalized(w) ==
  LET k == req[w].key IN
  SetRecord(k, IF record[k].status = "absent" THEN record[k]
               ELSE [record[k] EXCEPT !.status = "done", !.item = req[w].item])

Finalize(w) ==
  /\ req[w].pc = "finalize"
  /\ \/ Finalized(w) /\ Created(w, req[w].item) /\ NoFault
     \/ /\ StatementFails /\ (UNCHANGED record \/ Finalized(w))
        /\ IF AllInsideTry(req[w].body) THEN Fail(w, 500)
           ELSE Answer(w, 500)
  /\ UNCHANGED <<item, crashes>>

\* release_idempotent_claim deletes the record unless it is finalized.
Release(w) ==
  LET k == req[w].key IN
  /\ req[w].pc = "release"
  /\ Answer(w, 500)  \* or 422, or 429: what Fail was given
  /\ \/ /\ NoFault
        /\ SetRecord(k, IF record[k].status = "pending" THEN NoRecord ELSE record[k])
     \/ StatementFails /\ UNCHANGED record
  /\ UNCHANGED <<item, crashes>>

\* A web server process dies; the client gets no answer.
ServerDies(w) ==
  /\ Live(w) /\ crashes < MaxServerDeaths /\ crashes' = crashes + 1
  /\ req' = [req EXCEPT ![w] = NoCall]
  /\ UNCHANGED <<record, item, failures>>

-----------------------------------------------------------------------------

\* Mutants: pending records are swept at any age, or never.
StaleOrPending(k) ==
  record[k].status = "pending" \/ (record[k].status = "done" /\ record[k].age > TTL)
StaleFinalized(k) == record[k].status = "done" /\ record[k].age > TTL

\* sweep_stale_idempotency_records, finalized or not.
Stale(k) == record[k].status # "absent" /\ record[k].age > TTL

Sweep ==
  /\ \E k \in RealKeys : Stale(k)
  /\ record' = [k \in RealKeys |-> IF Stale(k) THEN NoRecord ELSE record[k]]
  /\ UNCHANGED <<item, req, failures, crashes>>

\* The publisher finishes a scheduled row, well or badly, and touches it.
Publish(i) ==
  /\ item[i].status = "scheduled"
  /\ \E s \in {"published", "failed"} :
       item' = [item EXCEPT ![i] = [@ EXCEPT !.status = s, !.touched = 0]]
  /\ UNCHANGED <<record, req, failures, crashes>>

\* POST /posts/{id}/cancel: back to draft, out of the quota.
Cancel(i) ==
  /\ item[i].status = "scheduled"
  /\ item' = [item EXCEPT ![i] = [@ EXCEPT !.status = "draft", !.touched = 0]]
  /\ UNCHANGED <<record, req, failures, crashes>>

Older(a) == IF a < OLD THEN a + 1 ELSE OLD

\* Time passes; no request outlives TIMEOUT.
ApiTick ==
  /\ \A w \in Workers : Live(w) => req[w].age < TIMEOUT
  /\ record' = [k \in RealKeys |-> IF record[k].status = "absent" THEN record[k]
                               ELSE [record[k] EXCEPT !.age = Older(@)]]
  /\ item' = [i \in Items |-> IF item[i].status = "unused" THEN item[i]
                ELSE [item[i] EXCEPT !.created = Older(@), !.touched = Older(@),
                                     !.admitted = Older(@)]]
  /\ req' = [w \in Workers |-> IF Live(w) THEN [req[w] EXCEPT !.age = Older(@)] ELSE req[w]]
  /\ UNCHANGED <<failures, crashes>>

Serve(w) ==
  \/ Claim(w) \/ Fetch(w) \/ LookUpFolder(w) \/ CheckQuota(w) \/ Promote(w)
  \/ CreateItem(w) \/ Finalize(w) \/ Release(w)

ApiNext ==
  \/ \E w \in Workers :
       \/ \E k \in Keys, b \in Bodies : Arrive(w, k, b)
       \/ \E i \in Items : ArrivePromote(w, i)
       \/ Serve(w)
       \/ ServerDies(w)
  \/ \E i \in Items : Publish(i) \/ Cancel(i)
  \/ Sweep
  \/ ApiTick

ApiSpec == ApiInit /\ [][ApiNext]_ApiVars

\* A request runs on, time passes, and the sweep is a repeating task.
ApiLiveSpec == ApiSpec /\ (\A w \in Workers : WF_ApiVars(Serve(w))) /\ WF_ApiVars(ApiTick) /\ WF_ApiVars(Sweep)

-----------------------------------------------------------------------------

Answered(w) == req[w].pc = "idle" /\ req[w].item # NoItem /\ req[w].key # NoKey

\* Item i was made by a request with key k and body b.
MadeFor(i, k, b) == i \in Items /\ item[i].status # "unused" /\ item[i].key = k /\ item[i].body = b

\* Made so lately that the record of its key has not been swept since.
Fresh(i) == item[i].created <= TTL - TIMEOUT

\* Two requests are never at work under the same key: the INSERT of
\* claim_idempotency_slot is the mutex, and the sweep, which deletes pending
\* records too, cannot take it from a request that is still running.
OneWorkerPerKey ==
  \A k \in RealKeys : \A v, w \in Workers : Owns(v, k) /\ Owns(w, k) => v = w

\* Only requests with a key go through the claim.
KeyedClaim == \A w \in Workers : req[w].pc \in {"claim", "fetch"} => req[w].key \in RealKeys

\* What makes it inductive.  An owner is younger than the timeout and its record is
\* younger still, so that no sweep can delete it, and only an owner about to release
\* may find its record finalized.
ClaimInv ==
  /\ \A w \in Workers : Live(w) => req[w].age <= TIMEOUT
  /\ \A k \in RealKeys, w \in Workers : Owns(w, k) =>
       /\ record[k].status = "pending" \/ (record[k].status = "done" /\ req[w].pc = "release")
       /\ record[k].age <= req[w].age
  /\ OneWorkerPerKey

\* The items that were lately made under key k.
MadeUnder(k) == {i \in Items : item[i].status # "unused" /\ item[i].key = k /\ Fresh(i)}

\* A key makes one item in its window, whatever crashes and however often the
\* client retries; only a statement that failed after the row was committed, and
\* so released the key, can add one (posts.py, the comment above the try).
OncePerKey == \A k \in RealKeys : Cardinality(MadeUnder(k)) <= 1 + failures

\* A 201 under a key hands out the item that was made for this key and this body.
ReplayIsFaithful ==
  \A w \in Workers : Answered(w) =>
    item[req[w].item].key = req[w].key /\ item[req[w].item].body = req[w].body

\* What makes it inductive: the owner's record carries its body, what it is about to
\* record is its own, and so is what it has recorded.
ReplayInv ==
  /\ \A k \in RealKeys, w \in Workers : Owns(w, k) => record[k].body = req[w].body
  /\ \A w \in Workers : req[w].pc = "finalize" => MadeFor(req[w].item, req[w].key, req[w].body)
  /\ \A k \in RealKeys : record[k].status = "done" =>
       MadeFor(record[k].item, k, record[k].body)
  /\ \A w \in Workers : Answered(w) => MadeFor(req[w].item, req[w].key, req[w].body)

\* The 201 answers under a key that name an item of the last window all name the
\* same one, even if a statement fails: a finalized record is never released.
AnswersAgree ==
  \A v, w \in Workers :
    /\ Answered(v) /\ Answered(w) /\ req[v].key = req[w].key
    /\ Fresh(req[v].item) /\ Fresh(req[w].item)
    => req[v].item = req[w].item

\* Unless something crashed or failed, a pending record of the posts router
\* belongs to a request that will finalize or release it: every early return
\* after the claim gives the key back.
ClaimHasOwner ==
  \A k \in RealKeys :
    /\ record[k].status = "pending" /\ failures = 0 /\ crashes = 0
    /\ AllInsideTry(record[k].body)
    => \E w \in Workers : Owns(w, k)

\* What the API has lately scheduled.
Admitted == {i \in Items : /\ item[i].status \in QUOTA_CONSUMING_STATUSES
                           /\ item[i].admitted <= WINDOW}

\* The quota is checked and used in different transactions, so requests in
\* flight may pass it together, but no more than the web server has threads.
AdmissionsBounded == Cardinality(Admitted) <= LIMIT + Cardinality(Workers) - 1

\* A record left pending by a crash or a fault does not stay so: the sweep frees
\* the key for the client's retries.
WedgedKeyIsFreed ==
  \A k \in RealKeys : record[k].status = "pending" ~> record[k].status # "pending"

\* A key stands for one piece of work, by one request, in the table, in the answers and
\* in the rows.
KeysAreHonoured == OneWorkerPerKey /\ OncePerKey /\ AnswersAgree /\ ClaimHasOwner

\* Whoever gets at key k next may make an item under it.
Free(k) ==
  \/ record[k].status = "absent"
  \/ \E w \in Workers : Owns(w, k) /\ req[w].pc # "finalize"

\* What makes it inductive.  An item is hardly younger than the record of its key,
\* so that the sweep deletes only records whose items are old; a key that is free
\* has made no item but what a failure has excused; and an answer stands in the
\* record as long as its item is fresh.
UnusedHasNoKey == \A i \in Items : item[i].status = "unused" => item[i].key = NoKey
ItemsFollowClaims ==
  \A k \in RealKeys, i \in Items :
    item[i].key = k /\ record[k].status # "absent" => record[k].age <= item[i].created + TIMEOUT
CopiesExcused ==
  \A k \in RealKeys : /\ Cardinality(MadeUnder(k)) <= 1 + failures
                      /\ Free(k) => Cardinality(MadeUnder(k)) <= failures
AnswersStand ==
  \A w \in Workers : Answered(w) /\ Fresh(req[w].item) =>
    record[req[w].key].status = "done" /\ record[req[w].key].item = req[w].item
FoldersOfUploads ==
  \A w \in Workers : req[w].pc = "folder" => KindOf[req[w].body] = "upload_to_folder"
PromotesHaveNoKey ==
  \A w \in Workers : req[w].pc \in {"claim", "fetch", "folder", "quota", "create"}
                    /\ req[w].item # NoItem => req[w].key = NoKey
HonourInv == /\ UnusedHasNoKey /\ ItemsFollowClaims /\ CopiesExcused /\ AnswersStand
             /\ FoldersOfUploads /\ PromotesHaveNoKey /\ ClaimHasOwner

\* The requests that have passed the quota and not yet used it.
Passed ==
  {w \in Workers : \/ req[w].pc = "promote"
                   \/ req[w].pc = "create" /\ KindOf[req[w].body] = "schedule"}

\* What makes AdmissionsBounded inductive: the quota counts every row that was
\* admitted, and a request passes it only while fewer than LIMIT were.
TouchedLast ==
  \A i \in Items : item[i].status \in QUOTA_CONSUMING_STATUSES =>
    item[i].touched <= item[i].admitted
WithinQuota == Cardinality(Admitted) + Cardinality(Passed) <= LIMIT + Cardinality(Workers) - 1
QuotaInv == TouchedLast /\ FoldersOfUploads /\ WithinQuota
=============================================================================
