--------------------------- MODULE AgentApiProofs ---------------------------
(***************************************************************************)
(* What holds of the Agent API for any number of request threads, keys,    *)
(* bodies and items, for every limit and window, and for every TTL and     *)
(* every request timeout that does not exceed it: a key is worked on by    *)
(* one request at a time, stands for one piece of work, and replays the    *)
(* answer to the same request; and requests in flight pass the quota       *)
(* together by no more than their number.                                  *)
(*                                                                         *)
(* Then of the tokens of the accounts, of the reminders of a stalled       *)
(* approval, and of the notifications with their deliveries.               *)
(***************************************************************************)
EXTENDS AgentApi, AccountTokens, ApprovalReminders, Notifications,
        FiniteSetTheorems, TLAPS

Pcs == {"idle", "claim", "fetch", "promote"} \union Claimed

-----------------------------------------------------------------------------
(* Types                                                                   *)

\* The cap OLD of the ages lies beyond the timeout and the retention.
LEMMA OldType == OLD \in Nat /\ TIMEOUT \in Nat /\ TTL \in Nat /\ TIMEOUT <= TTL /\ TTL < OLD
  BY AgentApiAssumption DEF OLD

\* An age grows within its type.
LEMMA OlderType == \A a \in Ages : Older(a) \in Ages
  BY OldType DEF Older, Ages

\* A thread at rest is a request.
LEMMA IdleType == NoCall \in Request
  BY OldType DEF NoCall, Request, Ages, Claimed

\* A missing record is a record.
LEMMA NoRecordType == NoRecord \in Record
  BY OldType DEF NoRecord, Record, Ages

\* The first statement after the claim is a statement that holds the claim.
LEMMA WorkType == \A b : Work(b) \in {"quota", "folder", "create"}
  BY DEF Work

\* One thread becomes r.
LEMMA ThreadType ==
  ASSUME ApiTypeOK, NEW w \in Workers, NEW r \in Request, req' = [req EXCEPT ![w] = r]
  PROVE  req' \in [Workers -> Request]
  BY DEF ApiTypeOK

\* A request that moves to its next statement is a request.
LEMMA GotoType ==
  ASSUME ApiTypeOK, NEW w \in Workers, NEW pc \in Pcs
  PROVE  [req[w] EXCEPT !.pc = pc] \in Request
<1>1. req[w] \in Request
  BY DEF ApiTypeOK
<1> QED BY <1>1 DEF Request, Pcs

\* A request that has made its row and ended is a request.
LEMMA CreatedType ==
  ASSUME ApiTypeOK, NEW w \in Workers, NEW i \in Items \union {NoItem}
  PROVE  [req[w] EXCEPT !.pc = "idle", !.item = i, !.age = 0] \in Request
<1>1. req[w] \in Request /\ 0 \in Ages
  BY OldType DEF ApiTypeOK, Ages
<1>2. \A p \in Pcs, a \in Ages : [req[w] EXCEPT !.pc = p, !.item = i, !.age = a] \in Request
  BY <1>1 DEF Request, Pcs
<1> QED BY <1>1, <1>2 DEF Pcs

\* One record becomes r.
LEMMA SetRecordType ==
  ASSUME ApiTypeOK, NEW k \in Keys \union {NoKey}, NEW r, k # NoKey => r \in Record, SetRecord(k, r)
  PROVE  record' \in [RealKeys -> Record]
<1>1. CASE k = NoKey
  BY <1>1 DEF SetRecord, ApiTypeOK
<1>2. CASE k # NoKey
  <2>1. record' = [record EXCEPT ![k] = r] /\ r \in Record /\ k \in RealKeys
    BY <1>2 DEF SetRecord, RealKeys
  <2> QED BY <2>1 DEF ApiTypeOK
<1> QED BY <1>1, <1>2

\* Faults stay within their bound.
LEMMA FaultType ==
  ASSUME ApiTypeOK, StatementFails \/ NoFault
  PROVE  failures' \in 0 .. MaxStatementFaults
  BY AgentApiAssumption DEF ApiTypeOK, StatementFails, NoFault

\* One row becomes n.
LEMMA SetItemType ==
  ASSUME ApiTypeOK, NEW i, NEW n, i \in Items => n \in Item
  PROVE  [item EXCEPT ![i] = n] \in [Items -> Item]
  BY DEF ApiTypeOK

\* A row changes its status.
LEMMA TouchedType ==
  ASSUME ApiTypeOK, NEW i \in Items, NEW s \in {"draft"} \union QUOTA_CONSUMING_STATUSES
  PROVE  /\ [item[i] EXCEPT !.status = s, !.touched = 0] \in Item
         /\ [item[i] EXCEPT !.status = s, !.touched = 0, !.admitted = 0] \in Item
<1>1. item[i] \in Item /\ 0 \in Ages
  BY OldType DEF ApiTypeOK, Ages
<1>2. s \in {"unused", "media", "draft"} \union QUOTA_CONSUMING_STATUSES
  OBVIOUS
<1> QED BY <1>1, <1>2 DEF Item

\* A row grows older.
LEMMA AgedType ==
  ASSUME ApiTypeOK, NEW i \in Items, NEW a \in Ages, NEW b \in Ages, NEW c \in Ages
  PROVE  [item[i] EXCEPT !.created = a, !.touched = b, !.admitted = c] \in Item
<1>1. item[i] \in Item
  BY DEF ApiTypeOK
<1> QED BY <1>1 DEF Item

\* A new row is well typed.
LEMMA MakeType ==
  ASSUME ApiTypeOK, NEW w \in Workers, NEW i \in Items, Make(w, i)
  PROVE  item' \in [Items -> Item]
<1> DEFINE s == CASE KindOf[req[w].body] = "schedule" -> "scheduled"
                  [] KindOf[req[w].body] = "draft" -> "draft"
                  [] OTHER -> "media"
<1>1. s \in {"scheduled", "draft", "media"}
  OBVIOUS
<1> DEFINE n == [status |-> s, key |-> req[w].key, body |-> req[w].body,
                 created |-> 0, touched |-> 0, admitted |-> 0]
<1>2. item' = [item EXCEPT ![i] = n]
  BY DEF Make
<1>3. req[w].key \in Keys \union {NoKey} /\ req[w].body \in Bodies \union {NoBody} /\ 0 \in Ages
  BY OldType DEF ApiTypeOK, Request, Ages
<1>4. n \in Item
  <2> HIDE DEF s
  <2> QED BY <1>1, <1>3 DEF Item, QUOTA_CONSUMING_STATUSES
<1> HIDE DEF n
<1> QED BY <1>2, <1>4 DEF ApiTypeOK

\* Every step of one request keeps the types.
LEMMA ServeType ==
  ASSUME ApiTypeOK, KeyedClaim, NEW w \in Workers, Serve(w)
  PROVE  ApiTypeOK'
<1> USE DEF Pcs
<1>w. /\ req[w] \in Request /\ req[w].key \in Keys \union {NoKey}
      /\ req[w].item \in Items \union {NoItem} /\ Work(req[w].body) \in Pcs
  BY WorkType DEF ApiTypeOK, Request, Claimed
<1>i. \A c : Answer(w, c) => req' \in [Workers -> Request]
  BY IdleType, ThreadType DEF Answer
<1>g. \A pc \in Pcs : Onward(w, pc) => req' \in [Workers -> Request]
  BY GotoType, ThreadType DEF Onward
<1>f. \A c : Fail(w, c) => req' \in [Workers -> Request]
  BY <1>g DEF Fail, Claimed
<1>c. \A i \in Items \union {NoItem} : Created(w, i) => req' \in [Workers -> Request]
  BY CreatedType, ThreadType DEF Created
<1>1. CASE Claim(w)
  <2>1. Placeholder(w) \in Record
    BY <1>w, OldType DEF Placeholder, Record, Request, Ages
  <2>2. record' \in [RealKeys -> Record]
    BY <1>1, <1>w, <2>1, SetRecordType DEF Claim, ApiTypeOK
  <2>3. req' \in [Workers -> Request]
    BY <1>1, <1>w, <1>i, <1>g DEF Claim, Claimed
  <2> QED BY <1>1, <2>2, <2>3, FaultType DEF Claim, ApiTypeOK
<1>2. CASE Fetch(w)
  <2>1. record[req[w].key].item \in Items \union {NoItem}
    BY <1>2 DEF Fetch, KeyedClaim, ApiTypeOK, Record
  <2>2. req' \in [Workers -> Request]
    BY <1>2, <2>1, <1>i, <1>c DEF Fetch
  <2> QED BY <1>2, <2>2 DEF Fetch, ApiTypeOK
<1>3. CASE LookUpFolder(w)
  <2>1. req' \in [Workers -> Request]
    BY <1>3, <1>i, <1>g DEF LookUpFolder, Claimed
  <2> QED BY <1>3, <2>1 DEF LookUpFolder, ApiTypeOK
<1>4. CASE CheckQuota(w)
  <2>1. req' \in [Workers -> Request]
    BY <1>4, <1>i, <1>g, <1>f DEF CheckQuota, Claimed
  <2> QED BY <1>4, <2>1, FaultType DEF CheckQuota, ApiTypeOK
<1>5. CASE Promote(w)
  <2>1. req' \in [Workers -> Request]
    BY <1>5, <1>i DEF Promote
  <2>2. item' \in [Items -> Item]
    <3>1. CASE UNCHANGED item
      BY <3>1 DEF ApiTypeOK
    <3>2. \A i \in Items :
            [item[i] EXCEPT !.status = "scheduled", !.touched = 0, !.admitted = 0] \in Item
      BY TouchedType DEF QUOTA_CONSUMING_STATUSES
    <3>3. CASE item' = [item EXCEPT ![req[w].item] =
                          [@ EXCEPT !.status = "scheduled", !.touched = 0, !.admitted = 0]]
      BY <3>3, <3>2, SetItemType
    <3> QED BY <1>5, <3>1, <3>3 DEF Promote
  <2> QED BY <1>5, <2>1, <2>2, FaultType DEF Promote, ApiTypeOK
<1>6. CASE CreateItem(w)
  <2>1. item' \in [Items -> Item]
    BY <1>6, MakeType DEF CreateItem, ApiTypeOK
  <2>2. \A i \in Items : [req[w] EXCEPT !.pc = "finalize", !.item = i] \in Request
    BY <1>w DEF Request, Claimed
  <2>3. req' \in [Workers -> Request]
    BY <1>6, <2>2, <1>f, ThreadType DEF CreateItem
  <2> QED BY <1>6, <2>1, <2>3, FaultType DEF CreateItem, ApiTypeOK
<1>7. CASE Finalize(w)
  <2>1. req' \in [Workers -> Request]
    BY <1>7, <1>w, <1>i, <1>f, <1>c DEF Finalize
  <2>2. ASSUME Finalized(w)
        PROVE  record' \in [RealKeys -> Record]
    <3>1. \A k \in RealKeys : [record[k] EXCEPT !.status = "done", !.item = req[w].item] \in Record
      BY <1>w DEF ApiTypeOK, Record
    <3> QED BY <2>2, <3>1, <1>w, SetRecordType DEF Finalized, ApiTypeOK, RealKeys
  <2> QED BY <1>7, <2>1, <2>2, FaultType DEF Finalize, ApiTypeOK
<1>8. CASE Release(w)
  <2>1. record' \in [RealKeys -> Record]
    BY <1>8, <1>w, NoRecordType, SetRecordType DEF Release, ApiTypeOK, RealKeys
  <2> QED BY <1>8, <2>1, <1>i, FaultType DEF Release, ApiTypeOK
<1> QED BY <1>1, <1>2, <1>3, <1>4, <1>5, <1>6, <1>7, <1>8 DEF Serve

\* Every step of the specification keeps the types.
LEMMA NextType ==
  ASSUME ApiTypeOK, KeyedClaim, [ApiNext]_ApiVars
  PROVE  ApiTypeOK'
<1> USE DEF Pcs
<1>1. ASSUME NEW w \in Workers, NEW k \in Keys, NEW b \in Bodies, Arrive(w, k, b)
      PROVE  ApiTypeOK'
  <2> DEFINE pc == IF k = NoKey THEN Work(b) ELSE "claim"
  <2>1. pc \in Pcs
    BY WorkType DEF Claimed
  <2>2. [NoCall EXCEPT !.pc = pc, !.key = k, !.body = b] \in Request
    <3> HIDE DEF pc
    <3> QED BY <2>1, IdleType DEF Request
  <2>3. req' \in [Workers -> Request]
    BY <1>1, <2>2, ThreadType DEF Arrive
  <2> QED BY <1>1, <2>3 DEF Arrive, ApiTypeOK
<1>2. ASSUME NEW w \in Workers, NEW i \in Items, ArrivePromote(w, i)
      PROVE  ApiTypeOK'
  <2>1. [NoCall EXCEPT !.pc = "quota", !.item = i] \in Request
    BY IdleType DEF Request, Claimed
  <2>2. req' \in [Workers -> Request]
    BY <1>2, <2>1, ThreadType DEF ArrivePromote
  <2> QED BY <1>2, <2>2 DEF ArrivePromote, ApiTypeOK
<1>3. ASSUME NEW w \in Workers, ServerDies(w)
      PROVE  ApiTypeOK'
  <2>1. req' \in [Workers -> Request]
    BY <1>3, IdleType, ThreadType DEF ServerDies
  <2> QED BY <1>3, <2>1, AgentApiAssumption DEF ServerDies, ApiTypeOK
<1>4. ASSUME NEW i \in Items, Publish(i) \/ Cancel(i)
      PROVE  ApiTypeOK'
  <2>1. \A s \in {"draft"} \union QUOTA_CONSUMING_STATUSES :
          [item[i] EXCEPT !.status = s, !.touched = 0] \in Item
    BY TouchedType
  <2>2. item' \in [Items -> Item]
    BY <1>4, <2>1, SetItemType DEF Publish, Cancel, QUOTA_CONSUMING_STATUSES
  <2> QED BY <1>4, <2>2 DEF Publish, Cancel, ApiTypeOK
<1>5. CASE Sweep
  BY <1>5, NoRecordType DEF Sweep, ApiTypeOK
<1>6. CASE ApiTick
  <2>1. \A k \in RealKeys : [record[k] EXCEPT !.age = Older(@)] \in Record
    <3>1. \A k \in RealKeys, a \in Ages : [record[k] EXCEPT !.age = a] \in Record
      BY DEF ApiTypeOK, Record
    <3> QED BY <3>1, OlderType DEF ApiTypeOK, Record
  <2>2. \A i \in Items : [item[i] EXCEPT !.created = Older(@), !.touched = Older(@),
                                          !.admitted = Older(@)] \in Item
    <3>1. \A i \in Items : /\ Older(item[i].created) \in Ages
                           /\ Older(item[i].touched) \in Ages
                           /\ Older(item[i].admitted) \in Ages
      BY OlderType DEF ApiTypeOK, Item
    <3> QED BY <3>1, AgedType
  <2>3. \A w \in Workers : [req[w] EXCEPT !.age = Older(@)] \in Request
    <3>1. \A w \in Workers, a \in Ages : [req[w] EXCEPT !.age = a] \in Request
      BY DEF ApiTypeOK, Request
    <3> QED BY <3>1, OlderType DEF ApiTypeOK, Request
  <2>4. record' \in [RealKeys -> Record]
    BY <1>6, <2>1 DEF ApiTick, ApiTypeOK
  <2>5. item' \in [Items -> Item]
    BY <1>6, <2>2 DEF ApiTick, ApiTypeOK
  <2>6. req' \in [Workers -> Request]
    BY <1>6, <2>3 DEF ApiTick, ApiTypeOK
  <2> QED BY <1>6, <2>4, <2>5, <2>6 DEF ApiTick, ApiTypeOK
<1>7. CASE UNCHANGED ApiVars
  BY <1>7 DEF ApiVars, ApiTypeOK
<1> QED BY <1>1, <1>2, <1>3, <1>4, <1>5, <1>6, <1>7, ServeType DEF ApiNext

\* Requests without a key never enter the claim.
LEMMA NextKeyed ==
  ASSUME ApiTypeOK, KeyedClaim, [ApiNext]_ApiVars
  PROVE  KeyedClaim'
<1> USE DEF KeyedClaim
<1>1. ASSUME NEW w \in Workers, NEW k \in Keys, NEW b \in Bodies, Arrive(w, k, b)
      PROVE  KeyedClaim'
  BY <1>1, WorkType DEF Arrive, NoCall, RealKeys, ApiTypeOK
<1>2. ASSUME NEW w \in Workers, NEW i \in Items, ArrivePromote(w, i)
      PROVE  KeyedClaim'
  BY <1>2 DEF ArrivePromote, NoCall, ApiTypeOK
<1>3. ASSUME NEW w \in Workers, Serve(w)
      PROVE  KeyedClaim'
  <2>i. \A c : Answer(w, c) => KeyedClaim'
    BY DEF Answer, NoCall, ApiTypeOK
  <2>g. \A pc \in Claimed \union {"promote"} : Onward(w, pc) => KeyedClaim'
    BY DEF Onward, ApiTypeOK, Claimed, Request
  <2>f. \A c : Fail(w, c) => KeyedClaim'
    BY <2>g DEF Fail, Claimed
  <2>c. \A i : Created(w, i) => KeyedClaim'
    BY DEF Created, ApiTypeOK, Request
  <2>1. CASE Claim(w)
    <3>1. Onward(w, "fetch") => KeyedClaim'
      BY <2>1 DEF Claim, Onward, ApiTypeOK, Request
    <3> QED BY <2>1, <3>1, <2>i, <2>g, WorkType DEF Claim, Claimed
  <2>2. CASE Fetch(w)
    BY <2>2, <2>i, <2>c DEF Fetch
  <2>3. CASE LookUpFolder(w) \/ CheckQuota(w) \/ Promote(w)
    BY <2>3, <2>i, <2>g, <2>f DEF LookUpFolder, CheckQuota, Promote, Claimed
  <2>4. CASE CreateItem(w)
    <3>1. \A i : req' = [req EXCEPT ![w] = [@ EXCEPT !.pc = "finalize", !.item = i]]
                   => KeyedClaim'
      BY DEF ApiTypeOK, Request
    <3> QED BY <2>4, <3>1, <2>f DEF CreateItem
  <2>5. CASE Finalize(w) \/ Release(w)
    BY <2>5, <2>i, <2>f, <2>c DEF Finalize, Release
  <2> QED BY <1>3, <2>1, <2>2, <2>3, <2>4, <2>5 DEF Serve
<1>4. ASSUME NEW w \in Workers, ServerDies(w)
      PROVE  KeyedClaim'
  BY <1>4 DEF ServerDies, NoCall, ApiTypeOK
<1>5. CASE ApiTick
  BY <1>5 DEF ApiTick, ApiTypeOK, Request
<1>6. CASE Sweep \/ (\E i \in Items : Publish(i) \/ Cancel(i)) \/ UNCHANGED ApiVars
  BY <1>6 DEF Sweep, Publish, Cancel, ApiVars
<1> QED BY <1>1, <1>2, <1>3, <1>4, <1>5, <1>6 DEF ApiNext

\* At the start every thread is idle and no key has a record.
LEMMA InitType == ApiInit => ApiTypeOK /\ KeyedClaim
<1> SUFFICES ASSUME ApiInit PROVE ApiTypeOK /\ KeyedClaim
  OBVIOUS
<1>1. record \in [RealKeys -> Record] /\ req \in [Workers -> Request]
  BY IdleType, NoRecordType DEF ApiInit
<1>2. item \in [Items -> Item]
  BY OldType DEF ApiInit, Item, Ages
<1>3. KeyedClaim
  BY DEF ApiInit, KeyedClaim, NoCall
<1> QED BY <1>1, <1>2, <1>3, AgentApiAssumption DEF ApiInit, ApiTypeOK

\* The Agent API keeps every record, item and request in its type, and only
\* requests with a key claim one.
THEOREM TypeCorrect == ApiSpec => [](ApiTypeOK /\ KeyedClaim)
  BY InitType, NextType, NextKeyed, PTL DEF ApiSpec

-----------------------------------------------------------------------------
(* One request per key                                                     *)

\* A step of one request, which becomes r, keeps ClaimInv if it writes no record
\* but its own or a new one, and holds what it owns afterwards.
LEMMA StepKeepsClaims ==
  ASSUME ApiTypeOK, ClaimInv, NEW w \in Workers, NEW r \in Request,
         req' = [req EXCEPT ![w] = r],
         r.pc # "idle" => r.age <= TIMEOUT,
         \A k \in RealKeys : record'[k] = record[k] \/ Owns(w, k) \/ record[k].status = "absent",
         \A k \in RealKeys : r.key = k /\ r.pc \in Claimed =>
           /\ record'[k].status = "pending" \/ (record'[k].status = "done" /\ r.pc = "release")
           /\ record'[k].age <= r.age
           /\ Owns(w, k) \/ record[k].status = "absent"
  PROVE  ClaimInv'
<1>1. \A v \in Workers : req'[v] = IF v = w THEN r ELSE req[v]
  BY DEF ApiTypeOK
<1>2. \A v \in Workers : Live(v)' => req'[v].age <= TIMEOUT
  BY <1>1 DEF ClaimInv, Live
<1>3. \A k \in RealKeys, v \in Workers \ {w} : Owns(v, k)' => Owns(v, k)
  BY <1>1 DEF Owns
<1>4. \A k \in RealKeys : Owns(w, k)' => r.key = k /\ r.pc \in Claimed
  BY <1>1 DEF Owns
<1>5. \A k \in RealKeys, v \in Workers \ {w} : Owns(v, k) =>
        ~Owns(w, k) /\ record[k].status # "absent" /\ record'[k] = record[k]
  BY DEF ClaimInv, OneWorkerPerKey
<1>6. OneWorkerPerKey'
  <2> SUFFICES ASSUME NEW k \in RealKeys, NEW u \in Workers, NEW v \in Workers,
                      Owns(u, k)', Owns(v, k)', u # v
               PROVE  FALSE
    BY DEF OneWorkerPerKey
  <2>1. CASE u # w /\ v # w
    BY <2>1, <1>3 DEF ClaimInv, OneWorkerPerKey
  <2>2. CASE u = w \/ v = w
    BY <2>2, <1>3, <1>4, <1>5
  <2> QED BY <2>1, <2>2
<1>7. ASSUME NEW k \in RealKeys, NEW v \in Workers, Owns(v, k)'
      PROVE  /\ \/ record'[k].status = "pending"
                \/ record'[k].status = "done" /\ req'[v].pc = "release"
             /\ record'[k].age <= req'[v].age
  <2>1. CASE v = w
    BY <2>1, <1>1, <1>4, <1>7
  <2>2. CASE v # w
    BY <2>2, <1>1, <1>3, <1>5, <1>7 DEF ClaimInv
  <2> QED BY <2>1, <2>2
<1> QED BY <1>2, <1>6, <1>7 DEF ClaimInv

\* A request that goes idle keeps it if it writes no record but its own.
LEMMA IdleKeepsClaims ==
  ASSUME ApiTypeOK, ClaimInv, NEW w \in Workers, NEW r \in Request, r.pc = "idle",
         req' = [req EXCEPT ![w] = r],
         \A k \in RealKeys : record'[k] = record[k] \/ Owns(w, k) \/ record[k].status = "absent"
  PROVE  ClaimInv'
  BY StepKeepsClaims DEF Claimed

\* A request that goes on from a statement that holds the claim keeps it.
LEMMA HolderKeepsClaims ==
  ASSUME ApiTypeOK, ClaimInv, NEW w \in Workers, NEW r \in Request,
         req[w].pc \in Claimed, req[w].pc # "release",
         req' = [req EXCEPT ![w] = r], r.key = req[w].key, r.age = req[w].age,
         r.pc \in Claimed \union {"promote"}, UNCHANGED record
  PROVE  ClaimInv'
<1>1. Live(w) /\ r.age <= TIMEOUT
  BY DEF ClaimInv, Live, Claimed
<1>2. \A k \in RealKeys : r.key = k => Owns(w, k)
  BY DEF Owns
<1>3. \A k \in RealKeys : r.key = k =>
        record[k].status = "pending" /\ record[k].age <= r.age
  BY <1>2 DEF ClaimInv
<1> QED BY <1>1, <1>2, <1>3, StepKeepsClaims

\* No statement of a request breaks the claims.
LEMMA ServeKeepsClaims ==
  ASSUME ApiTypeOK, KeyedClaim, ClaimInv, NEW w \in Workers, Serve(w)
  PROVE  ClaimInv'
<1> USE DEF Pcs
<1>w. req[w] \in Request
  BY DEF ApiTypeOK
<1>i. \A c : Answer(w, c) /\ UNCHANGED record => ClaimInv'
  BY IdleType, IdleKeepsClaims DEF Answer, NoCall
<1>c. \A i \in Items \union {NoItem} : Created(w, i) /\ UNCHANGED record => ClaimInv'
  <2> SUFFICES ASSUME NEW i \in Items \union {NoItem}, Created(w, i), UNCHANGED record
               PROVE  ClaimInv'
    OBVIOUS
  <2> DEFINE r == [req[w] EXCEPT !.pc = "idle", !.item = i, !.age = 0]
  <2>1. r \in Request /\ req' = [req EXCEPT ![w] = r]
    BY CreatedType DEF Created
  <2>2. r.pc = "idle"
    BY <1>w DEF Request
  <2> HIDE DEF r
  <2> QED BY <2>1, <2>2, IdleKeepsClaims
<1>g. ASSUME NEW pc \in Claimed \union {"promote"}, req[w].pc \in Claimed, req[w].pc # "release",
             Onward(w, pc), UNCHANGED record
      PROVE  ClaimInv'
  <2> DEFINE r == [req[w] EXCEPT !.pc = pc]
  <2>1. r \in Request /\ req' = [req EXCEPT ![w] = r]
    BY <1>g, GotoType DEF Onward, ApiTypeOK
  <2>2. r.pc = pc /\ r.key = req[w].key /\ r.age = req[w].age
    BY <1>w DEF Request
  <2> HIDE DEF r
  <2> QED BY <1>g, <2>1, <2>2, HolderKeepsClaims
<1>f. \A c : /\ req[w].pc \in Claimed /\ req[w].pc # "release" /\ Fail(w, c) /\ UNCHANGED record
             => ClaimInv'
  BY <1>g DEF Fail, Claimed
<1>1. CASE Claim(w)
  <2> DEFINE k == req[w].key
             r == [req[w] EXCEPT !.pc = Work(req[w].body)]
             s == [req[w] EXCEPT !.pc = "fetch"]
  <2>1. k \in RealKeys /\ k # NoKey /\ Live(w)
    BY <1>1 DEF Claim, KeyedClaim, RealKeys, Live
  <2>2. Work(req[w].body) \in Claimed \ {"release"}
    BY WorkType DEF Claimed
  <2>3. r \in Request /\ s \in Request
    BY <2>2, GotoType
  <2>4. /\ r.pc = Work(req[w].body) /\ r.key = k /\ r.age = req[w].age /\ r.age >= 0
        /\ s.pc = "fetch" /\ s.age = req[w].age
    BY <1>w DEF Request, Ages
  <2>5. req[w].age <= TIMEOUT
    BY <2>1 DEF ClaimInv
  <2>6. Placeholder(w).status = "pending" /\ Placeholder(w).age = 0
    BY DEF Placeholder
  <2>7. ASSUME SetRecord(k, Placeholder(w)), record[k].status = "absent"
        PROVE  /\ \A j \in RealKeys : record'[j] = record[j] \/ record[j].status = "absent"
               /\ record'[k] = Placeholder(w)
    BY <2>1, <2>7 DEF SetRecord, ApiTypeOK
  <2>8. CASE record[k].status = "absent" /\ SetRecord(k, Placeholder(w))
             /\ Onward(w, Work(req[w].body))
    <3>1. req' = [req EXCEPT ![w] = r]
      BY <2>8 DEF Onward, ApiTypeOK
    <3>2. \A j \in RealKeys : r.key = j /\ r.pc \in Claimed =>
            /\ record'[j].status = "pending" \/ (record'[j].status = "done" /\ r.pc = "release")
            /\ record'[j].age <= r.age
            /\ Owns(w, j) \/ record[j].status = "absent"
      <4> HIDE DEF r, s, k
      <4> QED BY <2>4, <2>6, <2>7, <2>8
    <3>3. \A j \in RealKeys : record'[j] = record[j] \/ Owns(w, j) \/ record[j].status = "absent"
      BY <2>7, <2>8
    <3>4. r.pc # "idle" => r.age <= TIMEOUT
      BY <2>4, <2>5
    <3> HIDE DEF r, s, k
    <3> QED BY <3>1, <3>2, <3>3, <3>4, <2>3, StepKeepsClaims
  <2>9. CASE Onward(w, "fetch") /\ UNCHANGED record
    <3>1. req' = [req EXCEPT ![w] = s]
      BY <2>9 DEF Onward, ApiTypeOK
    <3> HIDE DEF r, s, k
    <3> QED BY <3>1, <2>3, <2>4, <2>5, <2>9, StepKeepsClaims DEF Claimed
  <2>10. CASE /\ Answer(w, 500)
              /\ UNCHANGED record \/ (record[k].status = "absent" /\ SetRecord(k, Placeholder(w)))
    <3>1. req' = [req EXCEPT ![w] = NoCall] /\ NoCall.pc = "idle"
      BY <2>10 DEF Answer, NoCall
    <3> HIDE DEF r, s, k
    <3> QED BY <3>1, <2>7, <2>10, IdleType, IdleKeepsClaims
  <2> QED BY <1>1, <2>8, <2>9, <2>10 DEF Claim
<1>2. CASE Fetch(w)
  <2>1. record[req[w].key].item \in Items \union {NoItem}
    BY <1>2 DEF Fetch, KeyedClaim, ApiTypeOK, Record
  <2> QED BY <1>2, <2>1, <1>i, <1>c DEF Fetch
<1>3. CASE LookUpFolder(w)
  BY <1>3, <1>i, <1>g DEF LookUpFolder, Claimed
<1>4. CASE CheckQuota(w)
  BY <1>4, <1>i, <1>g, <1>f DEF CheckQuota, Claimed
<1>5. CASE Promote(w)
  BY <1>5, <1>i DEF Promote
<1>6. CASE CreateItem(w)
  <2>1. ASSUME NEW i \in Items, req' = [req EXCEPT ![w] = [@ EXCEPT !.pc = "finalize", !.item = i]]
        PROVE  ClaimInv'
    <3> DEFINE r == [req[w] EXCEPT !.pc = "finalize", !.item = i]
    <3>1. r \in Request /\ r.pc = "finalize" /\ r.key = req[w].key /\ r.age = req[w].age
      BY <1>w DEF Request, Claimed
    <3>2. req' = [req EXCEPT ![w] = r]
      BY <2>1
    <3> HIDE DEF r
    <3> QED BY <1>6, <3>1, <3>2, HolderKeepsClaims DEF CreateItem, Claimed
  <2> QED BY <1>6, <2>1, <1>f DEF CreateItem, Claimed
<1>7. CASE Finalize(w)
  <2> DEFINE k == req[w].key
             r == [req[w] EXCEPT !.pc = "release"]
             s == [req[w] EXCEPT !.pc = "idle", !.item = req[w].item, !.age = 0]
  <2>1. /\ r \in Request /\ r.pc = "release" /\ r.key = k /\ r.age = req[w].age
        /\ s \in Request /\ s.pc = "idle"
    BY <1>w, GotoType, CreatedType DEF Request, Claimed
  <2>2. /\ Fail(w, 500) => req' = [req EXCEPT ![w] = r]
        /\ Created(w, req[w].item) => req' = [req EXCEPT ![w] = s]
        /\ Answer(w, 500) => req' = [req EXCEPT ![w] = NoCall]
    BY DEF Fail, Onward, Created, Answer, ApiTypeOK
  <2>3. req[w].age <= TIMEOUT /\ \A j \in RealKeys : Owns(w, j) <=> j = k
    BY <1>7 DEF Finalize, ClaimInv, Live, Owns, Claimed
  <2>4. ASSUME NEW j \in RealKeys, Finalized(w)
        PROVE  /\ record'[j] = record[j] \/ j = k
               /\ j = k => record'[j].age = record[j].age /\ record'[j].status \in {"done", "absent"}
               /\ record[j].status # "absent" /\ j = k => record'[j].status = "done"
    BY <2>4 DEF Finalized, SetRecord, ApiTypeOK, RealKeys, Record
  <2>5. \A j \in RealKeys : j = k => record[j].status = "pending" /\ record[j].age <= req[w].age
    BY <1>7, <2>3 DEF Finalize, ClaimInv
  <2>6. CASE Finalized(w) \/ UNCHANGED record
    <3>1. \A j \in RealKeys : record'[j] = record[j] \/ Owns(w, j)
      BY <2>3, <2>4, <2>6
    <3>2. \A j \in RealKeys : j = k =>
            record'[j].status \in {"pending", "done"} /\ record'[j].age <= req[w].age
      BY <2>4, <2>5, <2>6
    <3>3. CASE Fail(w, 500)
      <4>1. \A j \in RealKeys : r.key = j /\ r.pc \in Claimed =>
              /\ record'[j].status = "pending" \/ (record'[j].status = "done" /\ r.pc = "release")
              /\ record'[j].age <= r.age
              /\ Owns(w, j) \/ record[j].status = "absent"
        <5> HIDE DEF k, r, s
        <5> QED BY <2>1, <2>3, <3>2
      <4>2. req' = [req EXCEPT ![w] = r]
        BY <2>2, <3>3
      <4> HIDE DEF k, r, s
      <4> QED BY <2>1, <2>3, <3>1, <4>1, <4>2, StepKeepsClaims
    <3>4. CASE Created(w, req[w].item) \/ Answer(w, 500)
      <4>1. NoCall.pc = "idle"
        BY DEF NoCall
      <4> HIDE DEF k, r, s
      <4> QED BY <2>1, <2>2, <3>1, <3>4, <4>1, IdleType, IdleKeepsClaims
    <3> QED BY <1>7, <3>3, <3>4 DEF Finalize
  <2> QED BY <1>7, <2>6 DEF Finalize
<1>8. CASE Release(w)
  <2>1. \A j \in RealKeys : record'[j] = record[j] \/ Owns(w, j)
    BY <1>8 DEF Release, SetRecord, ApiTypeOK, Owns, Claimed
  <2> QED BY <1>8, <2>1, IdleType, IdleKeepsClaims DEF Release, Answer, NoCall
<1> QED BY <1>1, <1>2, <1>3, <1>4, <1>5, <1>6, <1>7, <1>8 DEF Serve

\* Time and the sweep leave an owner its record: it is younger than the timeout.
LEMMA TickKeepsClaims ==
  ASSUME ApiTypeOK, ClaimInv, ApiTick
  PROVE  ClaimInv'
<1>1. \A w \in Workers : req'[w] = IF Live(w) THEN [req[w] EXCEPT !.age = Older(@)] ELSE req[w]
  BY DEF ApiTick
<1>2. \A w \in Workers : /\ req'[w].pc = req[w].pc /\ req'[w].key = req[w].key
                         /\ Live(w) => req'[w].age = Older(req[w].age)
  BY <1>1 DEF ApiTypeOK, Request
<1>3. \A w \in Workers : /\ Live(w)' <=> Live(w)
                         /\ \A k \in RealKeys : Owns(w, k)' <=> Owns(w, k)
  BY <1>2 DEF Live, Owns
<1>4. \A a \in Ages : a < TIMEOUT => Older(a) = a + 1 /\ a + 1 <= TIMEOUT
  BY OldType DEF Older, Ages
<1>5. \A w \in Workers : Live(w) => req[w].age \in Ages /\ req[w].age < TIMEOUT
  BY DEF ApiTick, ApiTypeOK, Request
<1>6. \A w \in Workers : Live(w)' => req'[w].age <= TIMEOUT
  BY <1>2, <1>3, <1>4, <1>5
<1>7. ASSUME NEW k \in RealKeys, NEW w \in Workers, Owns(w, k)'
      PROVE  /\ \/ record'[k].status = "pending"
                \/ record'[k].status = "done" /\ req'[w].pc = "release"
             /\ record'[k].age <= req'[w].age
  <2>1. Owns(w, k) /\ Live(w)
    BY <1>3, <1>7 DEF Owns, Live, Claimed
  <2>2. /\ record[k].status = "pending" \/ (record[k].status = "done" /\ req[w].pc = "release")
        /\ record[k].age <= req[w].age
    BY <2>1 DEF ClaimInv
  <2>3. record[k].age \in Ages /\ record[k].age < TIMEOUT
    BY <1>5, <2>1, <2>2, OldType DEF ApiTypeOK, Record, Ages
  <2>4. record'[k].status = record[k].status /\ record'[k].age = Older(record[k].age)
    BY <2>2 DEF ApiTick, ApiTypeOK, Record
  <2>5. record'[k].age = record[k].age + 1 /\ req'[w].age = req[w].age + 1
    BY <1>2, <1>4, <1>5, <2>1, <2>3, <2>4
  <2> QED BY <1>2, <1>5, <2>1, <2>2, <2>3, <2>4, <2>5 DEF Ages
<1>8. OneWorkerPerKey'
  BY <1>3 DEF ClaimInv, OneWorkerPerKey
<1> QED BY <1>6, <1>7, <1>8 DEF ClaimInv

\* The sweep frees no key under a running request.
LEMMA SweepKeepsClaims ==
  ASSUME ApiTypeOK, ClaimInv, Sweep
  PROVE  ClaimInv'
<1>1. UNCHANGED req
  BY DEF Sweep
<1>2. \A w \in Workers : /\ Live(w)' <=> Live(w)
                         /\ \A k \in RealKeys : Owns(w, k)' <=> Owns(w, k)
  BY <1>1 DEF Live, Owns
<1>3. ASSUME NEW k \in RealKeys, NEW w \in Workers, Owns(w, k)
      PROVE  record'[k] = record[k]
  <2>1. Live(w) /\ record[k].age <= req[w].age /\ req[w].age <= TIMEOUT
    BY <1>3 DEF ClaimInv, Live, Owns, Claimed
  <2>2. record[k].age \in Nat /\ req[w].age \in Nat
    BY OldType DEF ApiTypeOK, Record, Request, Ages
  <2>3. ~Stale(k)
    BY <2>1, <2>2, OldType DEF Stale
  <2> QED BY <2>3 DEF Sweep
<1> QED BY <1>1, <1>2, <1>3 DEF ClaimInv, OneWorkerPerKey

\* The claims are inductive.
LEMMA NextKeepsClaims ==
  ASSUME ApiTypeOK, KeyedClaim, ClaimInv, [ApiNext]_ApiVars
  PROVE  ClaimInv'
<1>1. ASSUME NEW w \in Workers, NEW k \in Keys, NEW b \in Bodies, Arrive(w, k, b)
      PROVE  ClaimInv'
  <2> DEFINE pc == IF k = NoKey THEN Work(b) ELSE "claim"
             r == [NoCall EXCEPT !.pc = pc, !.key = k, !.body = b]
  <2>1. pc \in Pcs /\ (k \in RealKeys => pc = "claim")
    BY WorkType DEF Pcs, Claimed, RealKeys
  <2>2. r \in Request /\ r.pc = pc /\ r.key = k /\ r.age = 0
    <3> HIDE DEF pc
    <3> QED BY <2>1, IdleType DEF Request, Pcs, NoCall
  <2>3. req' = [req EXCEPT ![w] = r] /\ UNCHANGED record
    BY <1>1 DEF Arrive
  <2>4. 0 <= TIMEOUT
    BY OldType
  <2> HIDE DEF pc, r
  <2> QED BY <2>1, <2>2, <2>3, <2>4, StepKeepsClaims DEF Claimed
<1>2. ASSUME NEW w \in Workers, NEW i \in Items, ArrivePromote(w, i)
      PROVE  ClaimInv'
  <2> DEFINE r == [NoCall EXCEPT !.pc = "quota", !.item = i]
  <2>1. r \in Request /\ r.key = NoKey /\ r.age = 0
    BY IdleType DEF Request, NoCall, Claimed
  <2>2. req' = [req EXCEPT ![w] = r] /\ UNCHANGED record
    BY <1>2 DEF ArrivePromote
  <2>3. 0 <= TIMEOUT
    BY OldType
  <2> HIDE DEF r
  <2> QED BY <2>1, <2>2, <2>3, StepKeepsClaims DEF RealKeys
<1>3. ASSUME NEW w \in Workers, ServerDies(w)
      PROVE  ClaimInv'
  BY <1>3, IdleType, IdleKeepsClaims DEF ServerDies, NoCall
<1>4. CASE (\E i \in Items : Publish(i) \/ Cancel(i)) \/ UNCHANGED ApiVars
  <2>1. UNCHANGED <<record, req>>
    BY <1>4 DEF Publish, Cancel, ApiVars
  <2> QED BY <2>1 DEF ClaimInv, OneWorkerPerKey, Live, Owns
<1> QED BY <1>1, <1>2, <1>3, <1>4, ServeKeepsClaims, TickKeepsClaims, SweepKeepsClaims DEF ApiNext

\* However many requests come with a key, and whatever crashes or fails, no two are
\* at work under it: while one is, its record is in the table, too young to be swept.
THEOREM OneWorker == ApiSpec => []OneWorkerPerKey
<1>1. ApiInit => ClaimInv
  BY DEF ApiInit, ClaimInv, OneWorkerPerKey, Live, Owns, NoCall, Claimed
<1>2. ApiTypeOK /\ KeyedClaim /\ ClaimInv /\ [ApiNext]_ApiVars => ClaimInv'
  BY NextKeepsClaims
<1>3. ClaimInv => OneWorkerPerKey
  BY DEF ClaimInv
<1> QED BY <1>1, <1>2, <1>3, TypeCorrect, PTL DEF ApiSpec

-----------------------------------------------------------------------------
(* Faithful replays                                                        *)

\* The rows that exist stay what they were made for.
KeepsMakers ==
  \A i \in Items : item[i].status # "unused" =>
    item'[i].status # "unused" /\ item'[i].key = item[i].key /\ item'[i].body = item[i].body

\* No step changes what a row was made for.
LEMMA NextKeepsMakers ==
  ASSUME ApiTypeOK, [ApiNext]_ApiVars
  PROVE  KeepsMakers
<1> USE DEF KeepsMakers
<1>1. CASE UNCHANGED item
  BY <1>1
<1>2. ASSUME NEW w \in Workers, NEW i \in Items, Make(w, i)
      PROVE  KeepsMakers
  BY <1>2 DEF Make, ApiTypeOK
<1>3. ASSUME NEW w \in Workers, Promote(w)
      PROVE  KeepsMakers
  <2> DEFINE j == req[w].item
             n == [item[j] EXCEPT !.status = "scheduled", !.touched = 0, !.admitted = 0]
  <2>1. j \in Items => n.status = "scheduled" /\ n.key = item[j].key /\ n.body = item[j].body
    BY DEF ApiTypeOK, Item
  <2>2. item' = [item EXCEPT ![j] = n] \/ UNCHANGED item
    BY <1>3 DEF Promote
  <2> HIDE DEF n, j
  <2> QED BY <2>1, <2>2 DEF ApiTypeOK
<1>4. ASSUME NEW i \in Items, Publish(i) \/ Cancel(i)
      PROVE  KeepsMakers
  <2>1. PICK s \in {"published", "failed", "draft"} :
          item' = [item EXCEPT ![i] = [@ EXCEPT !.status = s, !.touched = 0]]
    BY <1>4 DEF Publish, Cancel
  <2> DEFINE n == [item[i] EXCEPT !.status = s, !.touched = 0]
  <2>2. n.status = s /\ n.key = item[i].key /\ n.body = item[i].body
    BY DEF ApiTypeOK, Item
  <2>3. item' = [item EXCEPT ![i] = n]
    BY <2>1
  <2> HIDE DEF n
  <2> QED BY <2>2, <2>3 DEF ApiTypeOK
<1>5. CASE ApiTick
  BY <1>5 DEF ApiTick, ApiTypeOK, Item
<1>6. ASSUME NEW w \in Workers, Serve(w)
      PROVE  KeepsMakers
  BY <1>6, <1>1, <1>2, <1>3
     DEF Serve, Claim, Fetch, LookUpFolder, CheckQuota, CreateItem, Finalize, Release
<1> QED BY <1>1, <1>4, <1>5, <1>6 DEF ApiNext, Arrive, ArrivePromote, ServerDies, Sweep, ApiVars

\* A step of one request, which becomes r, keeps ReplayInv if what it owns, what it
\* is about to record, what it records and what it answers are its own.
LEMMA StepKeepsReplays ==
  ASSUME ApiTypeOK, ClaimInv, ReplayInv, KeepsMakers, NEW w \in Workers, NEW r \in Request,
         req' = [req EXCEPT ![w] = r],
         \A k \in RealKeys : record'[k] = record[k] \/ Owns(w, k) \/ record[k].status = "absent",
         \A k \in RealKeys : r.key = k /\ r.pc \in Claimed => record'[k].body = r.body,
         \A k \in RealKeys : record'[k].status = "done" =>
           record'[k] = record[k] \/ MadeFor(record'[k].item, k, record'[k].body),
         r.pc = "finalize" => /\ r.item \in Items /\ item'[r.item].status # "unused"
                              /\ item'[r.item].key = r.key /\ item'[r.item].body = r.body,
         r.pc = "idle" /\ r.item # NoItem /\ r.key # NoKey => MadeFor(r.item, r.key, r.body)
  PROVE  ReplayInv'
<1>1. \A v \in Workers : req'[v] = IF v = w THEN r ELSE req[v]
  BY DEF ApiTypeOK
<1>2. ASSUME NEW k \in RealKeys, NEW v \in Workers, Owns(v, k)'
      PROVE  record'[k].body = req'[v].body
  <2>1. CASE v = w
    BY <1>1, <1>2, <2>1 DEF Owns
  <2>2. CASE v # w
    <3>1. Owns(v, k)
      BY <1>1, <1>2, <2>2 DEF Owns
    <3>2. ~Owns(w, k) /\ record[k].status # "absent"
      BY <2>2, <3>1 DEF ClaimInv, OneWorkerPerKey
    <3> QED BY <1>1, <2>2, <3>1, <3>2 DEF ReplayInv
  <2> QED BY <2>1, <2>2
<1>3. ASSUME NEW v \in Workers, req'[v].pc = "finalize"
      PROVE  MadeFor(req[v].item, req[v].key, req[v].body)'
  <2>1. CASE v = w
    BY <1>1, <1>3, <2>1 DEF MadeFor
  <2>2. CASE v # w
    <3>1. MadeFor(req[v].item, req[v].key, req[v].body) /\ req'[v] = req[v]
      BY <1>1, <1>3, <2>2 DEF ReplayInv
    <3> QED BY <3>1 DEF MadeFor, KeepsMakers
  <2> QED BY <2>1, <2>2
<1>4. ASSUME NEW k \in RealKeys, record'[k].status = "done"
      PROVE  MadeFor(record[k].item, k, record[k].body)'
  <2>1. MadeFor(record'[k].item, k, record'[k].body)
    BY <1>4 DEF ReplayInv
  <2> QED BY <2>1 DEF MadeFor, KeepsMakers
<1>5. ASSUME NEW v \in Workers, Answered(v)'
      PROVE  MadeFor(req[v].item, req[v].key, req[v].body)'
  <2>1. CASE v = w
    <3>1. MadeFor(r.item, r.key, r.body) /\ req'[v] = r
      BY <1>1, <1>5, <2>1 DEF Answered
    <3> QED BY <3>1 DEF MadeFor, KeepsMakers
  <2>2. CASE v # w
    <3>1. MadeFor(req[v].item, req[v].key, req[v].body) /\ req'[v] = req[v]
      BY <1>1, <1>5, <2>2 DEF ReplayInv, Answered
    <3> QED BY <3>1 DEF MadeFor, KeepsMakers
  <2> QED BY <2>1, <2>2
<1> QED BY <1>2, <1>3, <1>4, <1>5 DEF ReplayInv

\* A request that goes idle with nothing to show keeps it.
LEMMA IdleKeepsReplays ==
  ASSUME ApiTypeOK, ClaimInv, ReplayInv, KeepsMakers, NEW w \in Workers,
         req' = [req EXCEPT ![w] = NoCall],
         \A k \in RealKeys : record'[k] = record[k] \/ Owns(w, k) \/ record[k].status = "absent",
         \A k \in RealKeys : record'[k].status = "done" =>
           record'[k] = record[k] \/ MadeFor(record'[k].item, k, record'[k].body)
  PROVE  ReplayInv'
<1>1. NoCall.pc = "idle" /\ NoCall.item = NoItem
  BY DEF NoCall
<1> QED BY <1>1, IdleType, StepKeepsReplays DEF Claimed

\* So does a request that moves on with the same key, body and item.
LEMMA GotoKeepsReplays ==
  ASSUME ApiTypeOK, ClaimInv, ReplayInv, KeepsMakers, NEW w \in Workers,
         NEW pc \in Pcs \ {"idle", "finalize"}, Onward(w, pc),
         pc \in Claimed => req[w].pc \in Claimed, UNCHANGED record
  PROVE  ReplayInv'
<1> DEFINE r == [req[w] EXCEPT !.pc = pc]
<1>1. r \in Request /\ req' = [req EXCEPT ![w] = r]
  BY GotoType DEF Onward, ApiTypeOK
<1>2. r.pc = pc /\ r.key = req[w].key /\ r.body = req[w].body
  BY DEF ApiTypeOK, Request
<1>3. \A k \in RealKeys : r.key = k /\ r.pc \in Claimed => record[k].body = r.body
  BY <1>2 DEF ReplayInv, Owns
<1> HIDE DEF r
<1> QED BY <1>1, <1>2, <1>3, StepKeepsReplays

\* No statement of a request breaks what is replayed.
LEMMA ServeKeepsReplays ==
  ASSUME ApiTypeOK, KeyedClaim, ClaimInv, ReplayInv, KeepsMakers, NEW w \in Workers, Serve(w)
  PROVE  ReplayInv'
<1>w. req[w] \in Request /\ req[w].item \in Items \union {NoItem}
  BY DEF ApiTypeOK, Request
<1>i. \A c : Answer(w, c) /\ UNCHANGED record => ReplayInv'
  BY IdleKeepsReplays DEF Answer
<1>g. \A pc \in Claimed \union {"promote"} :
        /\ Onward(w, pc) /\ pc # "finalize" /\ req[w].pc \in Claimed /\ UNCHANGED record
        => ReplayInv'
  BY GotoKeepsReplays DEF Pcs, Claimed
<1>f. \A c : Fail(w, c) /\ req[w].pc \in Claimed /\ UNCHANGED record => ReplayInv'
  BY <1>g DEF Fail, Claimed
<1>1. CASE Claim(w)
  <2> DEFINE k == req[w].key
             r == [req[w] EXCEPT !.pc = Work(req[w].body)]
  <2>1. k \in RealKeys
    BY <1>1 DEF Claim, KeyedClaim
  <2>2. Placeholder(w).body = req[w].body /\ Placeholder(w).status = "pending"
    BY DEF Placeholder
  <2>3. ASSUME SetRecord(k, Placeholder(w))
        PROVE  \A j \in RealKeys : record'[j] = IF j = k THEN Placeholder(w) ELSE record[j]
    BY <2>1, <2>3 DEF SetRecord, ApiTypeOK, RealKeys
  <2>4. CASE record[k].status = "absent" /\ SetRecord(k, Placeholder(w))
             /\ Onward(w, Work(req[w].body))
    <3>1. r \in Request /\ req' = [req EXCEPT ![w] = r]
      BY <2>4, WorkType, GotoType DEF Onward, ApiTypeOK, Pcs, Claimed
    <3>2. r.key = k /\ r.body = req[w].body /\ r.pc \in {"quota", "folder", "create"}
      BY <1>w, WorkType DEF Request
    <3>3. \A j \in RealKeys : record'[j] = record[j] \/ record[j].status = "absent"
      BY <2>3, <2>4
    <3>4. \A j \in RealKeys : r.key = j => record'[j].body = r.body
      BY <2>2, <2>3, <2>4, <3>2
    <3>5. \A j \in RealKeys : record'[j].status = "done" => record'[j] = record[j]
      BY <2>2, <2>3, <2>4
    <3> HIDE DEF k, r
    <3> QED BY <3>1, <3>2, <3>3, <3>4, <3>5, StepKeepsReplays
  <2>5. CASE Onward(w, "fetch") /\ UNCHANGED record
    BY <2>5, GotoKeepsReplays DEF Pcs, Claimed
  <2>6. CASE /\ Answer(w, 500)
             /\ UNCHANGED record \/ (record[k].status = "absent" /\ SetRecord(k, Placeholder(w)))
    <3>1. \A j \in RealKeys : record'[j] = record[j] \/ record[j].status = "absent"
      BY <2>3, <2>6
    <3>2. \A j \in RealKeys : record'[j].status = "done" => record'[j] = record[j]
      BY <2>2, <2>3, <2>6
    <3> QED BY <2>6, <3>1, <3>2, IdleKeepsReplays DEF Answer
  <2> QED BY <1>1, <2>4, <2>5, <2>6 DEF Claim
<1>2. CASE Fetch(w)
  <2> DEFINE k == req[w].key
             r == [req[w] EXCEPT !.pc = "idle", !.item = record[k].item, !.age = 0]
  <2>1. CASE \E c : Answer(w, c)
    BY <1>2, <2>1, <1>i DEF Fetch
  <2>2. CASE /\ record[k].status = "done" /\ record[k].body = req[w].body
             /\ Created(w, record[k].item)
    <3>1. k \in RealKeys
      BY <1>2 DEF Fetch, KeyedClaim
    <3>2. r \in Request /\ req' = [req EXCEPT ![w] = r]
      BY <2>2, <3>1, CreatedType DEF Created, ApiTypeOK, Record
    <3>3. r.pc = "idle" /\ r.item = record[k].item /\ r.key = k /\ r.body = req[w].body
      BY <1>w DEF Request
    <3>4. MadeFor(r.item, r.key, r.body)
      BY <2>2, <3>1, <3>3 DEF ReplayInv
    <3>5. UNCHANGED record
      BY <1>2 DEF Fetch
    <3> HIDE DEF k, r
    <3> QED BY <3>2, <3>3, <3>4, <3>5, StepKeepsReplays DEF Claimed
  <2> QED BY <1>2, <2>1, <2>2 DEF Fetch
<1>3. CASE LookUpFolder(w)
  BY <1>3, <1>i, <1>g DEF LookUpFolder, Claimed
<1>4. CASE CheckQuota(w)
  BY <1>4, <1>i, <1>g, <1>f DEF CheckQuota, Claimed
<1>5. CASE Promote(w)
  BY <1>5, <1>i DEF Promote
<1>6. CASE CreateItem(w)
  <2>o. req[w].pc \in Claimed /\ UNCHANGED record
    BY <1>6 DEF CreateItem, Claimed
  <2>1. ASSUME NEW i \in Items, Make(w, i),
               req' = [req EXCEPT ![w] = [@ EXCEPT !.pc = "finalize", !.item = i]]
        PROVE  ReplayInv'
    <3> DEFINE r == [req[w] EXCEPT !.pc = "finalize", !.item = i]
    <3>1. r \in Request /\ req' = [req EXCEPT ![w] = r]
      BY <1>w, <2>1 DEF Request, Claimed
    <3>2. r.pc = "finalize" /\ r.item = i /\ r.key = req[w].key /\ r.body = req[w].body
      BY <1>w DEF Request
    <3>3. item'[i].status # "unused" /\ item'[i].key = req[w].key /\ item'[i].body = req[w].body
      BY <2>1 DEF Make, ApiTypeOK
    <3>4. \A j \in RealKeys : r.key = j => record'[j].body = r.body
      BY <2>o, <3>2 DEF ReplayInv, Owns
    <3> HIDE DEF r
    <3> QED BY <2>o, <3>1, <3>2, <3>3, <3>4, StepKeepsReplays
  <2> QED BY <1>6, <1>f, <2>o, <2>1 DEF CreateItem
<1>7. CASE Finalize(w)
  <2> DEFINE k == req[w].key
  <2>o. req[w].pc \in Claimed /\ MadeFor(req[w].item, k, req[w].body)
    BY <1>7 DEF Finalize, Claimed, ReplayInv
  <2>1. \A j \in RealKeys : /\ record'[j] = record[j] \/ Owns(w, j)
                           /\ record'[j].body = record[j].body
                           /\ \/ record'[j] = record[j]
                              \/ MadeFor(record'[j].item, j, record'[j].body)
    <3>1. CASE UNCHANGED record
      BY <3>1
    <3>2. CASE Finalized(w) /\ k = NoKey
      BY <3>2 DEF Finalized, SetRecord
    <3>3. CASE Finalized(w) /\ k \in RealKeys
      <4> DEFINE n == [record[k] EXCEPT !.status = "done", !.item = req[w].item]
      <4>1. n.body = record[k].body /\ n.item = req[w].item
        BY <3>3 DEF ApiTypeOK, Record
      <4>2. record[k].body = req[w].body /\ Owns(w, k)
        BY <2>o, <3>3 DEF ReplayInv, Owns
      <4>3. record' = [record EXCEPT ![k] = n] \/ UNCHANGED record
        BY <3>3 DEF Finalized, SetRecord, ApiTypeOK, RealKeys
      <4>4. \A j \in RealKeys : record'[j] = record[j] \/ (j = k /\ record'[j] = n)
        <5> HIDE DEF n, k
        <5> QED BY <4>3 DEF ApiTypeOK
      <4> HIDE DEF n
      <4> QED BY <2>o, <4>1, <4>2, <4>4
    <3> QED BY <1>7, <1>w, <3>1, <3>2, <3>3 DEF Finalize, RealKeys, ApiTypeOK, Request
  <2>2. CASE Created(w, req[w].item)
    <3> DEFINE r == [req[w] EXCEPT !.pc = "idle", !.item = req[w].item, !.age = 0]
    <3>1. r \in Request /\ req' = [req EXCEPT ![w] = r]
      BY <1>w, <2>2, CreatedType DEF Created, ApiTypeOK
    <3>2. r.pc = "idle" /\ r.item = req[w].item /\ r.key = k /\ r.body = req[w].body
      BY <1>w DEF Request
    <3> HIDE DEF k, r
    <3> QED BY <2>o, <2>1, <3>1, <3>2, StepKeepsReplays DEF Claimed
  <2>3. CASE Answer(w, 500)
    BY <2>1, <2>3, IdleKeepsReplays DEF Answer
  <2>4. CASE Fail(w, 500)
    <3> DEFINE r == [req[w] EXCEPT !.pc = "release"]
    <3>1. r \in Request /\ req' = [req EXCEPT ![w] = r]
      BY <2>4, GotoType DEF Fail, Onward, ApiTypeOK, Pcs, Claimed
    <3>2. r.pc = "release" /\ r.key = k /\ r.body = req[w].body
      BY <1>w DEF Request
    <3>3. \A j \in RealKeys : r.key = j => record'[j].body = r.body
      BY <2>o, <2>1, <3>2 DEF ReplayInv, Owns
    <3> HIDE DEF k, r
    <3> QED BY <2>1, <3>1, <3>2, <3>3, StepKeepsReplays
  <2> QED BY <1>7, <2>2, <2>3, <2>4 DEF Finalize
<1>8. CASE Release(w)
  <2>1. \A j \in RealKeys : record'[j] = record[j] \/ (Owns(w, j) /\ record'[j] = NoRecord)
    BY <1>8 DEF Release, SetRecord, ApiTypeOK, Owns, Claimed
  <2>2. NoRecord.status = "absent"
    BY DEF NoRecord
  <2> QED BY <1>8, <2>1, <2>2, IdleKeepsReplays DEF Release, Answer
<1> QED BY <1>1, <1>2, <1>3, <1>4, <1>5, <1>6, <1>7, <1>8 DEF Serve

\* Time and the sweep change neither bodies nor makers; the sweep takes no record
\* from its owner.
LEMMA TickKeepsReplays ==
  ASSUME ApiTypeOK, ReplayInv, KeepsMakers, ApiTick
  PROVE  ReplayInv'
<1>1. \A w \in Workers : /\ req'[w].pc = req[w].pc /\ req'[w].key = req[w].key
                         /\ req'[w].body = req[w].body /\ req'[w].item = req[w].item
  BY DEF ApiTick, ApiTypeOK, Request
<1>2. \A k \in RealKeys : /\ record'[k].status = record[k].status
                          /\ record'[k].body = record[k].body
                          /\ record'[k].item = record[k].item
  BY DEF ApiTick, ApiTypeOK, Record
<1>3. \A w \in Workers : /\ Answered(w)' <=> Answered(w)
                         /\ \A k \in RealKeys : Owns(w, k)' <=> Owns(w, k)
  BY <1>1 DEF Answered, Owns
<1>4. \A i, k, b : MadeFor(i, k, b) => i \in Items /\ item'[i].status # "unused"
                                      /\ item'[i].key = k /\ item'[i].body = b
  BY DEF MadeFor, KeepsMakers
<1> QED BY <1>1, <1>2, <1>3, <1>4 DEF ReplayInv, MadeFor

\* The sweep only takes records away, and none that is owned.
LEMMA SweepKeepsReplays ==
  ASSUME ApiTypeOK, ClaimInv, ReplayInv, Sweep
  PROVE  ReplayInv'
<1>1. UNCHANGED <<req, item>>
  BY DEF Sweep
<1>2. \A k \in RealKeys : record'[k] = record[k] \/ (Stale(k) /\ record'[k] = NoRecord)
  BY DEF Sweep
<1>3. ASSUME NEW k \in RealKeys, NEW w \in Workers, Owns(w, k)
      PROVE  record'[k] = record[k]
  <2>1. record[k].age <= req[w].age /\ req[w].age <= TIMEOUT
    BY <1>3 DEF ClaimInv, Live, Owns, Claimed
  <2>2. record[k].age \in Nat /\ req[w].age \in Nat
    BY OldType DEF ApiTypeOK, Record, Request, Ages
  <2>3. ~Stale(k)
    BY <2>1, <2>2, OldType DEF Stale
  <2> QED BY <1>2, <2>3
<1>4. NoRecord.status = "absent"
  BY DEF NoRecord
<1>5. \A k \in RealKeys : record'[k].status = "done" => record'[k] = record[k]
  BY <1>2, <1>4
<1> QED BY <1>1, <1>3, <1>5 DEF ReplayInv, Owns, Answered, MadeFor

\* What is replayed is inductive, given the claims.
LEMMA NextKeepsReplays ==
  ASSUME ApiTypeOK, KeyedClaim, ClaimInv, ReplayInv, [ApiNext]_ApiVars
  PROVE  ReplayInv'
<1>m. KeepsMakers
  BY NextKeepsMakers
<1>1. ASSUME NEW w \in Workers, NEW k \in Keys, NEW b \in Bodies, Arrive(w, k, b)
      PROVE  ReplayInv'
  <2> DEFINE pc == IF k = NoKey THEN Work(b) ELSE "claim"
             r == [NoCall EXCEPT !.pc = pc, !.key = k, !.body = b]
  <2>1. /\ pc \in {"quota", "folder", "create", "claim"}
        /\ k \in RealKeys => pc = "claim"
    BY WorkType DEF RealKeys
  <2>2. r \in Request /\ r.pc = pc /\ r.key = k
    <3> HIDE DEF pc
    <3> QED BY <2>1, IdleType DEF Request, Claimed, NoCall
  <2>3. req' = [req EXCEPT ![w] = r] /\ UNCHANGED record
    BY <1>1 DEF Arrive
  <2> HIDE DEF pc, r
  <2> QED BY <1>m, <2>1, <2>2, <2>3, StepKeepsReplays DEF Claimed
<1>2. ASSUME NEW w \in Workers, NEW i \in Items, ArrivePromote(w, i)
      PROVE  ReplayInv'
  <2> DEFINE r == [NoCall EXCEPT !.pc = "quota", !.item = i]
  <2>1. r \in Request /\ r.key = NoKey /\ r.pc = "quota"
    BY IdleType DEF Request, NoCall, Claimed
  <2>2. req' = [req EXCEPT ![w] = r] /\ UNCHANGED record
    BY <1>2 DEF ArrivePromote
  <2> HIDE DEF r
  <2> QED BY <1>m, <2>1, <2>2, StepKeepsReplays DEF RealKeys
<1>3. ASSUME NEW w \in Workers, ServerDies(w)
      PROVE  ReplayInv'
  BY <1>m, <1>3, IdleKeepsReplays DEF ServerDies
<1>4. CASE (\E i \in Items : Publish(i) \/ Cancel(i)) \/ UNCHANGED ApiVars
  <2>1. UNCHANGED <<record, req>>
    BY <1>4 DEF Publish, Cancel, ApiVars
  <2>2. \A i, k, b : MadeFor(i, k, b) => i \in Items /\ item'[i].status # "unused"
                                        /\ item'[i].key = k /\ item'[i].body = b
    BY <1>m DEF MadeFor, KeepsMakers
  <2> QED BY <2>1, <2>2 DEF ReplayInv, Owns, Answered, MadeFor
<1> QED BY <1>m, <1>1, <1>2, <1>3, <1>4, ServeKeepsReplays, TickKeepsReplays,
           SweepKeepsReplays DEF ApiNext

\* A 201 under an idempotency key names the item that was made for that key and
\* that body, whether the answer is the first one or is read back from the record.
THEOREM ReplayFaithful == ApiSpec => []ReplayIsFaithful
<1>1. ApiInit => ClaimInv /\ ReplayInv
  BY DEF ApiInit, ClaimInv, ReplayInv, OneWorkerPerKey, Live, Owns, Answered, NoCall, NoRecord,
         Claimed
<1>2. ApiTypeOK /\ KeyedClaim /\ ClaimInv /\ ReplayInv /\ [ApiNext]_ApiVars => ClaimInv' /\ ReplayInv'
  BY NextKeepsClaims, NextKeepsReplays
<1>3. ReplayInv => ReplayIsFaithful
  BY DEF ReplayInv, ReplayIsFaithful, MadeFor
<1> QED BY <1>1, <1>2, <1>3, TypeCorrect, PTL DEF ApiSpec

-----------------------------------------------------------------------------
(* Steps of one request, read at one place                                 *)

\* A request that moves to its next statement changes nothing else.
LEMMA OnwardAt ==
  ASSUME ApiTypeOK, NEW w \in Workers, NEW pc \in Pcs, Onward(w, pc)
  PROVE  /\ \A v \in Workers \ {w} : req'[v] = req[v]
         /\ req'[w].pc = pc /\ req'[w].key = req[w].key /\ req'[w].body = req[w].body
         /\ req'[w].item = req[w].item
  BY DEF Onward, ApiTypeOK, Request

\* A request that fails goes on to release its claim.
LEMMA FailAt ==
  ASSUME ApiTypeOK, NEW w \in Workers, NEW c, Fail(w, c)
  PROVE  /\ \A v \in Workers \ {w} : req'[v] = req[v]
         /\ req'[w].pc = "release" /\ req'[w].key = req[w].key /\ req'[w].body = req[w].body
         /\ req'[w].item = req[w].item
  BY OnwardAt DEF Fail, Pcs, Claimed

\* A request that is answered is no more.
LEMMA AnswerAt ==
  ASSUME ApiTypeOK, NEW w \in Workers, NEW c, Answer(w, c)
  PROVE  /\ \A v \in Workers \ {w} : req'[v] = req[v]
         /\ req'[w].pc = "idle" /\ req'[w].key = NoKey /\ req'[w].item = NoItem
  BY DEF Answer, NoCall, ApiTypeOK

\* A request that is answered 201 leaves its key and its item.
LEMMA CreatedAt ==
  ASSUME ApiTypeOK, NEW w \in Workers, NEW i, Created(w, i)
  PROVE  /\ \A v \in Workers \ {w} : req'[v] = req[v]
         /\ req'[w].pc = "idle" /\ req'[w].key = req[w].key /\ req'[w].item = i
  BY DEF Created, ApiTypeOK, Request

\* A new row is the only one that changes, and shows what it was made for.
LEMMA MakeAt ==
  ASSUME ApiTypeOK, NEW w \in Workers, NEW i \in Items, Make(w, i)
  PROVE  /\ item[i].status = "unused" /\ \A j \in Items \ {i} : item'[j] = item[j]
         /\ item'[i].status \in {"scheduled", "draft", "media"}
         /\ item'[i].status = "scheduled" => KindOf[req[w].body] = "schedule"
         /\ item'[i].key = req[w].key /\ item'[i].created = 0 /\ item'[i].touched = 0
         /\ item'[i].admitted = 0
  BY DEF Make, ApiTypeOK

\* The numbers of a well-typed state.
LEMMA ApiNumbers ==
  ASSUME ApiTypeOK
  PROVE  /\ \A i \in Items : /\ item[i].created \in Ages /\ item[i].touched \in Ages
                             /\ item[i].admitted \in Ages
         /\ \A k \in RealKeys : record[k].age \in Ages
         /\ \A w \in Workers : req[w].age \in Ages
         /\ failures \in Nat /\ crashes \in Nat /\ Ages \subseteq Nat
  BY OldType, AgentApiAssumption DEF ApiTypeOK, Item, Record, Request, Ages

\* An age never falls when time passes, and keeps its order.
LEMMA OlderKeepsOrder ==
  \A a, b \in Ages : /\ a <= Older(a) /\ Older(a) <= a + 1
                     /\ a <= b => Older(a) <= Older(b)
  BY OldType DEF Older, Ages

\* Sets of items and of threads can be counted.
LEMMA Countable ==
  /\ \A S \in SUBSET Items : IsFiniteSet(S) /\ Cardinality(S) \in Nat
  /\ \A S \in SUBSET Workers :
       IsFiniteSet(S) /\ Cardinality(S) \in Nat /\ Cardinality(S) <= Cardinality(Workers)
  /\ Cardinality(Workers) >= 1
<1>1. IsFiniteSet(Items) /\ IsFiniteSet(Workers)
  BY AgentApiAssumption, FS_Subset
<1>2. \A S \in SUBSET Items : IsFiniteSet(S) /\ Cardinality(S) \in Nat
  BY <1>1, FS_Subset, FS_CardinalityType
<1>3. \A S \in SUBSET Workers :
        IsFiniteSet(S) /\ Cardinality(S) \in Nat /\ Cardinality(S) <= Cardinality(Workers)
  BY <1>1, FS_Subset, FS_CardinalityType
<1>4. Cardinality(Workers) # 0 /\ Cardinality(Workers) \in Nat
  BY <1>1, FS_EmptySet, FS_CardinalityType, AgentApiAssumption
<1> QED BY <1>2, <1>3, <1>4

\* A set within another has no more members, nor more than one more if it is
\* within the other and a member.
LEMMA CountsCompare ==
  ASSUME NEW S, NEW T, IsFiniteSet(S)
  PROVE  /\ T \subseteq S => Cardinality(T) <= Cardinality(S)
         /\ \A x : T \subseteq S \union {x} => Cardinality(T) <= Cardinality(S) + 1
         /\ \A x : x \in S /\ T \subseteq S \ {x} => Cardinality(T) + 1 <= Cardinality(S)
<1>0. Cardinality(S) \in Nat
  BY FS_CardinalityType
<1>1. T \subseteq S => Cardinality(T) <= Cardinality(S)
  BY FS_Subset
<1>2. ASSUME NEW x, T \subseteq S \union {x} PROVE Cardinality(T) <= Cardinality(S) + 1
  <2>1. IsFiniteSet(S \union {x}) /\ Cardinality(S \union {x}) <= Cardinality(S) + 1
        /\ Cardinality(S \union {x}) \in Nat
    BY <1>0, FS_AddElement
  <2>2. IsFiniteSet(T) /\ Cardinality(T) <= Cardinality(S \union {x})
    BY <1>2, <2>1, FS_Subset
  <2> QED BY <1>0, <2>1, <2>2, FS_CardinalityType
<1>3. ASSUME NEW x, x \in S, T \subseteq S \ {x} PROVE Cardinality(T) + 1 <= Cardinality(S)
  <2>1. IsFiniteSet(S \ {x}) /\ Cardinality(S \ {x}) = Cardinality(S) - 1
    BY <1>3, FS_RemoveElement
  <2>2. IsFiniteSet(T) /\ Cardinality(T) <= Cardinality(S \ {x})
    BY <1>3, <2>1, FS_Subset
  <2> QED BY <1>0, <2>1, <2>2, FS_CardinalityType
<1> QED BY <1>1, <1>2, <1>3

-----------------------------------------------------------------------------
(* The quota                                                               *)

\* A step that admits nothing and lets nobody pass keeps the count.
LEMMA NothingAdmitted ==
  ASSUME WithinQuota, Admitted' \subseteq Admitted, Passed' \subseteq Passed
  PROVE  WithinQuota'
<1>1. Admitted \subseteq Items /\ Passed \subseteq Workers
  BY DEF Admitted, Passed
<1>2. /\ IsFiniteSet(Admitted) /\ Cardinality(Admitted) \in Nat
      /\ IsFiniteSet(Passed) /\ Cardinality(Passed) \in Nat
      /\ Cardinality(Admitted') \in Nat /\ Cardinality(Passed') \in Nat
  BY <1>1, Countable
<1>3. Cardinality(Admitted') <= Cardinality(Admitted) /\ Cardinality(Passed') <= Cardinality(Passed)
  BY <1>2, CountsCompare
<1> QED BY <1>2, <1>3, Countable, AgentApiAssumption DEF WithinQuota

\* So does the step of a request that has passed and uses what it was granted.
LEMMA OneAdmitted ==
  ASSUME WithinQuota, NEW i, NEW w \in Passed, Admitted' \subseteq Admitted \union {i},
         Passed' \subseteq Passed \ {w}, Admitted' \subseteq Items, Passed' \subseteq Workers
  PROVE  WithinQuota'
<1>1. Admitted \subseteq Items /\ Passed \subseteq Workers
  BY DEF Admitted, Passed
<1>2. /\ IsFiniteSet(Admitted) /\ Cardinality(Admitted) \in Nat
      /\ IsFiniteSet(Passed) /\ Cardinality(Passed) \in Nat
      /\ Cardinality(Admitted') \in Nat /\ Cardinality(Passed') \in Nat
  BY <1>1, Countable
<1>3. /\ Cardinality(Admitted') <= Cardinality(Admitted) + 1
      /\ Cardinality(Passed') + 1 <= Cardinality(Passed)
  BY <1>2, CountsCompare
<1> QED BY <1>2, <1>3, Countable, AgentApiAssumption DEF WithinQuota

\* And the check of the quota: it has counted every admitted row.
LEMMA OnePasses ==
  ASSUME ApiTypeOK, QuotaInv, UNCHANGED item, Used < LIMIT, Passed' \subseteq Workers
  PROVE  WithinQuota'
<1> DEFINE U == {i \in Items : /\ item[i].status \in QUOTA_CONSUMING_STATUSES
                              /\ item[i].touched <= WINDOW}
<1>1. Admitted \subseteq U
  BY ApiNumbers, AgentApiAssumption DEF QuotaInv, TouchedLast, Admitted
<1>2. Admitted' = Admitted
  BY DEF Admitted
<1>3. U \subseteq Items /\ Used = Cardinality(U)
  BY DEF Used
<1> HIDE DEF U
<1>4. IsFiniteSet(U) /\ Cardinality(U) \in Nat /\ Cardinality(Admitted) <= Cardinality(U)
  BY <1>1, <1>3, Countable, CountsCompare
<1>5. Cardinality(Admitted) \in Nat
  BY <1>1, <1>3, Countable
<1>6. /\ Cardinality(Passed') \in Nat /\ Cardinality(Passed') <= Cardinality(Workers)
      /\ Cardinality(Workers) \in Nat
  BY Countable
<1> QED BY <1>2, <1>3, <1>4, <1>5, <1>6, AgentApiAssumption DEF WithinQuota

\* Only the upload of a file looks a folder up.
LEMMA NextFolders ==
  ASSUME ApiTypeOK, FoldersOfUploads, [ApiNext]_ApiVars
  PROVE  FoldersOfUploads'
<1> USE DEF FoldersOfUploads
<1>b. \A b : Work(b) = "folder" => KindOf[b] = "upload_to_folder"
  BY DEF Work
<1>1. ASSUME NEW w \in Workers, NEW k \in Keys, NEW b \in Bodies, Arrive(w, k, b)
      PROVE  FoldersOfUploads'
  <2> PICK pc : pc = IF k = NoKey THEN Work(b) ELSE "claim"
    OBVIOUS
  <2>1. req' = [req EXCEPT ![w] = [NoCall EXCEPT !.pc = pc, !.key = k, !.body = b]]
    BY <1>1 DEF Arrive
  <2>2. req'[w].pc = pc /\ req'[w].body = b /\ \A v \in Workers \ {w} : req'[v] = req[v]
    BY <2>1 DEF NoCall, ApiTypeOK
  <2> QED BY <1>b, <2>2
<1>2. ASSUME NEW w \in Workers, NEW i \in Items, ArrivePromote(w, i)
      PROVE  FoldersOfUploads'
  BY <1>2 DEF ArrivePromote, NoCall, ApiTypeOK
<1>3. ASSUME NEW w \in Workers, Serve(w)
      PROVE  FoldersOfUploads'
  <2>i. \A c : Answer(w, c) => FoldersOfUploads'
    BY AnswerAt
  <2>g. \A pc \in Pcs \ {"folder"} : Onward(w, pc) => FoldersOfUploads'
    BY OnwardAt
  <2>f. \A c : Fail(w, c) => FoldersOfUploads'
    BY FailAt
  <2>c. \A i : Created(w, i) => FoldersOfUploads'
    BY CreatedAt
  <2>w. Onward(w, Work(req[w].body)) => FoldersOfUploads'
    BY <1>b, OnwardAt, WorkType DEF Pcs, Claimed
  <2>1. CASE Claim(w) \/ Fetch(w) \/ LookUpFolder(w)
    BY <2>1, <2>i, <2>g, <2>c, <2>w DEF Claim, Fetch, LookUpFolder, Pcs, Claimed
  <2>2. CASE CheckQuota(w) \/ Promote(w)
    BY <2>2, <2>i, <2>g, <2>f DEF CheckQuota, Promote, Pcs, Claimed
  <2>3. CASE CreateItem(w)
    <3>1. \A i : req' = [req EXCEPT ![w] = [@ EXCEPT !.pc = "finalize", !.item = i]]
                   => FoldersOfUploads'
      BY DEF ApiTypeOK, Request
    <3> QED BY <2>3, <3>1, <2>f DEF CreateItem
  <2>4. CASE Finalize(w) \/ Release(w)
    BY <2>4, <2>i, <2>f, <2>c DEF Finalize, Release
  <2> QED BY <1>3, <2>1, <2>2, <2>3, <2>4 DEF Serve
<1>4. ASSUME NEW w \in Workers, ServerDies(w)
      PROVE  FoldersOfUploads'
  BY <1>4 DEF ServerDies, NoCall, ApiTypeOK
<1>5. CASE ApiTick
  BY <1>5 DEF ApiTick, ApiTypeOK, Request
<1>6. CASE Sweep \/ (\E i \in Items : Publish(i) \/ Cancel(i)) \/ UNCHANGED ApiVars
  BY <1>6 DEF Sweep, Publish, Cancel, ApiVars
<1> QED BY <1>1, <1>2, <1>3, <1>4, <1>5, <1>6 DEF ApiNext

\* What each step does to the rows: it leaves them, makes one, schedules one, moves
\* one to another status, or lets them grow older.
LEMMA ItemSteps ==
  ASSUME ApiTypeOK, [ApiNext]_ApiVars
  PROVE  \/ UNCHANGED item
         \/ \E w \in Workers, i \in Items : CreateItem(w) /\ Make(w, i)
         \/ \E w \in Workers : /\ Promote(w)
                               /\ \A i \in Items \ {req[w].item} : item'[i] = item[i]
                               /\ \A i \in Items : i = req[w].item =>
                                    /\ item'[i].touched = 0 /\ item'[i].admitted = 0
                                    /\ item'[i].key = item[i].key
                                    /\ item'[i].created = item[i].created
                                    /\ item'[i].status = "scheduled"
         \/ \E i \in Items : /\ Publish(i) \/ Cancel(i)
                             /\ \A j \in Items \ {i} : item'[j] = item[j]
                             /\ item[i].status = "scheduled" /\ item'[i].touched = 0
                             /\ item'[i].status \in {"draft", "published", "failed"}
                             /\ item'[i].key = item[i].key
                             /\ item'[i].created = item[i].created
                             /\ item'[i].admitted = item[i].admitted
         \/ /\ ApiTick
            /\ \A i \in Items : /\ item'[i].status = item[i].status
                                /\ item'[i].key = item[i].key
                                /\ item[i].status = "unused" => item'[i] = item[i]
                                /\ item[i].status # "unused" =>
                                     /\ item'[i].created = Older(item[i].created)
                                     /\ item'[i].touched = Older(item[i].touched)
                                     /\ item'[i].admitted = Older(item[i].admitted)
<1>1. ASSUME NEW w \in Workers, Promote(w)
      PROVE  \/ UNCHANGED item
             \/ /\ \A i \in Items \ {req[w].item} : item'[i] = item[i]
                /\ \A i \in Items : i = req[w].item =>
                     /\ item'[i].touched = 0 /\ item'[i].admitted = 0
                     /\ item'[i].key = item[i].key /\ item'[i].created = item[i].created
                     /\ item'[i].status = "scheduled"
  <2> PICK j : j = req[w].item
    OBVIOUS
  <2> PICK n : n = [item[j] EXCEPT !.status = "scheduled", !.touched = 0, !.admitted = 0]
    OBVIOUS
  <2>1. j \in Items => /\ n.status = "scheduled" /\ n.key = item[j].key /\ n.touched = 0
                       /\ n.admitted = 0 /\ n.created = item[j].created
    BY DEF ApiTypeOK, Item
  <2>2. item' = [item EXCEPT ![j] = n] \/ UNCHANGED item
    BY <1>1 DEF Promote
  <2> QED BY <2>1, <2>2 DEF ApiTypeOK
<1>2. ASSUME NEW i \in Items, Publish(i) \/ Cancel(i)
      PROVE  /\ \A j \in Items \ {i} : item'[j] = item[j]
             /\ item[i].status = "scheduled" /\ item'[i].touched = 0
             /\ item'[i].status \in {"draft", "published", "failed"}
             /\ item'[i].key = item[i].key /\ item'[i].created = item[i].created
             /\ item'[i].admitted = item[i].admitted
  <2>1. PICK s \in {"published", "failed", "draft"} :
          item' = [item EXCEPT ![i] = [@ EXCEPT !.status = s, !.touched = 0]]
    BY <1>2 DEF Publish, Cancel
  <2> PICK n : n = [item[i] EXCEPT !.status = s, !.touched = 0]
    OBVIOUS
  <2>2. /\ n.status = s /\ n.key = item[i].key /\ n.touched = 0
        /\ n.created = item[i].created /\ n.admitted = item[i].admitted
    BY DEF ApiTypeOK, Item
  <2>3. item' = [item EXCEPT ![i] = n]
    BY <2>1
  <2>4. item[i].status = "scheduled"
    BY <1>2 DEF Publish, Cancel
  <2> QED BY <2>2, <2>3, <2>4 DEF ApiTypeOK
<1>3. ASSUME ApiTick, NEW i \in Items
      PROVE  /\ item'[i].status = item[i].status /\ item'[i].key = item[i].key
             /\ item[i].status = "unused" => item'[i] = item[i]
             /\ item[i].status # "unused" =>
                  /\ item'[i].created = Older(item[i].created)
                  /\ item'[i].touched = Older(item[i].touched)
                  /\ item'[i].admitted = Older(item[i].admitted)
  BY <1>3 DEF ApiTick, ApiTypeOK, Item
<1>4. ASSUME NEW w \in Workers, Serve(w)
      PROVE  UNCHANGED item \/ Promote(w) \/ \E i \in Items : CreateItem(w) /\ Make(w, i)
  BY <1>4 DEF Serve, Claim, Fetch, LookUpFolder, CheckQuota, CreateItem, Finalize, Release
<1>5. \/ UNCHANGED item \/ ApiTick
      \/ \E w \in Workers : Serve(w)
      \/ \E i \in Items : Publish(i) \/ Cancel(i)
  BY DEF ApiNext, Arrive, ArrivePromote, ServerDies, Sweep, ApiVars
<1> QED BY <1>1, <1>2, <1>3, <1>4, <1>5

\* Whatever schedules a row touches it.
LEMMA NextTouched ==
  ASSUME ApiTypeOK, TouchedLast, [ApiNext]_ApiVars
  PROVE  TouchedLast'
<1> USE DEF TouchedLast, QUOTA_CONSUMING_STATUSES
<1>n. \A i \in Items : item[i].touched \in Ages /\ item[i].admitted \in Ages /\ Ages \subseteq Nat
  BY ApiNumbers
<1>1. CASE UNCHANGED item
  BY <1>1
<1>2. ASSUME NEW w \in Workers, NEW i \in Items, CreateItem(w), Make(w, i)
      PROVE  TouchedLast'
  BY <1>2, MakeAt
<1>3. ASSUME NEW w \in Workers, Promote(w), \A i \in Items \ {req[w].item} : item'[i] = item[i],
             \A i \in Items : i = req[w].item => item'[i].touched = 0 /\ item'[i].admitted = 0
      PROVE  TouchedLast'
  BY <1>3
<1>4. ASSUME NEW i \in Items, \A j \in Items \ {i} : item'[j] = item[j], item'[i].touched = 0,
             item'[i].admitted = item[i].admitted
      PROVE  TouchedLast'
  BY <1>4, <1>n
<1>5. ASSUME \A i \in Items : /\ item'[i].status = item[i].status
                              /\ item[i].status # "unused" =>
                                   /\ item'[i].touched = Older(item[i].touched)
                                   /\ item'[i].admitted = Older(item[i].admitted)
      PROVE  TouchedLast'
  BY <1>5, <1>n, OlderKeepsOrder
<1> QED BY <1>1, <1>2, <1>3, <1>4, <1>5, ItemSteps

\* A step that schedules nothing admits nothing.
LEMMA AdmittedShrinks ==
  ASSUME ApiTypeOK, [ApiNext]_ApiVars,
         \/ UNCHANGED item
         \/ ApiTick
         \/ \E i \in Items : Publish(i) \/ Cancel(i)
  PROVE  Admitted' \subseteq Admitted
<1>n. \A i \in Items : item[i].admitted \in Ages
  BY ApiNumbers
<1>1. CASE UNCHANGED item
  BY <1>1 DEF Admitted
<1>2. CASE ApiTick
  <2>1. \A i \in Items : /\ item'[i].status = item[i].status
                         /\ item[i].status # "unused" => item'[i].admitted = Older(item[i].admitted)
    BY <1>2 DEF ApiTick, ApiTypeOK, Item
  <2>2. \A i \in Items : item[i].status # "unused" /\ item'[i].admitted <= WINDOW
                         => item[i].admitted <= WINDOW
    BY <2>1, <1>n, OlderKeepsOrder, OlderType, ApiNumbers, AgentApiAssumption
  <2> QED BY <2>1, <2>2 DEF Admitted, QUOTA_CONSUMING_STATUSES
<1>3. ASSUME NEW i \in Items, Publish(i) \/ Cancel(i)
      PROVE  Admitted' \subseteq Admitted
  <2>1. PICK s \in {"published", "failed", "draft"} :
          item' = [item EXCEPT ![i] = [@ EXCEPT !.status = s, !.touched = 0]]
    BY <1>3 DEF Publish, Cancel
  <2>2. item[i].status = "scheduled"
    BY <1>3 DEF Publish, Cancel
  <2> PICK n : n = [item[i] EXCEPT !.status = s, !.touched = 0]
    OBVIOUS
  <2>3. n.admitted = item[i].admitted /\ item' = [item EXCEPT ![i] = n]
    BY <2>1 DEF ApiTypeOK, Item
  <2>4. item'[i].admitted = item[i].admitted /\ \A j \in Items \ {i} : item'[j] = item[j]
    BY <2>3 DEF ApiTypeOK
  <2> QED BY <2>2, <2>4 DEF Admitted, QUOTA_CONSUMING_STATUSES
<1> QED BY <1>1, <1>2, <1>3

\* No statement of a request takes the quota beyond its bound.
LEMMA ServeKeepsQuota ==
  ASSUME ApiTypeOK, QuotaInv, NEW w \in Workers, Serve(w), [ApiNext]_ApiVars
  PROVE  WithinQuota'
<1>q. WithinQuota /\ FoldersOfUploads
  BY DEF QuotaInv
<1>p. Passed' \subseteq Workers
  BY DEF Passed
<1>a. UNCHANGED item => Admitted' \subseteq Admitted
  BY AdmittedShrinks
<1>b. \A b : /\ Work(b) # "promote"
             /\ Work(b) = "create" => KindOf[b] # "schedule"
  BY DEF Work
<1>s. ASSUME \A v \in Workers \ {w} : req'[v] = req[v],
             req'[w].pc \notin {"create", "promote"}
      PROVE  Passed' \subseteq Passed \ {w}
  BY <1>s DEF Passed
<1>i. \A c : Answer(w, c) => Passed' \subseteq Passed \ {w}
  BY <1>s, AnswerAt
<1>f. \A c : Fail(w, c) => Passed' \subseteq Passed \ {w}
  BY <1>s, FailAt
<1>c. \A i : Created(w, i) => Passed' \subseteq Passed \ {w}
  BY <1>s, CreatedAt
<1>1. CASE Claim(w) \/ Fetch(w)
  <2>1. Onward(w, "fetch") => Passed' \subseteq Passed
    BY <1>s, OnwardAt DEF Pcs
  <2>2. Onward(w, Work(req[w].body)) => Passed' \subseteq Passed
    BY <1>b, OnwardAt, WorkType DEF Pcs, Claimed, Passed
  <2>3. Passed' \subseteq Passed /\ UNCHANGED item
    BY <1>1, <1>i, <1>c, <2>1, <2>2 DEF Claim, Fetch
  <2> QED BY <1>q, <1>a, <2>3, NothingAdmitted
<1>2. CASE LookUpFolder(w)
  <2>1. KindOf[req[w].body] # "schedule"
    BY <1>2, <1>q DEF LookUpFolder, FoldersOfUploads
  <2>2. Onward(w, "create") => Passed' \subseteq Passed
    BY <2>1, OnwardAt DEF Pcs, Claimed, Passed
  <2>3. Passed' \subseteq Passed /\ UNCHANGED item
    BY <1>2, <1>i, <2>2 DEF LookUpFolder
  <2> QED BY <1>q, <1>a, <2>3, NothingAdmitted
<1>3. CASE CheckQuota(w)
  <2>1. UNCHANGED item
    BY <1>3 DEF CheckQuota
  <2>2. Used < LIMIT \/ Passed' \subseteq Passed
    BY <1>3, <1>i, <1>f DEF CheckQuota
  <2> QED BY <1>q, <1>a, <1>p, <2>1, <2>2, NothingAdmitted, OnePasses
<1>4. CASE Promote(w)
  <2>1. w \in Passed /\ Passed' \subseteq Passed \ {w}
    BY <1>4, <1>i DEF Promote, Passed
  <2>2. \A i \in Items \ {req[w].item} : item'[i] = item[i]
    BY <1>4 DEF Promote, ApiTypeOK
  <2>3. Admitted' \subseteq Admitted \union {req[w].item} /\ Admitted' \subseteq Items
    BY <2>2 DEF Admitted
  <2> QED BY <1>q, <1>p, <2>1, <2>3, OneAdmitted
<1>5. CASE CreateItem(w)
  <2>1. Passed' \subseteq Passed \ {w}
    <3>1. ASSUME NEW i \in Items, req' = [req EXCEPT ![w] = [@ EXCEPT !.pc = "finalize", !.item = i]]
          PROVE  Passed' \subseteq Passed \ {w}
      BY <1>s, <3>1 DEF ApiTypeOK, Request
    <3> QED BY <1>5, <1>f, <3>1 DEF CreateItem
  <2>2. CASE UNCHANGED item
    BY <1>q, <1>a, <2>1, <2>2, NothingAdmitted
  <2>3. ASSUME NEW i \in Items, Make(w, i)
        PROVE  WithinQuota'
    <3>1. CASE KindOf[req[w].body] = "schedule"
      <4>1. w \in Passed
        BY <1>5, <3>1 DEF CreateItem, Passed
      <4>2. Admitted' \subseteq Admitted \union {i} /\ Admitted' \subseteq Items
        BY <2>3, MakeAt DEF Admitted
      <4> QED BY <1>q, <1>p, <2>1, <4>1, <4>2, OneAdmitted
    <3>2. CASE KindOf[req[w].body] # "schedule"
      <4>1. Admitted' \subseteq Admitted
        BY <2>3, <3>2, MakeAt DEF Admitted, QUOTA_CONSUMING_STATUSES
      <4> QED BY <1>q, <2>1, <4>1, NothingAdmitted
    <3> QED BY <3>1, <3>2
  <2> QED BY <1>5, <2>2, <2>3 DEF CreateItem
<1>6. CASE Finalize(w) \/ Release(w)
  <2>1. Passed' \subseteq Passed /\ UNCHANGED item
    BY <1>6, <1>i, <1>f, <1>c DEF Finalize, Release
  <2> QED BY <1>q, <1>a, <2>1, NothingAdmitted
<1> QED BY <1>1, <1>2, <1>3, <1>4, <1>5, <1>6 DEF Serve

\* No step takes the quota beyond its bound.
LEMMA NextQuota ==
  ASSUME ApiTypeOK, QuotaInv, [ApiNext]_ApiVars
  PROVE  QuotaInv'
<1>1. TouchedLast' /\ FoldersOfUploads'
  BY NextTouched, NextFolders DEF QuotaInv
<1>q. WithinQuota
  BY DEF QuotaInv
<1>2. ASSUME NEW w \in Workers, NEW k \in Keys, NEW b \in Bodies, Arrive(w, k, b)
      PROVE  WithinQuota'
  <2> PICK pc : pc = IF k = NoKey THEN Work(b) ELSE "claim"
    OBVIOUS
  <2>1. pc # "promote" /\ (pc = "create" => KindOf[b] # "schedule")
    BY DEF Work
  <2>2. req' = [req EXCEPT ![w] = [NoCall EXCEPT !.pc = pc, !.key = k, !.body = b]]
    BY <1>2 DEF Arrive
  <2>3. req'[w].pc = pc /\ req'[w].body = b /\ \A v \in Workers \ {w} : req'[v] = req[v]
    BY <2>2 DEF NoCall, ApiTypeOK
  <2>4. Passed' \subseteq Passed
    BY <2>1, <2>3 DEF Passed
  <2>5. Admitted' \subseteq Admitted
    BY <1>2 DEF Arrive, Admitted
  <2> QED BY <1>q, <2>4, <2>5, NothingAdmitted
<1>3. ASSUME NEW w \in Workers, ServerDies(w) \/ \E i \in Items : ArrivePromote(w, i)
      PROVE  WithinQuota'
  <2>1. req'[w].pc \in {"idle", "quota"} /\ \A v \in Workers \ {w} : req'[v] = req[v]
    <3>1. CASE ServerDies(w)
      BY <3>1 DEF ServerDies, NoCall, ApiTypeOK
    <3>2. ASSUME NEW i \in Items, ArrivePromote(w, i)
          PROVE  req'[w].pc = "quota" /\ \A v \in Workers \ {w} : req'[v] = req[v]
      <4> PICK r : r = [NoCall EXCEPT !.pc = "quota", !.item = i]
        OBVIOUS
      <4>1. r.pc = "quota" /\ req' = [req EXCEPT ![w] = r]
        BY <3>2 DEF NoCall, ArrivePromote
      <4> QED BY <4>1 DEF ApiTypeOK
    <3> QED BY <1>3, <3>1, <3>2
  <2>3. Passed' \subseteq Passed
    BY <2>1 DEF Passed
  <2>2. Admitted' \subseteq Admitted
    BY <1>3 DEF ServerDies, ArrivePromote, Admitted
  <2> QED BY <1>q, <2>2, <2>3, NothingAdmitted
<1>4. ASSUME ApiTick \/ Sweep \/ (\E i \in Items : Publish(i) \/ Cancel(i)) \/ UNCHANGED ApiVars
      PROVE  WithinQuota'
  <2>1. \A w \in Workers : req'[w].pc = req[w].pc /\ req'[w].body = req[w].body
    <3>1. CASE ApiTick
      BY <3>1 DEF ApiTick, ApiTypeOK, Request
    <3>2. CASE UNCHANGED req
      BY <3>2
    <3> QED BY <1>4, <3>1, <3>2 DEF Sweep, Publish, Cancel, ApiVars
  <2>2. Passed' \subseteq Passed
    BY <2>1 DEF Passed
  <2>3. Admitted' \subseteq Admitted
    BY <1>4, AdmittedShrinks DEF Sweep, ApiVars
  <2> QED BY <1>q, <2>2, <2>3, NothingAdmitted
<1>5. WithinQuota'
  BY <1>2, <1>3, <1>4, ServeKeepsQuota DEF ApiNext
<1> QED BY <1>1, <1>5 DEF QuotaInv

\* The quota is checked in one transaction and used in another, by any number of
\* request threads: together they schedule at most as many posts beyond LIMIT as there
\* are threads but one.
THEOREM QuotaIsBounded == ApiSpec => []AdmissionsBounded
<1>1. ApiInit => QuotaInv
  <2> SUFFICES ASSUME ApiInit PROVE QuotaInv
    OBVIOUS
  <2>1. Admitted = {} /\ Passed = {} /\ TouchedLast /\ FoldersOfUploads
    BY DEF ApiInit, Admitted, Passed, NoCall, QUOTA_CONSUMING_STATUSES, TouchedLast,
           FoldersOfUploads
  <2>2. Cardinality(Workers) \in Nat /\ Cardinality(Workers) >= 1 /\ Cardinality({}) = 0
    BY Countable, FS_EmptySet
  <2> QED BY <2>1, <2>2, AgentApiAssumption DEF QuotaInv, WithinQuota
<1>2. ApiTypeOK /\ QuotaInv /\ [ApiNext]_ApiVars => QuotaInv'
  BY NextQuota
<1>3. QuotaInv => AdmissionsBounded
  <2>1. Admitted \subseteq Items /\ Passed \subseteq Workers
    BY DEF Admitted, Passed
  <2>2. Cardinality(Admitted) \in Nat /\ Cardinality(Passed) \in Nat /\ Cardinality(Workers) \in Nat
    BY <2>1, Countable
  <2> QED BY <2>2, AgentApiAssumption DEF QuotaInv, WithinQuota, AdmissionsBounded
<1> QED BY <1>1, <1>2, <1>3, TypeCorrect, PTL DEF ApiSpec

-----------------------------------------------------------------------------
(* What a key stands for                                                   *)

\* What a step does to one thread: it leaves it as it is but for its age, brings it a
\* request that owns no key yet, serves it, or kills it.
LEMMA RequestSteps ==
  ASSUME ApiTypeOK, [ApiNext]_ApiVars, NEW v \in Workers
  PROVE  \/ /\ req'[v].pc = req[v].pc /\ req'[v].key = req[v].key /\ req'[v].body = req[v].body
            /\ req'[v].item = req[v].item
         \/ /\ ~Live(v) /\ Live(v)' /\ \A k \in RealKeys : ~Owns(v, k)'
            /\ req'[v].item # NoItem => req'[v].key = NoKey
         \/ Serve(v) /\ UNCHANGED crashes
         \/ req'[v].pc = "idle" /\ req'[v].item = NoItem /\ crashes' = crashes + 1
<1>1. ASSUME NEW w \in Workers, NEW k \in Keys, NEW b \in Bodies, Arrive(w, k, b)
      PROVE  \/ req'[v] = req[v]
             \/ /\ ~Live(v) /\ Live(v)' /\ \A j \in RealKeys : ~Owns(v, j)'
                /\ req'[v].item = NoItem
  <2> PICK pc : pc = IF k = NoKey THEN Work(b) ELSE "claim"
    OBVIOUS
  <2> PICK r : r = [NoCall EXCEPT !.pc = pc, !.key = k, !.body = b]
    OBVIOUS
  <2>1. r.pc = pc /\ r.key = k /\ r.item = NoItem /\ req' = [req EXCEPT ![w] = r]
    BY <1>1 DEF Arrive, NoCall
  <2>2. pc # "idle" /\ (k \in RealKeys => pc = "claim")
    BY WorkType DEF RealKeys
  <2>3. v # w => req'[v] = req[v]
    BY <2>1 DEF ApiTypeOK
  <2>4. v = w => req'[v] = r /\ ~Live(v)
    BY <1>1, <2>1 DEF ApiTypeOK, Arrive
  <2> QED BY <2>1, <2>2, <2>3, <2>4 DEF Live, Owns, Claimed
<1>2. ASSUME NEW w \in Workers, NEW i \in Items, ArrivePromote(w, i)
      PROVE  \/ req'[v] = req[v]
             \/ /\ ~Live(v) /\ Live(v)' /\ \A j \in RealKeys : ~Owns(v, j)'
                /\ req'[v].key = NoKey
  <2> PICK r : r = [NoCall EXCEPT !.pc = "quota", !.item = i]
    OBVIOUS
  <2>1. r.pc = "quota" /\ r.key = NoKey /\ req' = [req EXCEPT ![w] = r]
    BY <1>2 DEF NoCall, ArrivePromote
  <2>2. v # w => req'[v] = req[v]
    BY <2>1 DEF ApiTypeOK
  <2>3. v = w => req'[v] = r /\ ~Live(v)
    BY <1>2, <2>1 DEF ApiTypeOK, ArrivePromote
  <2> QED BY <2>1, <2>2, <2>3 DEF Live, Owns, RealKeys
<1>3. ASSUME NEW w \in Workers, Serve(w)
      PROVE  req'[v] = req[v] \/ (Serve(v) /\ UNCHANGED crashes)
  <2>1. UNCHANGED crashes
    BY <1>3 DEF Serve, Claim, Fetch, LookUpFolder, CheckQuota, Promote, CreateItem, Finalize,
                Release
  <2>2. \E r : req' = [req EXCEPT ![w] = r]
    BY <1>3 DEF Serve, Claim, Fetch, LookUpFolder, CheckQuota, Promote, CreateItem, Finalize,
                Release, Fail, Onward, Answer, Created
  <2>3. v # w => req'[v] = req[v]
    BY <2>2 DEF ApiTypeOK
  <2> QED BY <1>3, <2>1, <2>3
<1>4. ASSUME NEW w \in Workers, ServerDies(w)
      PROVE  \/ req'[v] = req[v]
             \/ req'[v].pc = "idle" /\ req'[v].item = NoItem /\ crashes' = crashes + 1
  BY <1>4 DEF ServerDies, NoCall, ApiTypeOK
<1>5. CASE ApiTick
  BY <1>5 DEF ApiTick, ApiTypeOK, Request
<1>6. CASE UNCHANGED req
  BY <1>6
<1> QED BY <1>1, <1>2, <1>3, <1>4, <1>5, <1>6 DEF ApiNext, Sweep, Publish, Cancel, ApiVars

\* What a step does to the record of a key: nothing, the claim of a free key, the
\* finalization or the release by its owner, the sweep, or the passing of time.
LEMMA RecordSteps ==
  ASSUME ApiTypeOK, KeyedClaim, ClaimInv, [ApiNext]_ApiVars, NEW k \in RealKeys
  PROVE  \/ record'[k] = record[k] /\ ~ApiTick
         \/ /\ record[k].status = "absent"
            /\ record'[k].status = "pending" /\ record'[k].age = 0 /\ ~ApiTick
            /\ \E w \in Workers : Claim(w) /\ req[w].key = k
         \/ /\ record[k].status = "pending"
            /\ record'[k].status = "done" /\ record'[k].age = record[k].age
            /\ \E w \in Workers : /\ Finalize(w) /\ Owns(w, k) /\ record'[k].item = req[w].item
         \/ /\ record[k].status = "pending" /\ record'[k].status = "absent"
            /\ \E w \in Workers : Release(w) /\ Owns(w, k)
         \/ Sweep /\ Stale(k) /\ record'[k].status = "absent"
         \/ /\ ApiTick
            /\ record'[k].status = record[k].status /\ record'[k].item = record[k].item
            /\ record'[k].body = record[k].body
            /\ record[k].status # "absent" => record'[k].age = Older(record[k].age)
<1>s. ASSUME NEW j \in RealKeys, NEW r, SetRecord(j, r)
      PROVE  /\ k # j => record'[k] = record[k]
             /\ k = j => record'[k] = r
  <2>1. record' = [record EXCEPT ![j] = r]
    BY <1>s DEF SetRecord, RealKeys
  <2> QED BY <2>1 DEF ApiTypeOK
<1>o. \A r : SetRecord(NoKey, r) => record' = record
  BY DEF SetRecord
<1>0. \A w \in Workers : req[w].key \in RealKeys \union {NoKey}
  BY DEF ApiTypeOK, Request, RealKeys
<1>t. ASSUME ApiTick
      PROVE  \A w \in Workers : req'[w].pc = req[w].pc
  <2>1. \A w \in Workers : req'[w] = IF Live(w) THEN [req[w] EXCEPT !.age = Older(@)] ELSE req[w]
    BY <1>t DEF ApiTick
  <2> QED BY <2>1 DEF ApiTypeOK, Request
<1>1. ASSUME NEW w \in Workers, Claim(w)
      PROVE  /\ ~ApiTick
             /\ \/ record'[k] = record[k]
                \/ /\ record[k].status = "absent" /\ req[w].key = k
                   /\ record'[k].status = "pending" /\ record'[k].age = 0
  <2>1. req[w].key \in RealKeys
    BY <1>1 DEF Claim, KeyedClaim
  <2>2. Placeholder(w).status = "pending" /\ Placeholder(w).age = 0
    BY DEF Placeholder
  <2>3. ~ApiTick
    <3>1. req'[w].pc # "claim"
      BY <1>1, OnwardAt, AnswerAt, WorkType DEF Claim, Pcs, Claimed
    <3> QED BY <1>1, <1>t, <3>1 DEF Claim
  <2>4. CASE SetRecord(req[w].key, Placeholder(w)) /\ record[req[w].key].status = "absent"
    <3>1. CASE req[w].key = k
      BY <1>s, <2>2, <2>3, <2>4, <3>1
    <3>2. CASE req[w].key # k
      BY <1>s, <2>1, <2>3, <2>4, <3>2
    <3> QED BY <3>1, <3>2
  <2>5. CASE UNCHANGED record
    BY <2>3, <2>5
  <2> QED BY <1>1, <2>4, <2>5 DEF Claim
<1>2. ASSUME NEW w \in Workers, Finalize(w)
      PROVE  /\ ~ApiTick
             /\ \/ record'[k] = record[k]
                \/ /\ record[k].status = "pending" /\ Owns(w, k)
                   /\ record'[k].status = "done" /\ record'[k].age = record[k].age
                   /\ record'[k].item = req[w].item
  <2>1. req[w].key = k => Owns(w, k) /\ record[k].status = "pending"
    BY <1>2 DEF Finalize, Owns, Claimed, ClaimInv
  <2> PICK n : n = [record[k] EXCEPT !.status = "done", !.item = req[w].item]
    OBVIOUS
  <2>2. n.status = "done" /\ n.age = record[k].age /\ n.item = req[w].item
    BY DEF ApiTypeOK, Record
  <2>3. Finalized(w) /\ req[w].key = k => record'[k] = n
    <3>1. ASSUME Finalized(w), req[w].key = k PROVE record'[k] = n
      <4>1. SetRecord(k, n)
        BY <2>1, <3>1 DEF Finalized
      <4> QED BY <1>s, <4>1
    <3> QED BY <3>1
  <2>4. Finalized(w) /\ req[w].key # k => record'[k] = record[k]
    BY <1>0, <1>s, <1>o DEF Finalized
  <2>5. ~ApiTick
    <3>1. req'[w].pc # "finalize"
      BY <1>2, FailAt, AnswerAt, CreatedAt DEF Finalize
    <3> QED BY <1>2, <1>t, <3>1 DEF Finalize
  <2> QED BY <1>2, <2>1, <2>2, <2>3, <2>4, <2>5 DEF Finalize
<1>3. ASSUME NEW w \in Workers, Release(w)
      PROVE  /\ ~ApiTick
             /\ \/ record'[k] = record[k]
                \/ /\ record[k].status = "pending" /\ Owns(w, k)
                   /\ record'[k].status = "absent"
  <2>1. req[w].key = k => Owns(w, k)
    BY <1>3 DEF Release, Owns, Claimed
  <2>2. NoRecord.status = "absent"
    BY DEF NoRecord
  <2>3. ~ApiTick
    <3>1. req'[w].pc # "release"
      BY <1>3, AnswerAt DEF Release
    <3> QED BY <1>3, <1>t, <3>1 DEF Release
  <2>4. CASE req[w].key = k
    <3>1. \/ UNCHANGED record
          \/ SetRecord(k, IF record[k].status = "pending" THEN NoRecord ELSE record[k])
      BY <1>3, <2>4 DEF Release
    <3>2. record'[k] = record[k] \/ (record[k].status = "pending" /\ record'[k] = NoRecord)
      BY <1>s, <3>1
    <3> QED BY <2>1, <2>2, <2>3, <2>4, <3>2
  <2>5. CASE req[w].key # k
    <3>1. UNCHANGED record \/ \E r : SetRecord(req[w].key, r)
      BY <1>3 DEF Release
    <3>2. record'[k] = record[k]
      BY <1>0, <1>s, <1>o, <2>5, <3>1
    <3> QED BY <2>3, <3>2
  <2> QED BY <2>4, <2>5
<1>4. CASE ApiTick
  <2>1. record'[k] = IF record[k].status = "absent" THEN record[k]
                     ELSE [record[k] EXCEPT !.age = Older(record[k].age)]
    BY <1>4 DEF ApiTick
  <2>2. record[k] \in Record
    BY DEF ApiTypeOK
  <2>3. /\ record'[k].status = record[k].status /\ record'[k].item = record[k].item
        /\ record'[k].body = record[k].body
        /\ record[k].status # "absent" => record'[k].age = Older(record[k].age)
    BY <2>1, <2>2 DEF Record
  <2> QED BY <1>4, <2>3
<1>5. CASE Sweep /\ ~ApiTick
  BY <1>5 DEF Sweep, NoRecord
<1>6. CASE UNCHANGED record /\ ~ApiTick
  BY <1>6
<1>7. ASSUME NEW w \in Workers, Serve(w)
      PROVE  UNCHANGED record \/ Claim(w) \/ Finalize(w) \/ Release(w)
  BY <1>7 DEF Serve, Fetch, LookUpFolder, CheckQuota, Promote, CreateItem
<1> QED BY <1>1, <1>2, <1>3, <1>4, <1>5, <1>6, <1>7
        DEF ApiNext, Arrive, ArrivePromote, ServerDies, Publish, Cancel, ApiVars

\* An item without a key has never been made under one.
LEMMA NextUnused ==
  ASSUME ApiTypeOK, UnusedHasNoKey, [ApiNext]_ApiVars
  PROVE  UnusedHasNoKey'
<1> USE DEF UnusedHasNoKey
<1>1. CASE UNCHANGED item
  BY <1>1
<1>2. ASSUME NEW w \in Workers, NEW i \in Items, Make(w, i)
      PROVE  UnusedHasNoKey'
  BY <1>2, MakeAt
<1> QED BY <1>1, <1>2, ItemSteps

\* Requests that promote a draft come without a key.
LEMMA NextPromotes ==
  ASSUME ApiTypeOK, KeyedClaim, PromotesHaveNoKey, [ApiNext]_ApiVars
  PROVE  PromotesHaveNoKey'
<1> SUFFICES ASSUME NEW v \in Workers, req'[v].item # NoItem,
                    req'[v].pc \in {"claim", "fetch", "folder", "quota", "create"}
             PROVE  req'[v].key = NoKey
  BY DEF PromotesHaveNoKey
<1>1. CASE req'[v].pc = req[v].pc /\ req'[v].key = req[v].key /\ req'[v].item = req[v].item
  BY <1>1 DEF PromotesHaveNoKey
<1>2. CASE Serve(v)
  <2>1. \A c : ~Answer(v, c) /\ ~Fail(v, c)
    BY AnswerAt, FailAt
  <2>2. \A i : ~Created(v, i)
    BY CreatedAt
  <2>3. \A i : req' # [req EXCEPT ![v] = [@ EXCEPT !.pc = "finalize", !.item = i]]
    BY DEF ApiTypeOK, Request
  <2>4. /\ req[v].pc \in {"claim", "fetch", "folder", "quota", "create"}
        /\ \E pc \in Pcs : Onward(v, pc)
    <3>1. CASE Claim(v) \/ LookUpFolder(v)
      BY <2>1, <3>1, WorkType DEF Claim, LookUpFolder, Pcs, Claimed
    <3>2. CASE CheckQuota(v)
      BY <2>1, <3>2 DEF CheckQuota, Pcs, Claimed
    <3>3. ~Fetch(v) /\ ~Promote(v) /\ ~Finalize(v) /\ ~Release(v)
      BY <2>1, <2>2 DEF Fetch, Promote, Finalize, Release
    <3>4. ~CreateItem(v)
      BY <2>1, <2>3 DEF CreateItem
    <3> QED BY <1>2, <3>1, <3>2, <3>3, <3>4 DEF Serve
  <2>5. req'[v].key = req[v].key /\ req'[v].item = req[v].item
    BY <2>4, OnwardAt
  <2> QED BY <2>4, <2>5 DEF PromotesHaveNoKey
<1> QED BY <1>1, <1>2, RequestSteps

\* A row's age and key are never rewritten, only its status and its age grow.
LEMMA RowsLast ==
  ASSUME ApiTypeOK, UnusedHasNoKey, [ApiNext]_ApiVars, NEW i \in Items, NEW k \in RealKeys
  PROVE  \/ /\ item'[i].key = k
            => /\ item[i].key = k /\ item[i].status # "unused"
               /\ item[i].created <= item'[i].created
               /\ ~ApiTick => item'[i].created = item[i].created
               /\ ApiTick => item'[i].created = Older(item[i].created)
         \/ \E w \in Workers : CreateItem(w) /\ Make(w, i) /\ ~ApiTick
<1>n. item[i].created \in Ages /\ Ages \subseteq Nat /\ item[i].created <= item[i].created
  BY ApiNumbers
<1>k. item[i].key = k => item[i].status # "unused"
  BY DEF UnusedHasNoKey, RealKeys
<1>t. ASSUME ApiTick
      PROVE  /\ item'[i].key = item[i].key
             /\ item[i].status # "unused" => item'[i].created = Older(item[i].created)
  BY <1>t DEF ApiTick, ApiTypeOK, Item
<1>1. CASE ApiTick
  BY <1>1, <1>k, <1>n, <1>t, OlderKeepsOrder
<1>2. CASE ~ApiTick /\ item'[i].key = item[i].key /\ item'[i].created = item[i].created
  BY <1>2, <1>k, <1>n
<1>3. ASSUME ~ApiTick
      PROVE  \/ item'[i].key = item[i].key /\ item'[i].created = item[i].created
             \/ \E w \in Workers : CreateItem(w) /\ Make(w, i)
  BY <1>3, ItemSteps, MakeAt
<1> QED BY <1>1, <1>2, <1>3

\* Items are made after their key was claimed: their age follows the record's.
LEMMA NextItemsFollow ==
  ASSUME ApiTypeOK, KeyedClaim, ClaimInv, UnusedHasNoKey, ItemsFollowClaims, [ApiNext]_ApiVars
  PROVE  ItemsFollowClaims'
<1> SUFFICES ASSUME NEW k \in RealKeys, NEW i \in Items, item'[i].key = k,
                    record'[k].status # "absent"
             PROVE  record'[k].age <= item'[i].created + TIMEOUT
  BY DEF ItemsFollowClaims
<1>n. /\ item[i].created \in Ages /\ record[k].age \in Ages /\ Ages \subseteq Nat
      /\ TIMEOUT \in Nat
  BY ApiNumbers, OldType
<1>1. CASE item[i].key = k /\ record[k].status # "absent"
  <2>0. record[k].age <= item[i].created + TIMEOUT
    BY <1>1 DEF ItemsFollowClaims
  <2>1. CASE ApiTick
    <3>1. record'[k].age = Older(record[k].age) /\ item'[i].created = Older(item[i].created)
      BY <1>1, <2>1 DEF ApiTick, ApiTypeOK, Record, Item, UnusedHasNoKey, RealKeys
    <3> QED BY <1>n, <2>0, <3>1, OldType DEF Older, Ages
  <2>2. CASE ~ApiTick
    <3>1. item'[i].created = item[i].created
      <4>1. ~\E w \in Workers : Make(w, i)
        BY <1>1, MakeAt DEF UnusedHasNoKey, RealKeys
      <4> QED BY <2>2, <4>1, RowsLast
    <3>2. record'[k].age = record[k].age
      BY <1>1, <2>2, RecordSteps
    <3> QED BY <2>0, <3>1, <3>2
  <2> QED BY <2>1, <2>2
<1>2. CASE record[k].status = "absent"
  <2>1. record'[k].age = 0
    BY <1>2, RecordSteps DEF Stale
  <2>2. item'[i].created \in Nat
    <3>1. ~ApiTick
      BY <1>2, RecordSteps
    <3>2. CASE \E w \in Workers : Make(w, i)
      BY <3>2, MakeAt
    <3>3. CASE item'[i].created = item[i].created
      BY <1>n, <3>3
    <3> QED BY <3>1, <3>2, <3>3, RowsLast
  <2> QED BY <1>n, <2>1, <2>2
<1>3. CASE item[i].key # k /\ record[k].status # "absent"
  <2>1. PICK w \in Workers : CreateItem(w) /\ Make(w, i)
    BY <1>3, RowsLast
  <2>2. req[w].key = k /\ item'[i].created = 0
    BY <2>1, MakeAt
  <2>3. Owns(w, k) /\ Live(w)
    BY <2>1, <2>2 DEF CreateItem, Owns, Live, Claimed
  <2>4. record[k].age <= req[w].age /\ req[w].age <= TIMEOUT
    BY <2>3 DEF ClaimInv
  <2>5. UNCHANGED record
    BY <2>1 DEF CreateItem
  <2>6. req[w].age \in Nat
    BY ApiNumbers
  <2>7. record'[k].age = record[k].age /\ record[k].age \in Nat
    BY <1>n, <2>5
  <2> QED BY <1>n, <2>2, <2>4, <2>6, <2>7
<1> QED BY <1>1, <1>2, <1>3

\* The rows made under a key are new ones, or were made under it before.
LEMMA MadeSteps ==
  ASSUME ApiTypeOK, UnusedHasNoKey, [ApiNext]_ApiVars, NEW k \in RealKeys
  PROVE  \/ MadeUnder(k)' \subseteq MadeUnder(k)
         \/ \E w \in Workers, i \in Items :
              /\ CreateItem(w) /\ Make(w, i) /\ req[w].key = k
              /\ MadeUnder(k)' \subseteq MadeUnder(k) \union {i}
<1>n. /\ \A i \in Items : item[i].created \in Ages
      /\ Ages \subseteq Nat /\ TTL - TIMEOUT \in Int
  BY ApiNumbers, OldType
<1>1. CASE \E w \in Workers, i \in Items : CreateItem(w) /\ Make(w, i) /\ req[w].key = k
  <2> PICK w \in Workers, i \in Items : CreateItem(w) /\ Make(w, i) /\ req[w].key = k
    BY <1>1
  <2>1. \A j \in Items \ {i} : item'[j] = item[j]
    BY MakeAt
  <2>2. MadeUnder(k)' \subseteq MadeUnder(k) \union {i}
    BY <2>1 DEF MadeUnder, Fresh
  <2> QED BY <2>2
<1>2. CASE ~\E w \in Workers, i \in Items : CreateItem(w) /\ Make(w, i) /\ req[w].key = k
  <2>1. ASSUME NEW i \in Items, item'[i].key = k
        PROVE  /\ item[i].key = k /\ item[i].status # "unused"
               /\ item[i].created <= item'[i].created
               /\ item'[i].created = item[i].created \/ item'[i].created = Older(item[i].created)
    <3>1. ~\E w \in Workers : CreateItem(w) /\ Make(w, i)
      BY <1>2, <2>1, MakeAt
    <3> QED BY <2>1, <3>1, RowsLast
  <2>2. ASSUME NEW i \in Items, item'[i].key = k, item'[i].created <= TTL - TIMEOUT
        PROVE  item[i].created <= TTL - TIMEOUT
    <3>1. item'[i].created \in Nat /\ item[i].created \in Nat
      BY <1>n, <2>1, <2>2, OlderType
    <3> QED BY <1>n, <2>1, <2>2, <3>1
  <2>3. MadeUnder(k)' \subseteq MadeUnder(k)
    BY <2>1, <2>2 DEF MadeUnder, Fresh
  <2> QED BY <2>3
<1> QED BY <1>1, <1>2

\* A key becomes free as its owner releases it, after a failure, or by the sweep.
LEMMA FreeSteps ==
  ASSUME ApiTypeOK, KeyedClaim, ClaimInv, [ApiNext]_ApiVars, NEW k \in RealKeys, Free(k)'
  PROVE  Free(k) \/ failures' = failures + 1 \/ (Sweep /\ Stale(k))
<1>1. CASE record'[k].status = "absent"
  <2>1. CASE record[k].status = "absent" \/ (Sweep /\ Stale(k))
    BY <2>1 DEF Free
  <2>2. ASSUME NEW w \in Workers, Release(w), Owns(w, k)
        PROVE  Free(k)
    BY <2>2 DEF Release, Free
  <2> QED BY <1>1, <2>1, <2>2, RecordSteps
<1>2. ASSUME NEW v \in Workers, Owns(v, k)', req'[v].pc # "finalize"
      PROVE  Free(k) \/ failures' = failures + 1
  <2>1. CASE req'[v].pc = req[v].pc /\ req'[v].key = req[v].key
    BY <1>2, <2>1 DEF Free, Owns
  <2>2. CASE Serve(v)
    <3>i. \A c : ~Answer(v, c)
      BY <1>2, AnswerAt DEF Owns, Claimed
    <3>c. \A i : ~Created(v, i)
      BY <1>2, CreatedAt DEF Owns, Claimed
    <3>1. CASE Claim(v)
      <4>1. Onward(v, Work(req[v].body)) \/ Onward(v, "fetch")
        BY <3>1, <3>i DEF Claim
      <4>2. ~Onward(v, "fetch") /\ req'[v].key = req[v].key
        BY <1>2, <4>1, OnwardAt, WorkType DEF Owns, Claimed, Pcs
      <4> QED BY <1>2, <3>1, <3>i, <4>2 DEF Claim, Free, Owns
    <3>2. CASE Fetch(v) \/ Promote(v)
      BY <3>2, <3>i, <3>c DEF Fetch, Promote
    <3>3. CASE LookUpFolder(v) \/ CheckQuota(v) \/ CreateItem(v) \/ Release(v)
      <4>1. req[v].pc \in Claimed \ {"finalize"}
        BY <3>3 DEF LookUpFolder, CheckQuota, CreateItem, Release, Claimed
      <4>2. req'[v].key = req[v].key
        <5>1. \A i : req' = [req EXCEPT ![v] = [@ EXCEPT !.pc = "finalize", !.item = i]]
                     => req'[v].pc = "finalize"
          BY DEF ApiTypeOK, Request
        <5>2. Onward(v, "create") \/ Onward(v, "promote") \/ \E c : Fail(v, c)
          BY <1>2, <3>3, <3>i, <5>1 DEF LookUpFolder, CheckQuota, CreateItem, Release
        <5> QED BY <5>2, OnwardAt, FailAt DEF Pcs, Claimed
      <4> QED BY <1>2, <4>1, <4>2 DEF Free, Owns
    <3>4. CASE Finalize(v)
      BY <3>4, <3>i, <3>c DEF Finalize, StatementFails
    <3> QED BY <2>2, <3>1, <3>2, <3>3, <3>4 DEF Serve
  <2> QED BY <1>2, <2>1, <2>2, RequestSteps DEF Owns, Claimed
<1> QED BY <1>1, <1>2 DEF Free

\* Failures are only ever counted up.
LEMMA FailureSteps ==
  ASSUME ApiTypeOK, [ApiNext]_ApiVars
  PROVE  failures' = failures \/ failures' = failures + 1
<1>1. ASSUME NEW w \in Workers, Serve(w)
      PROVE  failures' = failures \/ failures' = failures + 1
  BY <1>1 DEF Serve, Claim, Fetch, LookUpFolder, CheckQuota, Promote, CreateItem, Finalize,
              Release, StatementFails, NoFault
<1> QED BY <1>1 DEF ApiNext, Arrive, ArrivePromote, ServerDies, Publish, Cancel, Sweep, ApiTick,
                    ApiVars

\* A key makes one item, and one more for each failure, in its window.
LEMMA NextCopies ==
  ASSUME ApiTypeOK, KeyedClaim, ClaimInv, UnusedHasNoKey, ItemsFollowClaims, CopiesExcused,
         [ApiNext]_ApiVars
  PROVE  CopiesExcused'
<1> SUFFICES ASSUME NEW k \in RealKeys
             PROVE  /\ Cardinality(MadeUnder(k)') <= 1 + failures'
                    /\ Free(k)' => Cardinality(MadeUnder(k)') <= failures'
  BY DEF CopiesExcused
<1>c. /\ Cardinality(MadeUnder(k)) <= 1 + failures
      /\ Free(k) => Cardinality(MadeUnder(k)) <= failures
  BY DEF CopiesExcused
<1>m. MadeUnder(k) \subseteq Items /\ MadeUnder(k)' \subseteq Items
  BY DEF MadeUnder
<1>n. /\ IsFiniteSet(MadeUnder(k)) /\ Cardinality(MadeUnder(k)) \in Nat
      /\ Cardinality(MadeUnder(k)') \in Nat
      /\ failures \in Nat /\ failures' \in Nat
      /\ failures' = failures \/ failures' = failures + 1
  BY <1>m, Countable, FailureSteps, ApiNumbers
<1>1. CASE MadeUnder(k)' \subseteq MadeUnder(k)
  <2>1. Cardinality(MadeUnder(k)') <= Cardinality(MadeUnder(k))
    BY <1>1, <1>n, CountsCompare
  <2>2. CASE Sweep /\ Stale(k)
    <3>1. \A i \in Items : item[i].key = k => record[k].age <= item[i].created + TIMEOUT
      BY <2>2 DEF ItemsFollowClaims, Stale
    <3>2. record[k].age > TTL /\ record[k].age \in Nat
      BY <2>2, ApiNumbers DEF Stale
    <3>3. \A i \in Items : item[i].created \in Nat
      BY ApiNumbers
    <3>4. MadeUnder(k) = {}
      BY <3>1, <3>2, <3>3, OldType DEF MadeUnder, Fresh
    <3>5. Cardinality(MadeUnder(k)) = 0
      BY <3>4, FS_EmptySet
    <3> QED BY <1>n, <2>1, <3>5
  <2>3. CASE ~(Sweep /\ Stale(k))
    <3>1. Free(k)' => Free(k) \/ failures' = failures + 1
      BY <2>3, FreeSteps
    <3> QED BY <1>c, <1>n, <2>1, <3>1
  <2> QED BY <2>2, <2>3
<1>2. ASSUME NEW w \in Workers, NEW i \in Items, CreateItem(w), Make(w, i), req[w].key = k,
             MadeUnder(k)' \subseteq MadeUnder(k) \union {i}
      PROVE  /\ Cardinality(MadeUnder(k)') <= 1 + failures'
             /\ Free(k)' => Cardinality(MadeUnder(k)') <= failures'
  <2>1. Cardinality(MadeUnder(k)') <= Cardinality(MadeUnder(k)) + 1
    BY <1>2, <1>n, CountsCompare
  <2>2. Owns(w, k) /\ req[w].pc = "create"
    BY <1>2 DEF CreateItem, Owns, Claimed
  <2>3. Cardinality(MadeUnder(k)) <= failures
    BY <1>c, <2>2 DEF Free
  <2>4. failures' = failures + 1 \/ ~Free(k)'
    <3>1. CASE failures' = failures
      <4>1. PICK j \in Items : req' = [req EXCEPT ![w] = [@ EXCEPT !.pc = "finalize", !.item = j]]
        <5>1. ~UNCHANGED item
          BY <1>2, MakeAt
        <5>2. ~StatementFails
          BY <1>n, <3>1 DEF StatementFails
        <5> QED BY <1>2, <5>1, <5>2 DEF CreateItem
      <4> PICK r : r = [req[w] EXCEPT !.pc = "finalize", !.item = j]
        OBVIOUS
      <4>2. r.pc = "finalize" /\ req' = [req EXCEPT ![w] = r]
        BY <4>1 DEF ApiTypeOK, Request
      <4>3. req'[w].pc = "finalize" /\ \A v \in Workers \ {w} : req'[v] = req[v]
        BY <4>2 DEF ApiTypeOK
      <4>4. \A v \in Workers \ {w} : ~Owns(v, k)'
        BY <2>2, <4>3 DEF Owns, ClaimInv, OneWorkerPerKey
      <4>5. record'[k].status # "absent"
        BY <1>2, <2>2 DEF ClaimInv, CreateItem
      <4> QED BY <4>3, <4>4, <4>5 DEF Free
    <3> QED BY <1>n, <3>1
  <2> QED BY <1>n, <2>1, <2>3, <2>4
<1> QED BY <1>1, <1>2, MadeSteps

\* A thread that has an answer to show had it before, has just recorded it, or has
\* just read it from the record.
LEMMA AnswerSteps ==
  ASSUME ApiTypeOK, KeyedClaim, [ApiNext]_ApiVars, NEW v \in Workers, Answered(v)'
  PROVE  \/ Answered(v) /\ req'[v].key = req[v].key /\ req'[v].item = req[v].item
         \/ /\ Finalize(v) /\ Finalized(v)
            /\ req'[v].key = req[v].key /\ req'[v].item = req[v].item
         \/ /\ UNCHANGED record /\ req[v].key \in RealKeys /\ record[req[v].key].status = "done"
            /\ req'[v].key = req[v].key /\ req'[v].item = record[req[v].key].item
<1>1. CASE req'[v].pc = req[v].pc /\ req'[v].key = req[v].key /\ req'[v].item = req[v].item
  BY <1>1 DEF Answered
<1>2. CASE Serve(v)
  <2>i. \A c : ~Answer(v, c) /\ ~Fail(v, c)
    BY AnswerAt, FailAt DEF Answered
  <2>g. \A pc \in Pcs \ {"idle"} : ~Onward(v, pc)
    BY OnwardAt DEF Answered
  <2>m. \A i : req' # [req EXCEPT ![v] = [@ EXCEPT !.pc = "finalize", !.item = i]]
    BY DEF Answered, ApiTypeOK, Request
  <2>w. Work(req[v].body) \in Pcs \ {"idle"}
    BY WorkType DEF Pcs, Claimed
  <2>1. Fetch(v) \/ Finalize(v)
    <3>1. ~Claim(v) /\ ~LookUpFolder(v)
      BY <2>i, <2>g, <2>w DEF Claim, LookUpFolder, Pcs, Claimed
    <3>2. ~CheckQuota(v) /\ ~Promote(v)
      BY <2>i, <2>g DEF CheckQuota, Promote, Pcs, Claimed
    <3>3. ~CreateItem(v) /\ ~Release(v)
      BY <2>i, <2>m DEF CreateItem, Release
    <3> QED BY <1>2, <3>1, <3>2, <3>3 DEF Serve
  <2>2. CASE Fetch(v)
    <3>1. record[req[v].key].status = "done" /\ Created(v, record[req[v].key].item)
      BY <2>2, <2>i DEF Fetch
    <3> QED BY <2>2, <3>1, CreatedAt DEF Fetch, KeyedClaim
  <2>3. CASE Finalize(v)
    BY <2>3, <2>i, CreatedAt DEF Finalize
  <2> QED BY <2>1, <2>2, <2>3
<1> QED BY <1>1, <1>2, RequestSteps DEF Answered, Live

\* What was answered stands in the record as long as the item is fresh.
LEMMA NextAnswersStand ==
  ASSUME ApiTypeOK, KeyedClaim, ClaimInv, ReplayInv, UnusedHasNoKey, ItemsFollowClaims,
         AnswersStand, [ApiNext]_ApiVars
  PROVE  AnswersStand'
<1> SUFFICES ASSUME NEW v \in Workers, Answered(v)', item'[req'[v].item].created <= TTL - TIMEOUT
             PROVE  /\ record'[req'[v].key].status = "done"
                    /\ record'[req'[v].key].item = req'[v].item
  BY DEF AnswersStand, Fresh
<1>k. req[v].key \in RealKeys \/ req'[v].key # req[v].key
  BY DEF Answered, ApiTypeOK, Request, RealKeys
<1>1. CASE Answered(v) /\ req'[v].key = req[v].key /\ req'[v].item = req[v].item
  <2> PICK k : k = req[v].key
    OBVIOUS
  <2> PICK i : i = req[v].item
    OBVIOUS
  <2>1. k \in RealKeys /\ i \in Items /\ item[i].key = k /\ item[i].status # "unused"
    BY <1>1, <1>k DEF ReplayInv, MadeFor
  <2>2. item[i].created <= item'[i].created /\ item[i].created \in Nat /\ item'[i].created \in Nat
    <3>1. \A w \in Workers : ~Make(w, i)
      BY <2>1, MakeAt
    <3>2. item'[i].key = k
      BY <2>1, NextKeepsMakers DEF KeepsMakers
    <3>3. /\ item[i].created <= item'[i].created
          /\ item'[i].created = item[i].created \/ item'[i].created = Older(item[i].created)
      BY <2>1, <3>1, <3>2, RowsLast
    <3> QED BY <2>1, <3>3, ApiNumbers, OlderType
  <2>3. item[i].created <= TTL - TIMEOUT
    BY <1>1, <2>2, OldType
  <2>4. record[k].status = "done" /\ record[k].item = i
    BY <1>1, <2>3 DEF AnswersStand, Fresh
  <2>5. ~Stale(k)
    <3>1. record[k].age <= item[i].created + TIMEOUT /\ record[k].age \in Nat
      BY <2>1, <2>4, ApiNumbers DEF ItemsFollowClaims
    <3> QED BY <2>2, <2>3, <3>1, OldType DEF Stale
  <2>6. record'[k].status = "done" /\ record'[k].item = i
    BY <2>1, <2>4, <2>5, RecordSteps
  <2> QED BY <1>1, <2>6
<1>2. CASE Finalize(v) /\ Finalized(v) /\ req'[v].key = req[v].key /\ req'[v].item = req[v].item
  <2> PICK k : k = req[v].key
    OBVIOUS
  <2>1. k \in RealKeys /\ Owns(v, k)
    BY <1>2, <1>k DEF Finalize, Owns, Claimed
  <2>2. record[k].status = "pending"
    BY <1>2, <2>1 DEF ClaimInv, Finalize
  <2> PICK n : n = [record[k] EXCEPT !.status = "done", !.item = req[v].item]
    OBVIOUS
  <2>3. n.status = "done" /\ n.item = req[v].item
    BY <2>1 DEF ApiTypeOK, Record
  <2>4. record' = [record EXCEPT ![k] = n]
    BY <1>2, <2>1, <2>2 DEF Finalized, SetRecord, RealKeys
  <2>5. record'[k] = n
    BY <2>1, <2>4 DEF ApiTypeOK
  <2> QED BY <1>2, <2>3, <2>5
<1>3. CASE /\ UNCHANGED record /\ req[v].key \in RealKeys /\ record[req[v].key].status = "done"
           /\ req'[v].key = req[v].key /\ req'[v].item = record[req[v].key].item
  BY <1>3
<1> QED BY <1>1, <1>2, <1>3, AnswerSteps

\* Without a crash or a failure an owner goes on, finalizes or releases.
LEMMA OwnerSteps ==
  ASSUME ApiTypeOK, KeyedClaim, ClaimInv, ReplayInv, FoldersOfUploads, PromotesHaveNoKey,
         [ApiNext]_ApiVars, NEW v \in Workers, NEW k \in RealKeys, Owns(v, k),
         failures' = failures, crashes' = crashes,
         record'[k].status = "pending", AllInsideTry(record[k].body)
  PROVE  Owns(v, k)'
<1>n. failures \in Nat /\ crashes \in Nat
  BY ApiNumbers
<1>f. ~StatementFails
  BY <1>n DEF StatementFails
<1>b. record[k].body = req[v].body /\ req[v].key = k /\ req[v].pc \in Claimed /\ k # NoKey
  BY DEF ReplayInv, Owns, RealKeys
<1>g. \A pc \in Claimed : Onward(v, pc) => Owns(v, k)'
  BY <1>b, OnwardAt DEF Pcs, Owns
<1>h. \A c : Fail(v, c) => Owns(v, k)'
  BY <1>b, FailAt DEF Owns, Claimed
<1>1. CASE req'[v].pc = req[v].pc /\ req'[v].key = req[v].key
  BY <1>1, <1>b DEF Owns
<1>2. CASE Serve(v)
  <2>1. ~Claim(v) /\ ~Fetch(v) /\ ~Promote(v)
    BY <1>b DEF Claim, Fetch, Promote, Claimed
  <2>2. CASE LookUpFolder(v)
    <3>1. KindOf[req[v].body] = "upload_to_folder"
      BY <2>2 DEF LookUpFolder, FoldersOfUploads
    <3> QED BY <1>b, <3>1 DEF AllInsideTry
  <2>3. CASE CheckQuota(v)
    <3>1. req[v].item = NoItem
      BY <1>b, <2>3 DEF CheckQuota, PromotesHaveNoKey
    <3> QED BY <1>f, <1>g, <1>h, <2>3, <3>1 DEF CheckQuota, Claimed
  <2>4. CASE CreateItem(v)
    <3>1. ASSUME NEW i, req' = [req EXCEPT ![v] = [@ EXCEPT !.pc = "finalize", !.item = i]]
          PROVE  Owns(v, k)'
      <4> PICK r : r = [req[v] EXCEPT !.pc = "finalize", !.item = i]
        OBVIOUS
      <4>1. r.pc = "finalize" /\ r.key = k /\ req' = [req EXCEPT ![v] = r]
        BY <1>b, <3>1 DEF ApiTypeOK, Request
      <4>2. req'[v] = r
        BY <4>1 DEF ApiTypeOK
      <4> QED BY <4>1, <4>2 DEF Owns, Claimed
    <3> QED BY <1>f, <1>h, <2>4, <3>1 DEF CreateItem
  <2>5. CASE Finalize(v)
    <3>1. Finalized(v)
      BY <1>f, <2>5 DEF Finalize
    <3>2. record'[k].status # "pending"
      <4>1. record[k].status = "pending"
        BY <1>b, <2>5 DEF Finalize, ClaimInv
      <4> PICK n : n = [record[k] EXCEPT !.status = "done", !.item = req[v].item]
        OBVIOUS
      <4>2. n.status = "done"
        BY DEF ApiTypeOK, Record
      <4>3. record' = [record EXCEPT ![k] = n]
        BY <1>b, <3>1, <4>1 DEF Finalized, SetRecord
      <4> QED BY <4>2, <4>3 DEF ApiTypeOK
    <3> QED BY <3>2
  <2>6. CASE Release(v)
    <3>1. SetRecord(k, IF record[k].status = "pending" THEN NoRecord ELSE record[k])
      BY <1>b, <1>f, <2>6 DEF Release
    <3>2. record'[k].status # "pending"
      BY <1>b, <3>1 DEF SetRecord, NoRecord, ApiTypeOK
    <3> QED BY <3>2
  <2> QED BY <1>2, <2>1, <2>2, <2>3, <2>4, <2>5, <2>6 DEF Serve
<1>3. Live(v) /\ crashes' # crashes + 1
  BY <1>b, <1>n DEF Live, Claimed
<1> QED BY <1>1, <1>2, <1>3, RequestSteps

\* Unless something crashes or fails, every claim of the posts router is in hand.
LEMMA NextHasOwner ==
  ASSUME ApiTypeOK, KeyedClaim, ClaimInv, ReplayInv, FoldersOfUploads, PromotesHaveNoKey,
         ClaimHasOwner, [ApiNext]_ApiVars
  PROVE  ClaimHasOwner'
<1> SUFFICES ASSUME NEW k \in RealKeys, record'[k].status = "pending", failures' = 0,
                    crashes' = 0, AllInsideTry(record'[k].body)
             PROVE  \E w \in Workers : Owns(w, k)'
  BY DEF ClaimHasOwner, AllInsideTry
<1>n. failures = 0 /\ crashes = 0
  <2>1. crashes' = crashes \/ crashes' = crashes + 1
    BY RequestSteps DEF ApiNext, Arrive, ArrivePromote, Serve, Claim, Fetch, LookUpFolder,
       CheckQuota, Promote, CreateItem, Finalize, Release, ServerDies, Publish, Cancel, Sweep,
       ApiTick, ApiVars
  <2> QED BY <2>1, FailureSteps, ApiNumbers
<1>1. CASE record[k].status = "pending" /\ record'[k].body = record[k].body
  <2>1. PICK w \in Workers : Owns(w, k)
    BY <1>1, <1>n DEF ClaimHasOwner
  <2> QED BY <1>1, <1>n, <2>1, OwnerSteps
<1>2. ASSUME NEW w \in Workers, Claim(w), req[w].key = k, record[k].status = "absent"
      PROVE  Owns(w, k)'
  <2>1. ~StatementFails
    BY <1>n DEF StatementFails
  <2>2. Onward(w, Work(req[w].body))
    BY <1>2, <2>1 DEF Claim
  <2> QED BY <1>2, <2>2, OnwardAt, WorkType DEF Owns, Pcs, Claimed
<1> QED BY <1>1, <1>2, RecordSteps

\* What a key stands for is inductive, given the claims and the replays.
LEMMA NextHonours ==
  ASSUME ApiTypeOK, KeyedClaim, ClaimInv, ReplayInv, HonourInv, [ApiNext]_ApiVars
  PROVE  HonourInv'
  BY NextUnused, NextItemsFollow, NextCopies, NextAnswersStand, NextFolders, NextPromotes,
     NextHasOwner DEF HonourInv

\* At the start no key has made anything.
LEMMA InitHonours == ApiInit => HonourInv
<1> SUFFICES ASSUME ApiInit PROVE HonourInv
  OBVIOUS
<1>1. /\ UnusedHasNoKey /\ ItemsFollowClaims /\ AnswersStand /\ FoldersOfUploads
      /\ PromotesHaveNoKey /\ ClaimHasOwner
  BY DEF ApiInit, NoCall, NoRecord, RealKeys, UnusedHasNoKey, ItemsFollowClaims, AnswersStand,
         FoldersOfUploads, PromotesHaveNoKey, ClaimHasOwner, Answered
<1>2. \A k \in RealKeys : MadeUnder(k) = {}
  BY DEF ApiInit, MadeUnder
<1>3. CopiesExcused
  BY <1>2, FS_EmptySet DEF CopiesExcused, ApiInit
<1> QED BY <1>1, <1>3 DEF HonourInv

\* A key stands for one piece of work: one request at a time is at it; it makes one
\* item in its window, and one more for each failed statement at most; its answers
\* agree; and while nothing crashed or failed, a claim that is not finalized belongs to
\* a request that will do it.
THEOREM KeysAlwaysHonoured == ApiSpec => []KeysAreHonoured
<1>1. ApiInit => ClaimInv /\ ReplayInv /\ HonourInv
  BY InitHonours
     DEF ApiInit, ClaimInv, ReplayInv, OneWorkerPerKey, Live, Owns, Answered, NoCall, NoRecord,
         Claimed
<1>2. ApiTypeOK /\ KeyedClaim /\ ClaimInv /\ ReplayInv /\ HonourInv /\ [ApiNext]_ApiVars
      => ClaimInv' /\ ReplayInv' /\ HonourInv'
  BY NextKeepsClaims, NextKeepsReplays, NextHonours
<1>3. ClaimInv /\ HonourInv => KeysAreHonoured
  <2> SUFFICES ASSUME ClaimInv, HonourInv PROVE KeysAreHonoured
    OBVIOUS
  <2>0. OneWorkerPerKey
    BY DEF ClaimInv
  <2>1. OncePerKey
    BY DEF HonourInv, CopiesExcused, OncePerKey
  <2>2. AnswersAgree
    BY DEF HonourInv, AnswersStand, AnswersAgree
  <2>3. ClaimHasOwner
    BY DEF HonourInv
  <2> QED BY <2>0, <2>1, <2>2, <2>3 DEF KeysAreHonoured
<1> QED BY <1>1, <1>2, <1>3, TypeCorrect, PTL DEF ApiSpec

-----------------------------------------------------------------------------
(* The tokens of an account                                                *)

Loaded == (0..MaxTokens) \X (0..MaxTokens)
Works ==
    {NoWork, [pc |-> "delete"]}
        \cup [pc : {"refresh", "profile", "save", "store"}, row : Accounts, loaded : Loaded]

TokensTypes ==
    /\ brand \in DOMAIN TokenBound
    /\ agent \in [Processes -> Works]
    /\ age \in [Generations -> {"fresh", "soon", "past"}]
    /\ overlapped \in BOOLEAN /\ grantLost \in BOOLEAN
    /\ TokensTypeOK

\* The processes that have loaded the row.
Holds(p) == agent[p].pc \in {"refresh", "profile", "save", "store"}

\* A process that has brought a refresh token of its own, not saved yet.
Rotated(p) ==
    /\ agent[p].pc \in {"profile", "save", "store"}
    /\ agent[p].row.refresh # agent[p].loaded[2]

\* No token is in the row or in a process that the platform has not issued.
TokensIssued ==
    /\ Exists => account.access \in 0..issued /\ account.refresh \in 0..issued
    /\ \A p \in Processes : Holds(p) =>
         /\ agent[p].row.access \in 0..issued /\ agent[p].row.refresh \in 0..issued
         /\ agent[p].pc = "refresh" => agent[p].loaded = <<agent[p].row.access, agent[p].row.refresh>>

\* What a process has brought nobody else has, and it works until it runs out.
RotatedFits ==
    \A p \in Processes : Rotated(p) =>
        /\ agent[p].row.refresh \in refreshLive \/ age[agent[p].row.refresh] = "past"
        /\ Exists => account.refresh # agent[p].row.refresh
        /\ agent[p].row.refresh # 0
        /\ \A q \in Processes \ {p} : Holds(q) => agent[q].row.refresh # agent[p].row.refresh

\* The stored refresh token is dead only where it is replaced or thrown away.
DeadGrantFits ==
    Exists /\ account.refresh # 0 /\ account.refresh \notin refreshLive =>
        \/ overlapped \/ grantLost
        \/ age[account.refresh] = "past"
        \/ \E p \in Processes : Rotated(p) \/ agent[p].pc = "delete"

TokensInv == TokensTypes /\ TokensIssued /\ RotatedFits /\ DeadGrantFits

-----------------------------------------------------------------------------
\* What a process holds.
LEMMA WorkFields ==
    ASSUME NEW w \in Works
    PROVE  /\ w.pc \in {"idle", "refresh", "profile", "save", "store", "delete"}
           /\ w.pc \in {"refresh", "profile", "save", "store"} =>
                w \in [pc : {"refresh", "profile", "save", "store"}, row : Accounts, loaded : Loaded]
           /\ w.pc = "idle" => w = NoWork
           /\ w.pc = "delete" => w = [pc |-> "delete"]
<1>1. CASE w = NoWork
  BY <1>1 DEF NoWork
<1>2. CASE w = [pc |-> "delete"]
  BY <1>2
<1>3. CASE w \in [pc : {"refresh", "profile", "save", "store"}, row : Accounts, loaded : Loaded]
  <2>1. w.pc \in {"refresh", "profile", "save", "store"}
    BY <1>3
  <2>2. w.pc # "idle" /\ w.pc # "delete"
    BY <2>1
  <2> QED BY <1>3, <2>1, <2>2
<1> QED BY <1>1, <1>2, <1>3 DEF Works

\* There is a row when it is one with tokens.
LEMMA RowExists ==
    ASSUME NEW r \in Accounts
    PROVE  r # NoAccount
  BY DEF Accounts, NoAccount

\* A freshly connected account.
LEMMA TokensStart == TokensInit => TokensInv
<1> SUFFICES ASSUME TokensInit PROVE TokensInv
  OBVIOUS
<1>0. MaxTokens \in Nat /\ brand \in DOMAIN TokenBound
  BY AccountTokensAssumption DEF TokensInit, MaxTokens
<1>1. TokensTypes
  <2>1. NoWork \in Works
    BY DEF Works
  <2>2. TokensTypeOK
    <3>1. \A p \in Processes : agent[p].pc = "idle"
      BY DEF TokensInit, NoWork
    <3>2. account \in Accounts \cup {NoAccount} /\ queued \in BOOLEAN /\ accessLive \cup refreshLive = {}
      BY DEF TokensInit
    <3>3. issued \in 0..MaxTokens
      BY <1>0 DEF TokensInit
    <3> QED BY <3>1, <3>2, <3>3 DEF TokensTypeOK
  <2> QED BY <1>0, <2>1, <2>2 DEF TokensInit, TokensTypes
<1>2. \A p \in Processes : agent[p].pc = "idle"
  BY DEF TokensInit, NoWork
<1> QED BY <1>1, <1>2 DEF TokensInv, TokensInit, TokensIssued, RotatedFits, DeadGrantFits, Holds, Rotated, Exists


\* A process that goes on with the tokens it has, takes those of the row, or dies.
LEMMA AgentGoesOn ==
    ASSUME TokensInv, NEW p \in Processes, NEW w \in Works, agent' = [agent EXCEPT ![p] = w],
           UNCHANGED <<brand, account, issued, age, refreshLive>>,
           queued' \in BOOLEAN, accessLive' \subseteq accessLive,
           UNCHANGED overlapped, grantLost' \in BOOLEAN, grantLost => grantLost',
           w.pc \in {"refresh", "profile", "save", "store"} =>
             /\ w.row.access \in 0..issued /\ w.row.refresh \in 0..issued
             /\ w.pc = "refresh" => w.loaded = <<w.row.access, w.row.refresh>>
             /\ \/ Holds(p) /\ w.row.refresh = agent[p].row.refresh
                \/ Exists /\ w.row.refresh = account.refresh
             /\ w.pc # "refresh" /\ w.row.refresh # w.loaded[2]
                  => Rotated(p) /\ w.row.refresh = agent[p].row.refresh,
           Exists /\ (Rotated(p) \/ agent[p].pc = "delete") =>
             \/ grantLost'
             \/ w.pc = "delete"
             \/ w.pc \in {"profile", "save", "store"} /\ w.row.refresh # w.loaded[2]
    PROVE  TokensInv'
<1>t. TokensTypes /\ TokensTypeOK /\ TokensIssued /\ RotatedFits /\ DeadGrantFits
  BY DEF TokensInv, TokensTypes
<1>1. agent' \in [Processes -> Works] /\ agent'[p] = w /\ \A q \in Processes \ {p} : agent'[q] = agent[q]
  BY <1>t DEF TokensTypes
<1>2. TokensTypes'
  <2>1. \A q \in Processes : agent'[q].pc \in {"idle", "refresh", "profile", "save", "store", "delete"}
    <3> TAKE q \in Processes
    <3>1. agent'[q] \in Works
      BY <1>1
    <3> QED BY <3>1, WorkFields
  <2>2. MaxTokens' = MaxTokens /\ Accounts' = Accounts /\ Generations' = Generations /\ Works' = Works
    BY DEF MaxTokens, Accounts, Generations, Works, Loaded
  <2> QED BY <1>1, <1>t, <2>1, <2>2 DEF TokensTypes, TokensTypeOK
<1>3. /\ Exists' = Exists
      /\ \A q \in Processes \ {p} : Holds(q)' = Holds(q) /\ Rotated(q)' = Rotated(q)
      /\ Holds(p)' = (w.pc \in {"refresh", "profile", "save", "store"})
      /\ Rotated(p)' = (w.pc \in {"profile", "save", "store"} /\ w.row.refresh # w.loaded[2])
  BY <1>1 DEF Exists, Holds, Rotated
<1>4. TokensIssued'
  <2> SUFFICES ASSUME NEW q \in Processes, Holds(q)'
               PROVE  /\ agent'[q].row.access \in 0..issued /\ agent'[q].row.refresh \in 0..issued
                      /\ agent'[q].pc = "refresh" =>
                           agent'[q].loaded = <<agent'[q].row.access, agent'[q].row.refresh>>
    BY <1>3, <1>t DEF TokensIssued
  <2>1. CASE q = p
    BY <2>1, <1>1, <1>3
  <2>2. CASE q # p
    BY <2>2, <1>1, <1>3, <1>t DEF TokensIssued
  <2> QED BY <2>1, <2>2
<1>5. RotatedFits'
  <2>1. ASSUME Rotated(p)'
        PROVE  /\ w.row.refresh \in refreshLive \/ age[w.row.refresh] = "past"
               /\ Exists => account.refresh # w.row.refresh
               /\ w.row.refresh # 0
               /\ \A q \in Processes \ {p} : Holds(q) => agent[q].row.refresh # w.row.refresh
    BY <2>1, <1>3, <1>t DEF RotatedFits
  <2>2. ASSUME NEW q \in Processes \ {p}, Rotated(q)
        PROVE  /\ agent[q].row.refresh \in refreshLive \/ age[agent[q].row.refresh] = "past"
               /\ Exists => account.refresh # agent[q].row.refresh
               /\ agent[q].row.refresh # 0
               /\ \A o \in Processes \ {q} : Holds(o)' => agent'[o].row.refresh # agent[q].row.refresh
    <3>1. /\ agent[q].row.refresh \in refreshLive \/ age[agent[q].row.refresh] = "past"
          /\ Exists => account.refresh # agent[q].row.refresh
          /\ agent[q].row.refresh # 0
          /\ \A o \in Processes \ {q} : Holds(o) => agent[o].row.refresh # agent[q].row.refresh
      BY <2>2, <1>t DEF RotatedFits
    <3>2. ASSUME NEW o \in Processes \ {q}, Holds(o)'
          PROVE  agent'[o].row.refresh # agent[q].row.refresh
      <4>1. CASE o = p
        BY <3>1, <3>2, <4>1, <1>1, <1>3
      <4>2. CASE o # p
        <5>1. Holds(o) /\ agent'[o] = agent[o]
          BY <3>2, <4>2, <1>1, <1>3
        <5> QED BY <3>1, <5>1
      <4> QED BY <4>1, <4>2
    <3> QED BY <3>1, <3>2
  <2> QED BY <2>1, <2>2, <1>1, <1>3 DEF RotatedFits
<1>6. DeadGrantFits'
  BY <1>1, <1>3, <1>t DEF DeadGrantFits
<1> QED BY <1>2, <1>4, <1>5, <1>6 DEF TokensInv

\* Nothing but the tokens that are accepted changes.
LEMMA TokenAgesKeeps ==
    ASSUME TokensInv, TokenAges
    PROVE  TokensInv'
<1>t. TokensTypes /\ TokensTypeOK /\ TokensIssued /\ RotatedFits /\ DeadGrantFits
  BY DEF TokensInv, TokensTypes
<1>1. PICK g \in Held \ {0} :
        /\ age[g] # "past"
        /\ age' = [age EXCEPT ![g] = IF @ = "fresh" THEN "soon" ELSE "past"]
        /\ accessLive' \subseteq accessLive
        /\ refreshLive' = refreshLive \/ (refreshLive' = refreshLive \ {g} /\ age[g] = "soon")
        /\ UNCHANGED <<brand, account, queued, agent, issued, faults, overlapped, grantLost>>
  <2>1. PICK g \in Held \ {0} :
          /\ age[g] # "past"
          /\ brand \notin {"mastodon", "facebook", "instagram"}
          /\ age' = [age EXCEPT ![g] = IF @ = "fresh" THEN "soon" ELSE "past"]
          /\ IF age[g] = "soon"
               THEN /\ accessLive' = accessLive \ {g}
                    /\ refreshLive' = IF "access" \in Tokens.grant THEN refreshLive \ {g} ELSE refreshLive
               ELSE UNCHANGED <<accessLive, refreshLive>>
          /\ UNCHANGED <<brand, account, queued, agent, issued, faults, overlapped, grantLost>>
    BY DEF TokenAges
  <2>2. /\ accessLive' \subseteq accessLive
        /\ refreshLive' = refreshLive \/ (refreshLive' = refreshLive \ {g} /\ age[g] = "soon")
    BY <2>1
  <2> QED BY <2>1, <2>2
<1>2. /\ age' \in [Generations -> {"fresh", "soon", "past"}]
      /\ \A h \in Generations : age[h] = "past" => age'[h] = "past"
      /\ g \in Generations /\ age[g] = "soon" => age'[g] = "past"
      /\ refreshLive' \subseteq refreshLive
      /\ \A h \in refreshLive \ refreshLive' : h = g /\ age[g] = "soon"
  BY <1>1, <1>t DEF TokensTypes
<1>3. MaxTokens' = MaxTokens /\ Accounts' = Accounts /\ Generations' = Generations /\ Works' = Works
  BY <1>1 DEF MaxTokens, Accounts, Generations, Works, Loaded
<1>4. TokensTypes'
  BY <1>1, <1>2, <1>3, <1>t DEF TokensTypes, TokensTypeOK
<1>5. Exists' = Exists /\ \A p \in Processes : Holds(p)' = Holds(p) /\ Rotated(p)' = Rotated(p)
  BY <1>1 DEF Exists, Holds, Rotated
<1>6. TokensIssued'
  BY <1>1, <1>5, <1>t DEF TokensIssued
<1>7. \A n \in 1..issued : n \in Generations
  BY <1>t, AccountTokensAssumption DEF TokensTypeOK, TokensTypes, Generations, MaxTokens
<1>8. \A n \in 0..issued : n # 0 => n \in Generations
  BY <1>7, <1>t DEF TokensTypeOK
<1>9. RotatedFits'
  <2> SUFFICES ASSUME NEW p \in Processes, Rotated(p)
               PROVE  agent[p].row.refresh \in refreshLive' \/ age'[agent[p].row.refresh] = "past"
    BY <1>1, <1>5, <1>t DEF RotatedFits
  <2>1. agent[p].row.refresh \in Generations
    BY <1>8, <1>t DEF TokensIssued, RotatedFits, Rotated, Holds
  <2>2. agent[p].row.refresh \in refreshLive \/ age[agent[p].row.refresh] = "past"
    BY <1>t DEF RotatedFits
  <2> QED BY <2>1, <2>2, <1>2
<1>10. DeadGrantFits'
  <2> SUFFICES ASSUME Exists, account.refresh # 0, account.refresh \notin refreshLive'
               PROVE  \/ overlapped \/ grantLost
                      \/ age'[account.refresh] = "past"
                      \/ \E p \in Processes : Rotated(p) \/ agent[p].pc = "delete"
    BY <1>1, <1>5 DEF DeadGrantFits
  <2>1. account.refresh \in Generations
    BY <1>8, <1>t DEF TokensIssued
  <2>2. CASE account.refresh \in refreshLive
    BY <2>1, <2>2, <1>2
  <2>3. CASE account.refresh \notin refreshLive
    BY <2>1, <2>3, <1>2, <1>t DEF DeadGrantFits
  <2> QED BY <2>2, <2>3
<1> QED BY <1>4, <1>6, <1>9, <1>10 DEF TokensInv


\* A token that is issued is new.
LEMMA TokenIsNew ==
    ASSUME TokensInv, NEW live, IssueToken(live)
    PROVE  /\ issued \in Nat /\ issued + 1 \in Generations /\ issued' = issued + 1 /\ issued' \in 0..MaxTokens
           /\ age' \in [Generations -> {"fresh", "soon", "past"}]
           /\ \A h \in 0..issued : age'[h] = age[h]
           /\ accessLive' = accessLive \cup {issued + 1} /\ refreshLive' = live
           /\ refreshLive \cup accessLive \subseteq 1..issued
<1>t. TokensTypes /\ TokensTypeOK
  BY DEF TokensInv, TokensTypes
<1>1. MaxTokens \in Nat /\ issued \in 0..MaxTokens /\ issued < MaxTokens /\ issued' = issued + 1
  BY <1>t, AccountTokensAssumption DEF TokensTypes, TokensTypeOK, MaxTokens, IssueToken
<1>2. issued \in Nat /\ issued + 1 \in Generations /\ issued' \in 0..MaxTokens
  BY <1>1 DEF Generations
<1>3. age \in [Generations -> {"fresh", "soon", "past"}]
  BY <1>t DEF TokensTypes
<1>4. PICK state \in {"fresh", "soon"} : age' = [age EXCEPT ![issued + 1] = state]
  BY DEF IssueToken
<1>5. age' \in [Generations -> {"fresh", "soon", "past"}] /\ \A h \in 0..issued : age'[h] = age[h]
  <2>1. \A h \in 0..issued : h # issued + 1
    BY <1>1
  <2>2. age' = [h \in Generations |-> IF h = issued + 1 THEN state ELSE age[h]]
    BY <1>3, <1>4
  <2>3. \A h \in 0..issued : h # 0 => h \in Generations
    BY <1>1 DEF Generations
  <2>4. 0 \notin Generations
    BY <1>1 DEF Generations
  <2> QED BY <1>2, <1>3, <1>4, <2>1, <2>2, <2>3, <2>4
<1> QED BY <1>1, <1>2, <1>5, <1>t DEF IssueToken, TokensTypeOK

\* The platform answers a refresh with the token the process has, or with a new one,
\* and then the old one may be dead.
LEMMA AnswerKeeps ==
    ASSUME TokensInv, NEW p \in Processes, agent[p].pc = "refresh", NEW w \in Works, NEW live,
           IssueToken(live), agent' = [agent EXCEPT ![p] = w],
           UNCHANGED <<brand, account, queued, overlapped>>,
           grantLost' \in BOOLEAN, grantLost => grantLost',
           live \subseteq refreshLive \cup {issued + 1},
           refreshLive \ {agent[p].row.refresh} \subseteq live,
           agent[p].row.refresh \in refreshLive,
           w.pc \in {"refresh", "profile", "save", "store"} =>
             /\ w.pc # "refresh" /\ w.loaded = agent[p].loaded
             /\ w.row.access \in 0..(issued + 1)
             /\ \/ w.row.refresh = agent[p].row.refresh
                \/ w.row.refresh = issued + 1 /\ issued + 1 \in live,
           \/ grantLost'
           \/ refreshLive \subseteq live
           \/ w.pc \in {"profile", "save", "store"} /\ w.row.refresh = issued + 1
    PROVE  TokensInv'
<1>t. TokensTypes /\ TokensTypeOK /\ TokensIssued /\ RotatedFits /\ DeadGrantFits
  BY DEF TokensInv, TokensTypes
<1>0. PICK g \in Nat, old \in Nat : g = issued + 1 /\ old = agent[p].row.refresh
  BY TokenIsNew, <1>t DEF TokensIssued, Holds
<1>1. agent' \in [Processes -> Works] /\ agent'[p] = w /\ \A q \in Processes \ {p} : agent'[q] = agent[q]
  BY <1>t DEF TokensTypes
<1>2. /\ issued \in Nat /\ g \in Generations /\ issued' = g /\ issued' \in 0..MaxTokens
      /\ age' \in [Generations -> {"fresh", "soon", "past"}]
      /\ \A h \in 0..issued : age'[h] = age[h]
      /\ accessLive' = accessLive \cup {g} /\ refreshLive' = live
      /\ refreshLive \cup accessLive \subseteq 1..issued
  BY TokenIsNew, <1>0
<1>3. MaxTokens' = MaxTokens /\ Accounts' = Accounts /\ Generations' = Generations /\ Works' = Works
  BY DEF MaxTokens, Accounts, Generations, Works, Loaded
<1>4. TokensTypes'
  <2>1. \A q \in Processes : agent'[q].pc \in {"idle", "refresh", "profile", "save", "store", "delete"}
    <3> TAKE q \in Processes
    <3>1. agent'[q] \in Works
      BY <1>1
    <3> QED BY <3>1, WorkFields
  <2>2. accessLive' \cup refreshLive' \subseteq 1..issued'
    BY <1>0, <1>2
  <2> QED BY <1>1, <1>2, <1>3, <1>t, <2>1, <2>2 DEF TokensTypes, TokensTypeOK
<1>5. /\ Exists' = Exists /\ Holds(p) /\ agent[p].loaded[2] = old
      /\ \A q \in Processes \ {p} : Holds(q)' = Holds(q) /\ Rotated(q)' = Rotated(q)
      /\ Holds(p)' = (w.pc \in {"refresh", "profile", "save", "store"})
      /\ Rotated(p)' = (w.pc \in {"profile", "save", "store"} /\ w.row.refresh # w.loaded[2])
  <2>1. Holds(p) /\ agent[p].loaded = <<agent[p].row.access, agent[p].row.refresh>>
    BY <1>t DEF Holds, TokensIssued
  <2>2. Holds(p) /\ agent[p].loaded[2] = old
    BY <2>1, <1>0
  <2> QED BY <1>1, <2>2 DEF Exists, Holds, Rotated
<1>6. /\ \A n \in 0..issued : n \in 0..issued' /\ n # g
      /\ old \in 0..issued /\ g \in 0..issued'
      /\ Exists => account.refresh \in 0..issued
      /\ \A q \in Processes : Holds(q) => agent[q].row.refresh \in 0..issued
  BY <1>0, <1>2, <1>5, <1>t DEF TokensIssued
<1>7. TokensIssued'
  <2>1. ASSUME NEW q \in Processes, Holds(q)'
        PROVE  /\ agent'[q].row.access \in 0..issued' /\ agent'[q].row.refresh \in 0..issued'
               /\ agent'[q].pc = "refresh" =>
                    agent'[q].loaded = <<agent'[q].row.access, agent'[q].row.refresh>>
    <3>1. CASE q = p
      BY <2>1, <3>1, <1>0, <1>1, <1>2, <1>5, <1>6
    <3>2. CASE q # p
      BY <2>1, <3>2, <1>1, <1>5, <1>6, <1>t DEF TokensIssued
    <3> QED BY <3>1, <3>2
  <2> QED BY <2>1, <1>5, <1>6, <1>t DEF TokensIssued
<1>8. RotatedFits'
  <2>1. ASSUME Rotated(p)'
        PROVE  /\ w.row.refresh = g /\ g \in refreshLive'
               /\ Exists => account.refresh # g
               /\ \A q \in Processes \ {p} : Holds(q) => agent[q].row.refresh # g
    BY <2>1, <1>0, <1>2, <1>5, <1>6
  <2>2. ASSUME NEW q \in Processes \ {p}, Rotated(q)
        PROVE  /\ agent[q].row.refresh \in refreshLive' \/ age'[agent[q].row.refresh] = "past"
               /\ Exists => account.refresh # agent[q].row.refresh
               /\ agent[q].row.refresh # 0
               /\ \A o \in Processes \ {q} : Holds(o)' => agent'[o].row.refresh # agent[q].row.refresh
    <3>1. /\ agent[q].row.refresh \in refreshLive \/ age[agent[q].row.refresh] = "past"
          /\ Exists => account.refresh # agent[q].row.refresh
          /\ agent[q].row.refresh # 0
          /\ \A o \in Processes \ {q} : Holds(o) => agent[o].row.refresh # agent[q].row.refresh
          /\ Holds(q)
      BY <2>2, <1>t DEF RotatedFits, Rotated, Holds
    <3>2. old # agent[q].row.refresh /\ agent[q].row.refresh \in 0..issued
      BY <3>1, <1>0, <1>5, <1>6
    <3>3. agent[q].row.refresh \in refreshLive' \/ age'[agent[q].row.refresh] = "past"
      BY <3>1, <3>2, <1>0, <1>2
    <3>4. ASSUME NEW o \in Processes \ {q}, Holds(o)'
          PROVE  agent'[o].row.refresh # agent[q].row.refresh
      <4>1. CASE o = p
        BY <3>2, <3>4, <4>1, <1>0, <1>1, <1>5, <1>6
      <4>2. CASE o # p
        <5>1. Holds(o) /\ agent'[o] = agent[o]
          BY <3>4, <4>2, <1>1, <1>5
        <5> QED BY <3>1, <5>1
      <4> QED BY <4>1, <4>2
    <3> QED BY <3>1, <3>3, <3>4
  <2>3. g # 0
    BY <1>0, <1>2
  <2> QED BY <2>1, <2>2, <2>3, <1>1, <1>5 DEF RotatedFits
<1>9. DeadGrantFits'
  <2> SUFFICES ASSUME Exists, account.refresh # 0, account.refresh \notin refreshLive', ~grantLost'
               PROVE  \/ overlapped
                      \/ age'[account.refresh] = "past"
                      \/ \E q \in Processes : Rotated(q)' \/ agent'[q].pc = "delete"
    BY <1>5 DEF DeadGrantFits
  <2>1. CASE account.refresh \in refreshLive
    <3>1. Rotated(p)'
      BY <2>1, <1>0, <1>2, <1>5, <1>6
    <3> QED BY <3>1
  <2>2. CASE account.refresh \notin refreshLive
    <3>1. CASE age[account.refresh] = "past"
      BY <3>1, <1>2, <1>6
    <3>2. ASSUME NEW q \in Processes, Rotated(q) \/ agent[q].pc = "delete"
          PROVE  Rotated(q)' \/ agent'[q].pc = "delete"
      BY <3>2, <1>1, <1>5 DEF Rotated
    <3> QED BY <2>2, <3>1, <3>2, <1>t DEF DeadGrantFits
  <2> QED BY <2>1, <2>2
<1> QED BY <1>4, <1>7, <1>8, <1>9 DEF TokensInv

\* A new connection.
LEMMA CreateOrUpdateKeeps ==
    ASSUME TokensInv, CreateOrUpdateAccount
    PROVE  TokensInv'
<1>t. TokensTypes /\ TokensTypeOK /\ TokensIssued /\ RotatedFits /\ DeadGrantFits
  BY DEF TokensInv, TokensTypes
<1>0. PICK g \in Nat : g = issued + 1
  BY <1>t DEF TokensTypeOK
<1>1. PICK refresh \in {0, g} :
        /\ IssueToken(IF refresh = 0 THEN refreshLive ELSE refreshLive \cup {g})
        /\ account' = [access |-> g, refresh |-> refresh,
                       expires |-> IF Tokens.expires THEN g ELSE 0, status |-> "connected"]
        /\ UNCHANGED <<brand, queued, agent, faults, overlapped, grantLost>>
  BY <1>0 DEF CreateOrUpdateAccount
<1> DEFINE live == IF refresh = 0 THEN refreshLive ELSE refreshLive \cup {g}
<1>2. /\ issued \in Nat /\ g \in Generations /\ issued' = g /\ issued' \in 0..MaxTokens
      /\ age' \in [Generations -> {"fresh", "soon", "past"}]
      /\ \A h \in 0..issued : age'[h] = age[h]
      /\ accessLive' = accessLive \cup {g} /\ refreshLive' = live
      /\ refreshLive \cup accessLive \subseteq 1..issued
  BY TokenIsNew, <1>0, <1>1
<1> HIDE DEF live
<1>l. refreshLive \subseteq live /\ live \subseteq refreshLive \cup {g} /\ (refresh # 0 => refresh \in live)
  BY DEF live
<1>3. MaxTokens' = MaxTokens /\ Accounts' = Accounts /\ Generations' = Generations /\ Works' = Works
  BY <1>1 DEF MaxTokens, Accounts, Generations, Works, Loaded
<1>m. MaxTokens \in Nat /\ g \in 0..MaxTokens /\ 0 \in 0..MaxTokens
  BY <1>0, <1>2, <1>t, AccountTokensAssumption DEF TokensTypes, MaxTokens, Generations
<1>4. PICK expires \in 0..MaxTokens : expires = IF Tokens.expires THEN g ELSE 0
  BY <1>m
<1>5. account' = [access |-> g, refresh |-> refresh, expires |-> expires, status |-> "connected"]
  BY <1>1, <1>4
<1>6. refresh \in 0..MaxTokens /\ g \in 0..MaxTokens /\ refresh \in 0..g
  BY <1>0, <1>m
<1>7. account' \in Accounts /\ account'.refresh = refresh /\ account'.access = g
  BY <1>5, <1>6 DEF Accounts
<1>8. TokensTypes'
  <2>1. accessLive' \cup refreshLive' \subseteq 1..issued'
    BY <1>0, <1>2, <1>l
  <2> QED BY <1>1, <1>2, <1>3, <1>7, <1>t, <2>1 DEF TokensTypes, TokensTypeOK
<1>9. Exists' /\ \A q \in Processes : Holds(q)' = Holds(q) /\ Rotated(q)' = Rotated(q)
  BY <1>1, <1>7, RowExists DEF Exists, Holds, Rotated
<1>10. /\ \A n \in 0..issued : n \in 0..issued' /\ n # g
       /\ \A q \in Processes : Holds(q) => agent[q].row.refresh \in 0..issued
  BY <1>0, <1>2, <1>t DEF TokensIssued
<1>11. TokensIssued'
  <2>1. \A q \in Processes : Holds(q)' =>
          /\ agent'[q].row.access \in 0..issued' /\ agent'[q].row.refresh \in 0..issued'
          /\ agent'[q].pc = "refresh" =>
                agent'[q].loaded = <<agent'[q].row.access, agent'[q].row.refresh>>
    BY <1>1, <1>9, <1>10, <1>t DEF TokensIssued
  <2>2. account'.access \in 0..issued' /\ account'.refresh \in 0..issued'
    BY <1>0, <1>2, <1>6, <1>7
  <2> QED BY <2>1, <2>2 DEF TokensIssued
<1>12. RotatedFits'
  <2> SUFFICES ASSUME NEW q \in Processes, Rotated(q)
               PROVE  /\ agent[q].row.refresh \in refreshLive' \/ age'[agent[q].row.refresh] = "past"
                      /\ account'.refresh # agent[q].row.refresh
                      /\ agent[q].row.refresh # 0
                      /\ \A o \in Processes \ {q} : Holds(o) => agent[o].row.refresh # agent[q].row.refresh
    BY <1>1, <1>9 DEF RotatedFits
  <2>1. /\ agent[q].row.refresh \in refreshLive \/ age[agent[q].row.refresh] = "past"
        /\ agent[q].row.refresh # 0
        /\ \A o \in Processes \ {q} : Holds(o) => agent[o].row.refresh # agent[q].row.refresh
        /\ agent[q].row.refresh \in 0..issued
    BY <1>10, <1>t DEF RotatedFits, Rotated, Holds
  <2> QED BY <2>1, <1>2, <1>l, <1>7, <1>10
<1>13. DeadGrantFits'
  BY <1>2, <1>7, <1>l DEF DeadGrantFits
<1> QED BY <1>8, <1>11, <1>12, <1>13 DEF TokensInv

\* What the processes are when one of them is done.
LEMMA WorkEnds ==
    ASSUME TokensTypes, NEW p \in Processes, NEW w \in {NoWork, [pc |-> "delete"]},
           agent' = [agent EXCEPT ![p] = w]
    PROVE  /\ agent' \in [Processes -> Works] /\ agent'[p] = w
           /\ \A q \in Processes \ {p} : agent'[q] = agent[q]
           /\ \A q \in Processes : agent'[q].pc \in {"idle", "refresh", "profile", "save", "store", "delete"}
           /\ ~Holds(p)' /\ ~Rotated(p)'
           /\ \A q \in Processes \ {p} : Holds(q)' = Holds(q) /\ Rotated(q)' = Rotated(q)
<1>1. w \in Works /\ w.pc \in {"idle", "delete"}
  BY DEF Works, NoWork
<1>2. /\ agent' \in [Processes -> Works] /\ agent'[p] = w
      /\ \A q \in Processes \ {p} : agent'[q] = agent[q]
  BY <1>1 DEF TokensTypes
<1>3. \A q \in Processes : agent'[q].pc \in {"idle", "refresh", "profile", "save", "store", "delete"}
  <2> TAKE q \in Processes
  <2>1. agent'[q] \in Works
    BY <1>2
  <2> QED BY <2>1, WorkFields
<1> QED BY <1>1, <1>2, <1>3 DEF Holds, Rotated

\* A disconnect revokes the token of the row, and is about to delete it.
LEMMA DisconnectKeeps ==
    ASSUME TokensInv, NEW p \in Processes, Disconnect(p)
    PROVE  TokensInv'
<1>t. TokensTypes /\ TokensTypeOK /\ TokensIssued /\ RotatedFits /\ DeadGrantFits
  BY DEF TokensInv, TokensTypes
<1>1. /\ Exists /\ agent[p] = NoWork
      /\ accessLive' \subseteq accessLive /\ refreshLive \ {account.refresh} \subseteq refreshLive'
      /\ refreshLive' \subseteq refreshLive
      /\ agent' = [agent EXCEPT ![p] = [pc |-> "delete"]]
      /\ UNCHANGED <<brand, account, queued, issued, age, overlapped, grantLost>>
  BY DEF Disconnect
<1>2. /\ agent' \in [Processes -> Works] /\ agent'[p] = [pc |-> "delete"]
      /\ \A q \in Processes \ {p} : agent'[q] = agent[q]
      /\ \A q \in Processes : agent'[q].pc \in {"idle", "refresh", "profile", "save", "store", "delete"}
      /\ ~Holds(p)' /\ ~Rotated(p)'
      /\ \A q \in Processes \ {p} : Holds(q)' = Holds(q) /\ Rotated(q)' = Rotated(q)
  BY <1>1, <1>t, WorkEnds
<1>3. MaxTokens' = MaxTokens /\ Accounts' = Accounts /\ Generations' = Generations /\ Works' = Works
  BY <1>1 DEF MaxTokens, Accounts, Generations, Works, Loaded
<1>4. TokensTypes'
  BY <1>1, <1>2, <1>3, <1>t DEF TokensTypes, TokensTypeOK
<1>5. TokensIssued'
  BY <1>1, <1>2, <1>t DEF TokensIssued, Exists
<1>6. RotatedFits'
  BY <1>1, <1>2, <1>t DEF RotatedFits, Exists
<1>7. DeadGrantFits'
  <2>1. agent'[p].pc = "delete"
    BY <1>2
  <2> QED BY <2>1 DEF DeadGrantFits
<1> QED BY <1>4, <1>5, <1>6, <1>7 DEF TokensInv

\* A refresh token rejected as dead disconnects the account's row.
LEMMA DeleteAccountKeeps ==
    ASSUME TokensInv, NEW p \in Processes, DeleteAccount(p)
    PROVE  TokensInv'
<1>t. TokensTypes /\ TokensTypeOK /\ TokensIssued /\ RotatedFits /\ DeadGrantFits
  BY DEF TokensInv, TokensTypes
<1>1. /\ account' = NoAccount /\ agent' = [agent EXCEPT ![p] = NoWork]
      /\ UNCHANGED <<brand, queued, issued, age, accessLive, refreshLive, faults, overlapped, grantLost>>
  BY DEF DeleteAccount
<1>2. /\ agent' \in [Processes -> Works]
      /\ \A q \in Processes \ {p} : agent'[q] = agent[q]
      /\ \A q \in Processes : agent'[q].pc \in {"idle", "refresh", "profile", "save", "store", "delete"}
      /\ ~Holds(p)' /\ ~Rotated(p)'
      /\ \A q \in Processes \ {p} : Holds(q)' = Holds(q) /\ Rotated(q)' = Rotated(q)
  BY <1>1, <1>t, WorkEnds
<1>3. MaxTokens' = MaxTokens /\ Accounts' = Accounts /\ Generations' = Generations /\ Works' = Works /\ ~Exists'
  BY <1>1 DEF MaxTokens, Accounts, Generations, Works, Loaded, Exists
<1>4. TokensTypes'
  BY <1>1, <1>2, <1>3, <1>t DEF TokensTypes, TokensTypeOK
<1> QED BY <1>1, <1>2, <1>3, <1>4, <1>t DEF TokensInv, TokensIssued, RotatedFits, DeadGrantFits

\* A process writes its tokens into the row, over what others have saved or not.
LEMMA SaveKeeps ==
    ASSUME TokensInv, NEW p \in Processes, agent[p].pc \in {"save", "store"}, Exists,
           SaveTokens(p, agent[p].row), agent' = [agent EXCEPT ![p] = NoWork],
           UNCHANGED <<brand, queued, issued, age, accessLive, refreshLive, faults, grantLost>>
    PROVE  TokensInv'
<1>t. TokensTypes /\ TokensTypeOK /\ TokensIssued /\ RotatedFits /\ DeadGrantFits
  BY DEF TokensInv, TokensTypes
<1>1. /\ agent' \in [Processes -> Works] /\ agent'[p] = NoWork
      /\ \A q \in Processes \ {p} : agent'[q] = agent[q]
      /\ \A q \in Processes : agent'[q].pc \in {"idle", "refresh", "profile", "save", "store", "delete"}
      /\ ~Holds(p)' /\ ~Rotated(p)'
      /\ \A q \in Processes \ {p} : Holds(q)' = Holds(q) /\ Rotated(q)' = Rotated(q)
  BY <1>t, WorkEnds
<1>2. MaxTokens' = MaxTokens /\ Accounts' = Accounts /\ Generations' = Generations /\ Works' = Works
  BY DEF MaxTokens, Accounts, Generations, Works, Loaded
<1>3. /\ account' = agent[p].row /\ Holds(p) /\ agent[p].row \in Accounts /\ agent[p].loaded \in Loaded
      /\ overlapped \in BOOLEAN
      /\ overlapped' = (overlapped \/ <<account.access, account.refresh>> # agent[p].loaded)
  <2>1. agent[p] \in Works
    BY <1>t DEF TokensTypes
  <2>2. agent[p].row \in Accounts /\ agent[p].loaded \in Loaded
    BY <2>1, WorkFields
  <2> QED BY <2>2, <1>t DEF SaveTokens, Holds, TokensTypes
<1>4. TokensTypes'
  BY <1>1, <1>2, <1>3, <1>t DEF TokensTypes, TokensTypeOK
<1>5. Exists'
  BY <1>3, RowExists DEF Exists
<1>6. TokensIssued'
  BY <1>1, <1>3, <1>5, <1>t DEF TokensIssued
<1>7. RotatedFits'
  <2> SUFFICES ASSUME NEW q \in Processes \ {p}, Rotated(q)
               PROVE  /\ agent[q].row.refresh \in refreshLive \/ age[agent[q].row.refresh] = "past"
                      /\ agent[p].row.refresh # agent[q].row.refresh
                      /\ agent[q].row.refresh # 0
                      /\ \A o \in Processes \ {q} : Holds(o)' => agent'[o].row.refresh # agent[q].row.refresh
    BY <1>1, <1>3 DEF RotatedFits
  <2>1. /\ agent[q].row.refresh \in refreshLive \/ age[agent[q].row.refresh] = "past"
        /\ agent[q].row.refresh # 0
        /\ \A o \in Processes \ {q} : Holds(o) => agent[o].row.refresh # agent[q].row.refresh
    BY <1>t DEF RotatedFits
  <2> QED BY <2>1, <1>1, <1>3
<1>8. DeadGrantFits'
  <2> SUFFICES ASSUME account'.refresh # 0, account'.refresh \notin refreshLive, ~overlapped'
               PROVE  \/ grantLost
                      \/ age[account'.refresh] = "past"
                      \/ \E q \in Processes : Rotated(q)' \/ agent'[q].pc = "delete"
    BY DEF DeadGrantFits
  <2>1. CASE Rotated(p)
    BY <2>1, <1>3, <1>t DEF RotatedFits
  <2>2. CASE ~Rotated(p)
    <3>1. ~overlapped /\ agent[p].loaded = <<account.access, account.refresh>>
      BY <1>3
    <3>2. account'.refresh = account.refresh
      BY <2>2, <3>1, <1>3 DEF Rotated
    <3>3. \/ grantLost
          \/ age[account.refresh] = "past"
          \/ \E q \in Processes : Rotated(q) \/ agent[q].pc = "delete"
      BY <3>1, <3>2, <1>t DEF DeadGrantFits
    <3>4. ASSUME NEW q \in Processes, Rotated(q) \/ agent[q].pc = "delete"
          PROVE  Rotated(q)' \/ agent'[q].pc = "delete"
      <4>1. q # p
        BY <2>2, <3>4
      <4> QED BY <3>4, <4>1, <1>1
    <3> QED BY <3>2, <3>3, <3>4
  <2> QED BY <2>1, <2>2
<1> QED BY <1>4, <1>6, <1>7, <1>8 DEF TokensInv

\* A process that goes on to another place, with another row in hand.
WithRow(p, r, pc) == [agent EXCEPT ![p].row = r, ![p].pc = pc]

\* It is a process of a type.
LEMMA WorkGoesOn ==
    ASSUME TokensTypes, NEW p \in Processes, Holds(p), NEW r \in Accounts,
           NEW pc \in {"refresh", "profile", "save", "store"},
           agent' = WithRow(p, r, pc)
    PROVE  \E w \in Works : /\ w.pc = pc /\ w.row = r /\ w.loaded = agent[p].loaded
                            /\ agent' = [agent EXCEPT ![p] = w]
<1>1. agent[p] \in Works
  BY DEF TokensTypes
<1>2. agent[p] \in [pc : {"refresh", "profile", "save", "store"}, row : Accounts, loaded : Loaded]
  BY <1>1, WorkFields DEF Holds
<1>3. PICK w \in [pc : {"refresh", "profile", "save", "store"}, row : Accounts, loaded : Loaded] :
        w = [agent[p] EXCEPT !.row = r, !.pc = pc]
  BY <1>2
<1>4. w \in Works /\ w.pc = pc /\ w.row = r /\ w.loaded = agent[p].loaded
  BY <1>2, <1>3 DEF Works
<1>5. agent' = [agent EXCEPT ![p] = w]
  BY <1>1, <1>3 DEF TokensTypes, WithRow
<1> QED BY <1>4, <1>5

\* The platform answers a refresh, and may rotate the refresh token.
LEMMA RefreshAnswersKeeps ==
    ASSUME TokensInv, NEW p \in Processes, NEW next \in {"profile", "store"}, RefreshAnswers(p, next)
    PROVE  TokensInv'
<1>t. TokensTypes /\ TokensTypeOK /\ TokensIssued
  BY DEF TokensInv, TokensTypes
<1>0. PICK g \in Nat, old \in Nat : g = issued + 1 /\ old = agent[p].row.refresh
  BY <1>t DEF TokensTypeOK, TokensIssued, RefreshAnswers, Holds
<1>1. PICK kind \in Tokens.renewal :
        /\ agent[p].pc = "refresh" /\ old \in refreshLive
        /\ IssueToken(CASE kind = "rotated" -> (refreshLive \ {old}) \cup {g}
                        [] kind = "access"  -> refreshLive \cup {g}
                        [] OTHER            -> refreshLive)
        /\ agent' = [agent EXCEPT
             ![p].row = WithTokens(@, g, CASE kind \in {"rotated", "access"} -> g
                                           [] kind = "same" -> old
                                           [] OTHER -> 0),
             ![p].pc = next]
        /\ UNCHANGED <<brand, account, queued, faults, overlapped, grantLost>>
  BY <1>0 DEF RefreshAnswers, Accepts
<1> DEFINE live == CASE kind = "rotated" -> (refreshLive \ {old}) \cup {g}
                     [] kind = "access"  -> refreshLive \cup {g}
                     [] OTHER            -> refreshLive
           given == CASE kind \in {"rotated", "access"} -> g [] kind = "same" -> old [] OTHER -> 0
<1>2. /\ live \subseteq refreshLive \cup {g} /\ refreshLive \ {old} \subseteq live
      /\ given \in {0, g, old} /\ (given = g => g \in live \/ g = old \/ g = 0)
      /\ given = g \/ refreshLive \subseteq live
  BY DEF live, given
<1>3. IssueToken(live) /\ agent' = [agent EXCEPT ![p].row = WithTokens(@, g, given), ![p].pc = next]
  BY <1>1
<1> HIDE DEF live, given
<1>4. /\ issued \in Nat /\ g \in 0..MaxTokens /\ g # 0 /\ issued' \in 0..MaxTokens
      /\ refreshLive \subseteq 1..issued
      /\ MaxTokens \in Nat
  BY <1>0, <1>3, <1>t, TokenIsNew, AccountTokensAssumption DEF Generations, TokensTypes, MaxTokens
<1>5. agent[p] \in Works /\ Holds(p) /\ agent[p].row \in Accounts
  <2>1. agent[p] \in Works
    BY <1>t DEF TokensTypes
  <2> QED BY <2>1, <1>1, WorkFields DEF Holds
<1>6. PICK kept \in {g, old} : kept = (IF given # 0 THEN given ELSE old)
  BY <1>2
<1>7. old \in 0..MaxTokens /\ old # 0 /\ old \in 1..issued /\ old # g
  BY <1>0, <1>1, <1>4, <1>5 DEF Accounts
<1>8. PICK r \in Accounts : r = WithTokens(agent[p].row, g, given)
  <2>1. agent[p].row \in [access : 0..MaxTokens, refresh : 0..MaxTokens, expires : 0..MaxTokens,
                          status : {"connected", "token_expiring", "error"}]
    BY <1>5 DEF Accounts
  <2>2. WithTokens(agent[p].row, g, given) =
          [agent[p].row EXCEPT !.access = g, !.refresh = kept, !.expires = g, !.status = "connected"]
    BY <1>0, <1>6 DEF WithTokens
  <2> QED BY <2>1, <2>2, <1>4, <1>7 DEF Accounts
<1>9. r.access = g /\ r.refresh = kept
  BY <1>0, <1>5, <1>6, <1>8 DEF WithTokens, Accounts
<1>10. agent' = WithRow(p, r, next)
  BY <1>3, <1>5, <1>8, <1>t DEF TokensTypes, WithRow
<1>11. PICK w \in Works : /\ w.pc = next /\ w.row = r /\ w.loaded = agent[p].loaded
                          /\ agent' = [agent EXCEPT ![p] = w]
  <2>1. next \in {"refresh", "profile", "save", "store"}
    OBVIOUS
  <2> QED BY <2>1, <1>5, <1>10, <1>t, WorkGoesOn
<1>12. kept = old \/ (kept = g /\ g \in live)
  BY <1>2, <1>6, <1>4, <1>7
<1>13. refreshLive \subseteq live \/ kept = g
  BY <1>2, <1>6, <1>4
<1>14. g \in 0..(issued + 1) /\ grantLost' \in BOOLEAN /\ (grantLost => grantLost')
  BY <1>0, <1>1, <1>4, <1>t DEF TokensTypes
<1>15. /\ live \subseteq refreshLive \cup {issued + 1}
       /\ refreshLive \ {agent[p].row.refresh} \subseteq live
       /\ agent[p].row.refresh \in refreshLive
  BY <1>0, <1>1, <1>2
<1>16. /\ w.pc \in {"profile", "save", "store"} /\ w.pc # "refresh" /\ w.loaded = agent[p].loaded
       /\ w.row.access \in 0..(issued + 1)
       /\ \/ w.row.refresh = agent[p].row.refresh
          \/ w.row.refresh = issued + 1 /\ issued + 1 \in live
       /\ refreshLive \subseteq live \/ w.row.refresh = issued + 1
  BY <1>0, <1>9, <1>11, <1>12, <1>13, <1>14
<1> QED
  BY <1>1, <1>3, <1>11, <1>14, <1>15, <1>16, AnswerKeeps

\* A process that cannot renew the tokens goes on without.
LEMMA RefreshFailedFits ==
    ASSUME TokensTypes, NEW p \in Processes, agent[p].pc = "refresh"
    PROVE  /\ RefreshFailed(p) \in Works /\ RefreshFailed(p).pc = "profile"
           /\ RefreshFailed(p).row.access = agent[p].row.access
           /\ RefreshFailed(p).row.refresh = agent[p].row.refresh
           /\ RefreshFailed(p).loaded = agent[p].loaded
<1>1. agent[p] \in Works
  BY DEF TokensTypes
<1>2. agent[p] \in [pc : {"refresh", "profile", "save", "store"}, row : Accounts, loaded : Loaded]
  BY <1>1, WorkFields
<1>a. PICK a \in Accounts : a = agent[p].row
  BY <1>2
<1>3. PICK r \in Accounts : /\ r = [agent[p].row EXCEPT !.status = "token_expiring"]
                            /\ r.access = agent[p].row.access /\ r.refresh = agent[p].row.refresh
  <2>1. /\ [a EXCEPT !.status = "token_expiring"] \in Accounts
        /\ [a EXCEPT !.status = "token_expiring"].access = a.access
        /\ [a EXCEPT !.status = "token_expiring"].refresh = a.refresh
    BY DEF Accounts
  <2> QED BY <2>1, <1>a
<1>4. RefreshFailed(p) = [agent[p] EXCEPT !.row = r, !.pc = "profile"]
  BY <1>2, <1>3 DEF RefreshFailed
<1> QED BY <1>2, <1>3, <1>4 DEF Works

\* The steps of a process that leave the platform alone.
LEMMA LoadKeeps ==
    ASSUME TokensInv, NEW p \in Processes, agent[p] = NoWork, Exists, NEW pc \in {"refresh", "profile"},
           agent' = [agent EXCEPT ![p] = [pc |-> pc, row |-> account,
                                          loaded |-> <<account.access, account.refresh>>]],
           UNCHANGED <<brand, account, issued, age, accessLive, refreshLive, overlapped, grantLost>>,
           queued' \in BOOLEAN
    PROVE  TokensInv'
<1>t. TokensTypes /\ TokensTypeOK /\ TokensIssued
  BY DEF TokensInv, TokensTypes
<1>1. account \in Accounts
  BY <1>t DEF TokensTypeOK, Exists
<1>2. account.access \in 0..MaxTokens /\ account.refresh \in 0..MaxTokens
  BY <1>1 DEF Accounts
<1>3. PICK pair \in Loaded : /\ pair = <<account.access, account.refresh>>
                             /\ pair[2] = account.refresh
  <2>1. <<account.access, account.refresh>> \in Loaded
    BY <1>2 DEF Loaded
  <2> QED BY <2>1
<1>4. PICK a \in Accounts : a = account
  BY <1>1
<1>5. PICK w \in Works : w = [pc |-> pc, row |-> a, loaded |-> pair]
  <2>1. [pc |-> pc, row |-> a, loaded |-> pair]
          \in [pc : {"refresh", "profile", "save", "store"}, row : Accounts, loaded : Loaded]
    OBVIOUS
  <2> QED BY <2>1 DEF Works
<1>6. /\ agent' = [agent EXCEPT ![p] = w]
      /\ w.pc \in {"refresh", "profile"} /\ w.row = account /\ w.loaded = pair
  BY <1>3, <1>4, <1>5
<1>7. ~Rotated(p) /\ agent[p].pc # "delete"
  BY DEF Rotated, NoWork
<1>8. account.access \in 0..issued /\ account.refresh \in 0..issued
  BY <1>t DEF TokensIssued
<1>9. /\ w.row.access \in 0..issued /\ w.row.refresh \in 0..issued
      /\ w.pc = "refresh" => w.loaded = <<w.row.access, w.row.refresh>>
      /\ w.row.refresh = account.refresh /\ w.loaded[2] = w.row.refresh
  BY <1>3, <1>6, <1>8
<1>10. grantLost' \in BOOLEAN
  BY <1>t DEF TokensTypes
<1> QED BY <1>6, <1>7, <1>9, <1>10, AgentGoesOn

\* A step that leaves the row, the tokens and what was loaded keeps the invariant.
LEMMA SameTokensKeep ==
    ASSUME TokensInv, NEW p \in Processes, Holds(p), NEW r \in Accounts, NEW pc \in {"profile", "save"},
           r.access = agent[p].row.access, r.refresh = agent[p].row.refresh,
           agent[p].pc = "refresh" \/ agent[p].pc = "profile",
           agent' = WithRow(p, r, pc),
           UNCHANGED <<brand, account, queued, issued, age, accessLive, refreshLive, overlapped, grantLost>>
    PROVE  TokensInv'
<1>t. TokensTypes /\ TokensTypeOK /\ TokensIssued
  BY DEF TokensInv, TokensTypes
<1>1. PICK w \in Works : /\ w.pc = pc /\ w.row = r /\ w.loaded = agent[p].loaded
                         /\ agent' = [agent EXCEPT ![p] = w]
  <2>1. pc \in {"refresh", "profile", "save", "store"}
    OBVIOUS
  <2> QED BY <2>1, <1>t, WorkGoesOn
<1>2. agent[p].row.access \in 0..issued /\ agent[p].row.refresh \in 0..issued
  BY <1>t DEF TokensIssued
<1>3. grantLost' \in BOOLEAN /\ queued' \in BOOLEAN
  BY <1>t DEF TokensTypes, TokensTypeOK
<1>4. w.pc # "refresh" /\ w.row.refresh = agent[p].row.refresh /\ w.row.access \in 0..issued
      /\ w.row.refresh \in 0..issued
  BY <1>1, <1>2
<1>5. agent[p].pc = "refresh" => agent[p].loaded[2] = agent[p].row.refresh
  <2> SUFFICES ASSUME agent[p].pc = "refresh" PROVE agent[p].loaded[2] = agent[p].row.refresh
    OBVIOUS
  <2>1. agent[p].loaded = <<agent[p].row.access, agent[p].row.refresh>>
    BY <1>t DEF TokensIssued
  <2> QED BY <2>1
<1>6. w.row.refresh # w.loaded[2] => Rotated(p)
  BY <1>1, <1>4, <1>5 DEF Rotated
<1>7. Rotated(p) \/ agent[p].pc = "delete" => w.pc \in {"profile", "save", "store"} /\ w.row.refresh # w.loaded[2]
  BY <1>1, <1>4 DEF Rotated
<1> QED BY <1>1, <1>3, <1>4, <1>6, <1>7, AgentGoesOn

\* A process that is done with the account keeps the invariant.
LEMMA RestKeeps ==
    ASSUME TokensInv, NEW p \in Processes, agent' = [agent EXCEPT ![p] = NoWork],
           UNCHANGED <<brand, account, issued, age, accessLive, refreshLive, overlapped>>,
           queued' \in BOOLEAN, grantLost' \in BOOLEAN, grantLost => grantLost',
           Exists /\ (Rotated(p) \/ agent[p].pc = "delete") => grantLost'
    PROVE  TokensInv'
<1>1. NoWork \in Works /\ NoWork.pc = "idle"
  BY DEF Works, NoWork
<1> QED BY <1>1, AgentGoesOn

\* Every step keeps the tokens in order.
LEMMA TokensStep ==
    ASSUME TokensInv, [TokensNext]_TokenVars
    PROVE  TokensInv'
<1>t. TokensTypes /\ TokensTypeOK /\ TokensIssued
  BY DEF TokensInv, TokensTypes
<1>0. /\ \A p \in Checkers \cup Refreshers \cup Closers : p \in Processes
      /\ grantLost \in BOOLEAN /\ queued \in BOOLEAN /\ Checkers \subseteq Processes
      /\ Refreshers \subseteq Processes /\ Closers \subseteq Processes
  BY <1>t DEF Processes, TokensTypes, TokensTypeOK
<1>1. CASE TokenAges
  BY <1>1, TokenAgesKeeps
<1>2. CASE CreateOrUpdateAccount
  BY <1>2, CreateOrUpdateKeeps
<1>3. CASE ScheduleAllHealthChecks
  <2>1. /\ queued' = TRUE
        /\ UNCHANGED <<brand, account, agent, issued, age, accessLive, refreshLive, overlapped, grantLost>>
    BY <1>3 DEF ScheduleAllHealthChecks
  <2>2. MaxTokens' = MaxTokens /\ Accounts' = Accounts /\ Generations' = Generations /\ Works' = Works
    BY <2>1 DEF MaxTokens, Accounts, Generations, Works, Loaded
  <2>3. TokensTypes'
    BY <2>1, <2>2, <1>t DEF TokensTypes, TokensTypeOK
  <2>4. TokensIssued' /\ RotatedFits' /\ DeadGrantFits'
    BY <2>1 DEF TokensInv, TokensIssued, RotatedFits, DeadGrantFits, Exists, Holds, Rotated
  <2> QED BY <2>3, <2>4 DEF TokensInv
<1>4. ASSUME NEW p \in Processes, StartHealthCheck(p)
      PROVE  TokensInv'
  <2>1. /\ agent[p] = NoWork /\ queued' \in BOOLEAN
        /\ UNCHANGED <<brand, account, issued, age, accessLive, refreshLive, overlapped, grantLost>>
    BY <1>4 DEF StartHealthCheck
  <2>2. CASE Exists
    <3>1. PICK pc \in {"refresh", "profile"} : pc = IF NeedsRefresh(account) THEN "refresh" ELSE "profile"
      OBVIOUS
    <3>2. agent' = [agent EXCEPT ![p] = [pc |-> pc, row |-> account,
                                         loaded |-> <<account.access, account.refresh>>]]
      BY <1>4, <2>2, <3>1 DEF StartHealthCheck
    <3> QED BY <2>1, <2>2, <3>2, LoadKeeps
  <2>3. CASE ~Exists
    <3>1. agent' = agent
      BY <1>4, <2>3 DEF StartHealthCheck
    <3>2. agent' = [agent EXCEPT ![p] = NoWork]
      BY <2>1, <3>1, <1>t DEF TokensTypes
    <3> QED BY <1>0, <2>1, <2>3, <3>2, RestKeeps
  <2> QED BY <2>2, <2>3
<1>5. ASSUME NEW p \in Processes, StartRefresh(p)
      PROVE  TokensInv'
  <2>1. "refresh" \in {"refresh", "profile"}
    OBVIOUS
  <2> QED BY <1>0, <1>5, <2>1, LoadKeeps DEF StartRefresh
<1>6. ASSUME NEW p \in Processes, NEW next \in {"profile", "store"}, RefreshAnswers(p, next)
      PROVE  TokensInv'
  BY <1>6, RefreshAnswersKeeps
<1>7. ASSUME NEW p \in Processes, RefreshFails(p, RefreshFailed(p)) \/ RefreshFails(p, NoWork)
      PROVE  TokensInv'
  <2>1. /\ agent[p].pc = "refresh" /\ Holds(p)
        /\ UNCHANGED <<brand, account, queued, issued, age, accessLive, refreshLive, overlapped, grantLost>>
    BY <1>7 DEF RefreshFails, Holds
  <2>2. CASE agent' = [agent EXCEPT ![p] = NoWork]
    BY <1>0, <2>1, <2>2, RestKeeps DEF Rotated
  <2>3. CASE agent' = [agent EXCEPT ![p] = RefreshFailed(p)]
    <3>1. PICK w \in Works :
            /\ w = RefreshFailed(p) /\ w.pc = "profile" /\ w.row.access = agent[p].row.access
            /\ w.row.refresh = agent[p].row.refresh /\ w.loaded = agent[p].loaded
      BY <2>1, <1>t, RefreshFailedFits
    <3>2. agent[p].row.access \in 0..issued /\ agent[p].row.refresh \in 0..issued
          /\ agent[p].loaded = <<agent[p].row.access, agent[p].row.refresh>>
      BY <2>1, <1>t DEF TokensIssued
    <3>3. w.row.refresh = w.loaded[2]
      BY <3>1, <3>2
    <3>4. ~Rotated(p) /\ agent' = [agent EXCEPT ![p] = w]
      BY <2>1, <2>3, <3>1 DEF Rotated
    <3> QED BY <1>0, <2>1, <3>1, <3>2, <3>3, <3>4, AgentGoesOn
  <2> QED BY <1>7, <2>2, <2>3 DEF RefreshFails
<1>8. ASSUME NEW p \in Processes, RefreshLosesReply(p, RefreshFailed(p)) \/ RefreshLosesReply(p, NoWork)
      PROVE  TokensInv'
  <2>1. PICK old \in Nat, g \in Nat : old = agent[p].row.refresh /\ g = issued + 1
    BY <1>8, <1>t DEF RefreshLosesReply, TokensTypeOK, TokensIssued, Holds
  <2>2. PICK live : live = IF "rotated" \in Tokens.renewal THEN (refreshLive \ {old}) \cup {g} ELSE refreshLive
    OBVIOUS
  <2>3. /\ agent[p].pc = "refresh" /\ Holds(p) /\ old \in refreshLive /\ grantLost' = TRUE
        /\ IssueToken(live)
        /\ UNCHANGED <<brand, account, queued, overlapped>>
    BY <1>8, <2>1, <2>2 DEF RefreshLosesReply, Holds, Accepts
  <2>4. /\ live \subseteq refreshLive \cup {issued + 1}
        /\ refreshLive \ {agent[p].row.refresh} \subseteq live
        /\ agent[p].row.refresh \in refreshLive
    BY <2>1, <2>2, <2>3
  <2>5. issued \in Nat /\ agent[p].row.access \in 0..issued
    BY <2>3, <1>t DEF TokensTypeOK, TokensIssued
  <2>6. CASE agent' = [agent EXCEPT ![p] = NoWork]
    <3>1. NoWork \in Works /\ NoWork.pc = "idle"
      BY DEF Works, NoWork
    <3> QED BY <2>3, <2>4, <2>6, <3>1, AnswerKeeps
  <2>7. CASE agent' = [agent EXCEPT ![p] = RefreshFailed(p)]
    <3>1. PICK w \in Works :
            /\ w = RefreshFailed(p) /\ w.pc = "profile" /\ w.row.access = agent[p].row.access
            /\ w.row.refresh = agent[p].row.refresh /\ w.loaded = agent[p].loaded
      BY <2>3, <1>t, RefreshFailedFits
    <3>2. w.row.access \in 0..(issued + 1) /\ agent' = [agent EXCEPT ![p] = w]
      BY <2>5, <2>7, <3>1
    <3> QED BY <2>3, <2>4, <3>1, <3>2, AnswerKeeps
  <2> QED BY <1>8, <2>6, <2>7 DEF RefreshLosesReply
<1>9. ASSUME NEW p \in Processes, ProfileAnswers(p) \/ ProfileFails(p)
      PROVE  TokensInv'
  <2>1. /\ agent[p].pc = "profile" /\ Holds(p)
        /\ UNCHANGED <<brand, account, queued, issued, age, accessLive, refreshLive, overlapped, grantLost>>
    BY <1>9 DEF ProfileAnswers, ProfileFails, Holds
  <2>2. agent[p] \in Works
    BY <1>t DEF TokensTypes
  <2>3. PICK a \in Accounts : a = agent[p].row
    BY <2>1, <2>2, WorkFields
  <2>4. PICK status \in {"connected", "token_expiring", "error"} :
          agent' = [agent EXCEPT ![p].row.status = status, ![p].pc = "save"]
    <3>1. CASE ProfileFails(p)
      BY <3>1 DEF ProfileFails
    <3>2. CASE ProfileAnswers(p)
      <4>1. PICK status \in {"connected", "token_expiring"} :
              status = IF agent[p].row.status = "token_expiring" THEN agent[p].row.status ELSE "connected"
        OBVIOUS
      <4> QED BY <3>2, <4>1 DEF ProfileAnswers
    <3> QED BY <1>9, <3>1, <3>2
  <2>5. PICK r \in Accounts : /\ r = [a EXCEPT !.status = status]
                              /\ r.access = a.access /\ r.refresh = a.refresh
    <3>1. /\ [a EXCEPT !.status = status] \in Accounts
          /\ [a EXCEPT !.status = status].access = a.access
          /\ [a EXCEPT !.status = status].refresh = a.refresh
      BY DEF Accounts
    <3> QED BY <3>1
  <2>6. agent[p] \in [pc : {"refresh", "profile", "save", "store"}, row : Accounts, loaded : Loaded]
    BY <2>1, <2>2, WorkFields
  <2>7. agent' = WithRow(p, r, "save")
    BY <2>3, <2>4, <2>5, <2>6, <1>t DEF WithRow, TokensTypes
  <2> QED BY <2>1, <2>3, <2>5, <2>7, SameTokensKeep
<1>10. ASSUME NEW p \in Processes, SaveHealth(p) \/ SaveRefreshed(p)
       PROVE  TokensInv'
  <2>1. /\ agent[p].pc \in {"save", "store"} /\ agent' = [agent EXCEPT ![p] = NoWork]
        /\ UNCHANGED <<brand, issued, age, accessLive, refreshLive, faults, grantLost>>
        /\ queued' \in BOOLEAN
        /\ \/ Exists /\ SaveTokens(p, agent[p].row) /\ UNCHANGED queued
           \/ ~Exists /\ UNCHANGED <<account, overlapped>>
    BY <1>0, <1>10 DEF SaveHealth, SaveRefreshed
  <2>2. CASE Exists
    BY <2>1, <2>2, SaveKeeps
  <2>3. CASE ~Exists
    BY <1>0, <2>1, <2>3, RestKeeps
  <2> QED BY <2>2, <2>3
<1>11. ASSUME NEW p \in Processes, Disconnect(p) \/ DeleteAccount(p)
       PROVE  TokensInv'
  BY <1>11, DisconnectKeeps, DeleteAccountKeeps
<1>12. ASSUME NEW p \in Processes, TokenCrash(p)
       PROVE  TokensInv'
  <2>1. /\ agent' = [agent EXCEPT ![p] = NoWork]
        /\ grantLost' = (grantLost \/ Renewed(p) \/ agent[p].pc = "delete")
        /\ queued' = (queued \/ p \in Checkers)
        /\ UNCHANGED <<brand, account, issued, age, accessLive, refreshLive, overlapped>>
    BY <1>12 DEF TokenCrash
  <2>2. Rotated(p) => Renewed(p)
    <3> SUFFICES ASSUME Rotated(p), <<agent[p].row.access, agent[p].row.refresh>> = agent[p].loaded PROVE FALSE
      BY DEF Rotated, Renewed
    <3>1. <<agent[p].row.access, agent[p].row.refresh>>[2] = agent[p].row.refresh
      OBVIOUS
    <3> QED BY <3>1 DEF Rotated
  <2>3. grantLost' \in BOOLEAN /\ queued' \in BOOLEAN
    BY <1>0, <2>1
  <2> QED BY <2>1, <2>2, <2>3, RestKeeps
<1>13. CASE UNCHANGED TokenVars
  <2>1. UNCHANGED <<brand, account, queued, agent, issued, age, accessLive, refreshLive, overlapped, grantLost>>
    BY <1>13 DEF TokenVars
  <2>2. MaxTokens' = MaxTokens /\ Accounts' = Accounts /\ Generations' = Generations /\ Works' = Works
    BY <2>1 DEF MaxTokens, Accounts, Generations, Works, Loaded
  <2>3. TokensTypes'
    BY <2>1, <2>2, <1>t DEF TokensTypes, TokensTypeOK
  <2>4. TokensIssued' /\ RotatedFits' /\ DeadGrantFits'
    BY <2>1 DEF TokensInv, TokensIssued, RotatedFits, DeadGrantFits, Exists, Holds, Rotated
  <2> QED BY <2>3, <2>4 DEF TokensInv
<1> QED
  <2>1. ASSUME NEW p \in Checkers, StartHealthCheck(p) \/ HealthStep(p) \/ TokenCrash(p)
        PROVE  TokensInv'
    BY <1>0, <1>4, <1>6, <1>7, <1>8, <1>9, <1>10, <1>12, <2>1 DEF HealthStep
  <2>2. ASSUME NEW p \in Refreshers, RefreshToken(p) \/ TokenCrash(p)
        PROVE  TokensInv'
    BY <1>0, <1>5, <1>6, <1>7, <1>8, <1>10, <1>12, <2>2 DEF RefreshToken
  <2>3. ASSUME NEW p \in Closers, Disconnect(p) \/ DeleteAccount(p) \/ TokenCrash(p)
        PROVE  TokensInv'
    BY <1>0, <1>11, <1>12, <2>3
  <2> QED BY <1>1, <1>2, <1>3, <1>13, <2>1, <2>2, <2>3 DEF TokensNext

\* Only connecting brings an account into being.
LEMMA GoneStaysGone ==
    ASSUME TokensInv, [TokensNext]_TokenVars
    PROVE  [~Exists /\ Exists' => issued' > issued]_TokenVars
<1> SUFFICES ASSUME TokensNext, ~Exists, Exists' PROVE issued' > issued
  OBVIOUS
<1>0. issued \in Nat
  BY DEF TokensInv, TokensTypes, TokensTypeOK
<1>1. ASSUME account' = account PROVE FALSE
  BY <1>1 DEF Exists
<1>2. CASE CreateOrUpdateAccount
  BY <1>0, <1>2 DEF CreateOrUpdateAccount, IssueToken
<1>3. CASE ~CreateOrUpdateAccount
  <2>1. ASSUME NEW p, \/ StartHealthCheck(p) \/ HealthStep(p) \/ TokenCrash(p) \/ RefreshToken(p) \/ Disconnect(p)
        PROVE  account' = account
    BY <2>1 DEF StartHealthCheck, HealthStep, TokenCrash, RefreshToken, Disconnect, RefreshAnswers,
         RefreshLosesReply, RefreshFails, ProfileAnswers, ProfileFails, SaveHealth, StartRefresh, SaveRefreshed
  <2>2. ASSUME NEW p, DeleteAccount(p)
        PROVE  FALSE
    BY <2>2 DEF DeleteAccount, Exists
  <2>3. TokenAges \/ ScheduleAllHealthChecks => account' = account
    BY DEF TokenAges, ScheduleAllHealthChecks
  <2> QED BY <1>1, <1>3, <2>1, <2>2, <2>3 DEF TokensNext
<1> QED BY <1>2, <1>3

\* However many health checks, refreshes, connections and disconnects of an account
\* meet, on a platform that rotates its tokens or keeps them (social_accounts/tasks.py,
\* models.py, views.py): no working grant is thrown away unless one process saved its
\* tokens over another's, a process died or a reply was lost; and what was
\* disconnected does not come back by itself.
THEOREM TokensAreKept == TokensSpec => GrantsAreKept
<1>1. TokensInv => TokensTypeOK /\ DeadGrantIsExplained
  <2> SUFFICES ASSUME TokensInv PROVE DeadGrantIsExplained
    BY DEF TokensInv, TokensTypes
  <2>1. ASSUME NEW p \in Processes, Rotated(p)
        PROVE  Renewed(p)
    <3> SUFFICES ASSUME <<agent[p].row.access, agent[p].row.refresh>> = agent[p].loaded PROVE FALSE
      BY <2>1 DEF Rotated, Renewed
    <3>1. <<agent[p].row.access, agent[p].row.refresh>>[2] = agent[p].row.refresh
      OBVIOUS
    <3> QED BY <2>1, <3>1 DEF Rotated
  <2> QED BY <2>1 DEF TokensInv, DeadGrantFits, DeadGrantIsExplained
<1> QED
  BY <1>1, TokensStart, TokensStep, GoneStaysGone, PTL
  DEF TokensSpec, GrantsAreKept, DisconnectedStaysGone

-----------------------------------------------------------------------------
(* The reminders of a stage                                                *)

\* What the row of a stage can be.
ReminderRows == [count : 0..MAX_REMINDERS, last : BOOLEAN, escalated : BOOLEAN, exists : BOOLEAN]

\* The rows that ask for another reminder.
ShortRows == {r \in ReminderRows : r.count < MAX_REMINDERS}

\* A run is off, has listed the post, or has a row in hand that asked for what it does.
ReminderRuns ==
  {NotRunning, [at |-> "listed"]}
    \union [at : {"remind", "reminded"}, copy : ShortRows]
    \union [at : {"escalate", "escalated"}, copy : ReminderRows]

\* The variables are what they can be, and the count is within the limit.
RemindersTypes ==
  /\ waits \in BOOLEAN /\ idle \in BOOLEAN /\ cooled \in BOOLEAN /\ blurred \in BOOLEAN
  /\ reminder \in ReminderRows
  /\ run \in [Runners -> ReminderRuns]
  /\ sent \in Tally /\ stalls \in 0..2

\* What a run, the only one, has done and not yet saved.
Unsaved(w) ==
  /\ run[w].at \in {"remind", "reminded"} =>
       /\ run[w].copy.count = reminder.count /\ reminder.count < MAX_REMINDERS
       /\ ~reminder.escalated /\ stalls = 0
       /\ sent = IF run[w].at = "remind" THEN reminder.count ELSE reminder.count + 1
  /\ run[w].at \in {"escalate", "escalated"} =>
       /\ reminder.count = MAX_REMINDERS /\ sent = MAX_REMINDERS /\ ~reminder.escalated
       /\ stalls = IF run[w].at = "escalate" THEN 0 ELSE 1

\* The row tells what was sent.
RowIsTrue ==
  /\ sent = reminder.count
  /\ stalls = IF reminder.escalated THEN 1 ELSE 0
  /\ reminder.escalated => reminder.count = MAX_REMINDERS

\* As long as the runs do not meet, one is at work at most, and the row tells what was
\* sent but for what that run has not saved.
RemindersInv ==
  /\ RemindersTypes
  /\ ~blurred =>
       /\ \A v, w \in Runners : run[v].at # "off" /\ run[w].at # "off" => v = w
       /\ \A w \in Runners : Unsaved(w)
       /\ (\A w \in Runners : run[w].at \in {"off", "listed"}) => RowIsTrue

\* The other runs stay where they are.
LEMMA RunMoves ==
  ASSUME RemindersTypes, NEW w \in Runners, NEW r, run' = [run EXCEPT ![w] = r]
  PROVE  run'[w] = r /\ \A v \in Runners \ {w} : run'[v] = run[v]
BY DEF RemindersTypes

\* A run is in one of these places, and has a row in hand once it has loaded one.
LEMMA RunPlaces ==
  ASSUME RemindersTypes, NEW w \in Runners
  PROVE  /\ run[w].at \in {"off", "listed", "remind", "reminded", "escalate", "escalated"}
         /\ run[w].at = "off" <=> run[w] = NotRunning
         /\ run[w].at \in {"remind", "reminded"} => run[w] \in [at : {"remind", "reminded"}, copy : ShortRows]
         /\ run[w].at \in {"escalate", "escalated"} => run[w] \in [at : {"escalate", "escalated"}, copy : ReminderRows]
<1>1. run[w] \in ReminderRuns
  BY DEF RemindersTypes
<1>2. CASE run[w] = NotRunning
  BY <1>2 DEF NotRunning
<1>3. CASE run[w] = [at |-> "listed"]
  BY <1>3 DEF NotRunning
<1>4. CASE run[w] \in [at : {"remind", "reminded"}, copy : ShortRows]
  BY <1>4 DEF NotRunning
<1>5. CASE run[w] \in [at : {"escalate", "escalated"}, copy : ReminderRows]
  BY <1>5 DEF NotRunning
<1> QED BY <1>1, <1>2, <1>3, <1>4, <1>5 DEF ReminderRuns

\* A run moves on, alone unless the runs have met.
LEMMA RunGoesOn ==
  ASSUME RemindersInv, NEW w \in Runners, NEW r \in ReminderRuns, run' = [run EXCEPT ![w] = r],
         waits' \in BOOLEAN, idle' \in BOOLEAN, cooled' \in BOOLEAN, blurred' \in BOOLEAN,
         reminder' \in ReminderRows, sent' \in Tally, stalls' \in 0..2,
         ~blurred' => /\ \A v \in Runners \ {w} : run[v].at = "off"
                      /\ Unsaved(w)'
                      /\ r.at \in {"off", "listed"} => RowIsTrue'
  PROVE  RemindersInv'
<1>1. run'[w] = r /\ \A v \in Runners \ {w} : run'[v] = run[v]
  BY RunMoves DEF RemindersInv
<1>2. run' \in [Runners -> ReminderRuns]
  BY DEF RemindersInv, RemindersTypes
<1>3. RemindersTypes'
  BY <1>2 DEF RemindersTypes
<1>4. ASSUME ~blurred'
      PROVE  \A u, v \in Runners : run'[u].at # "off" /\ run'[v].at # "off" => u = v
  BY <1>1, <1>4
<1>5. ASSUME ~blurred', NEW v \in Runners PROVE Unsaved(v)'
  <2>1. CASE v = w
    BY <1>5, <2>1
  <2>2. CASE v # w
    BY <1>1, <1>5, <2>2 DEF Unsaved
  <2> QED BY <2>1, <2>2
<1>6. ASSUME ~blurred', \A v \in Runners : run'[v].at \in {"off", "listed"} PROVE RowIsTrue'
  BY <1>1, <1>6
<1> QED BY <1>3, <1>4, <1>5, <1>6 DEF RemindersInv

\* A run that is not off works alone unless the runs have met.
LEMMA RunsAlone ==
  ASSUME RemindersInv, NEW w \in Runners, run[w].at # "off", ~blurred
  PROVE  /\ \A v \in Runners \ {w} : run[v].at = "off"
         /\ Unsaved(w)
         /\ run[w].at = "listed" => RowIsTrue
BY DEF RemindersInv

\* A run lists the post.
LEMMA ListingKeepsReminders ==
  ASSUME RemindersInv, NEW w \in Runners, List(w)
  PROVE  RemindersInv'
<1>1. RemindersTypes /\ run[w].at = "off"
  BY RunPlaces DEF RemindersInv, List
<1>2. PICK r : r = [at |-> "listed"]
  OBVIOUS
<1>3. r.at = "listed" /\ r \in ReminderRuns
  BY <1>2 DEF ReminderRuns
<1>4. /\ run' = [run EXCEPT ![w] = r] /\ run'[w] = r
      /\ UNCHANGED <<waits, idle, cooled, reminder, sent, stalls>> /\ blurred' = (blurred \/ Others(w))
  BY <1>1, <1>2, RunMoves DEF List
<1>5. blurred' \in BOOLEAN
  BY <1>1, <1>4 DEF RemindersTypes
<1>6. ASSUME ~blurred' PROVE \A v \in Runners \ {w} : run[v].at = "off"
  BY <1>1, <1>4, <1>6, RunPlaces DEF Others
<1>7. ASSUME ~blurred' PROVE RowIsTrue
  <2>1. \A v \in Runners : run[v].at \in {"off", "listed"}
    BY <1>1, <1>6, <1>7
  <2> QED BY <1>4, <1>7, <2>1 DEF RemindersInv
<1>8. ~blurred' => Unsaved(w)' /\ RowIsTrue'
  BY <1>3, <1>4, <1>7 DEF Unsaved, RowIsTrue
<1> QED BY <1>1, <1>3, <1>4, <1>5, <1>6, <1>8, RunGoesOn DEF RemindersTypes

\* A run loads the row, and finds nothing to do or takes it in hand.
LEMMA LoadingKeepsReminders ==
  ASSUME RemindersInv, NEW w \in Runners, LoadRow(w)
  PROVE  RemindersInv'
<1>1. RemindersTypes /\ run[w].at = "listed" /\ reminder \in ReminderRows
  BY DEF RemindersInv, RemindersTypes, LoadRow
<1>2. /\ reminder' = [reminder EXCEPT !.exists = TRUE]
      /\ UNCHANGED <<waits, idle, cooled, sent, stalls, blurred>>
  BY DEF LoadRow
<1>3. /\ reminder' \in ReminderRows /\ reminder'.count = reminder.count
      /\ reminder'.escalated = reminder.escalated
  BY <1>1, <1>2 DEF ReminderRows
<1>4. PICK r : /\ r = IF Task(reminder) = "nothing" THEN NotRunning ELSE [at |-> Task(reminder), copy |-> reminder']
               /\ run' = [run EXCEPT ![w] = r]
  BY DEF LoadRow
<1>5. run'[w] = r
  BY <1>1, <1>4, RunMoves
<1>6. ~blurred' => (\A v \in Runners \ {w} : run[v].at = "off") /\ RowIsTrue
  BY <1>1, <1>2, RunsAlone
<1>7. \/ Task(reminder) = "nothing"
      \/ Task(reminder) = "remind" /\ reminder.count < MAX_REMINDERS
      \/ Task(reminder) = "escalate" /\ reminder.count = MAX_REMINDERS /\ ~reminder.escalated
  BY <1>1, RemindersAssumption DEF Task, ReminderRows
<1>8. CASE Task(reminder) = "nothing"
  <2>1. r = NotRunning /\ r.at = "off" /\ r \in ReminderRuns
    BY <1>4, <1>8 DEF NotRunning, ReminderRuns
  <2>2. ~blurred' => Unsaved(w)' /\ RowIsTrue'
    BY <1>2, <1>3, <1>5, <1>6, <2>1 DEF Unsaved, RowIsTrue
  <2> QED BY <1>1, <1>2, <1>3, <1>4, <1>6, <2>1, <2>2, RunGoesOn DEF RemindersTypes
<1>9. CASE Task(reminder) = "remind" /\ reminder.count < MAX_REMINDERS
  <2>1. r.at = "remind" /\ r.copy = reminder' /\ r \in ReminderRuns
    <3>1. reminder' \in ShortRows
      BY <1>3, <1>9 DEF ShortRows
    <3>2. r = [at |-> "remind", copy |-> reminder']
      BY <1>4, <1>9
    <3> QED BY <3>1, <3>2 DEF ReminderRuns
  <2>2. ~blurred' => ~reminder.escalated /\ sent = reminder.count /\ stalls = 0
    BY <1>1, <1>6, <1>9, RemindersAssumption DEF RowIsTrue, ReminderRows
  <2>3. ~blurred' => Unsaved(w)'
    BY <1>2, <1>3, <1>5, <1>9, <2>1, <2>2 DEF Unsaved
  <2> QED BY <1>1, <1>2, <1>3, <1>4, <1>6, <2>1, <2>3, RunGoesOn DEF RemindersTypes
<1>10. CASE Task(reminder) = "escalate" /\ reminder.count = MAX_REMINDERS /\ ~reminder.escalated
  <2>1. r.at = "escalate" /\ r.copy = reminder' /\ r \in ReminderRuns
    <3>1. r = [at |-> "escalate", copy |-> reminder']
      BY <1>4, <1>10
    <3> QED BY <1>3, <3>1 DEF ReminderRuns
  <2>2. ~blurred' => sent = reminder.count /\ stalls = 0
    BY <1>6, <1>10 DEF RowIsTrue
  <2>3. ~blurred' => Unsaved(w)'
    BY <1>2, <1>3, <1>5, <1>10, <2>1, <2>2 DEF Unsaved
  <2> QED BY <1>1, <1>2, <1>3, <1>4, <1>6, <2>1, <2>3, RunGoesOn DEF RemindersTypes
<1> QED BY <1>7, <1>8, <1>9, <1>10

\* A run has sent a reminder.
LEMMA RemindingKeepsReminders ==
  ASSUME RemindersInv, NEW w \in Runners, Remind(w)
  PROVE  RemindersInv'
<1>1. RemindersTypes /\ run[w].at = "remind" /\ run[w] \in [at : {"remind", "reminded"}, copy : ShortRows]
  BY RunPlaces DEF RemindersInv, Remind
<1>2. PICK r : r = [run[w] EXCEPT !.at = "reminded"]
  OBVIOUS
<1>3. r.at = "reminded" /\ r.copy = run[w].copy /\ r \in ReminderRuns
  BY <1>1, <1>2 DEF ReminderRuns
<1>4. /\ run' = [run EXCEPT ![w] = r] /\ run'[w] = r
      /\ UNCHANGED <<waits, idle, cooled, reminder, stalls, blurred>> /\ sent' = Once(sent)
  <2>1. run' = [run EXCEPT ![w] = r]
    BY <1>1, <1>2 DEF Remind, RemindersTypes
  <2> QED BY <1>1, <2>1, RunMoves DEF Remind
<1>5. sent' \in Tally /\ (sent < MAX_REMINDERS => sent' = sent + 1)
  BY <1>1, <1>4, RemindersAssumption DEF Once, Tally, RemindersTypes
<1>6. ~blurred' => (\A v \in Runners \ {w} : run[v].at = "off") /\ Unsaved(w)
  BY <1>1, <1>4, RunsAlone
<1>7. ASSUME ~blurred' PROVE Unsaved(w)'
  <2>1. /\ run[w].copy.count = reminder.count /\ reminder.count < MAX_REMINDERS
        /\ ~reminder.escalated /\ stalls = 0 /\ sent = reminder.count
    BY <1>1, <1>6, <1>7 DEF Unsaved
  <2> QED BY <1>3, <1>4, <1>5, <2>1 DEF Unsaved
<1> QED BY <1>1, <1>3, <1>4, <1>5, <1>6, <1>7, RunGoesOn DEF RemindersTypes

\* A run has told the managers.
LEMMA EscalatingKeepsReminders ==
  ASSUME RemindersInv, NEW w \in Runners, Escalate(w)
  PROVE  RemindersInv'
<1>1. RemindersTypes /\ run[w].at = "escalate" /\ run[w] \in [at : {"escalate", "escalated"}, copy : ReminderRows]
  BY RunPlaces DEF RemindersInv, Escalate
<1>2. PICK r : r = [run[w] EXCEPT !.at = "escalated"]
  OBVIOUS
<1>3. r.at = "escalated" /\ r \in ReminderRuns
  BY <1>1, <1>2 DEF ReminderRuns
<1>4. /\ run' = [run EXCEPT ![w] = r] /\ run'[w] = r
      /\ UNCHANGED <<waits, idle, cooled, reminder, sent, blurred>>
      /\ stalls' = IF stalls < 2 THEN stalls + 1 ELSE stalls
  <2>1. run' = [run EXCEPT ![w] = r]
    BY <1>1, <1>2 DEF Escalate, RemindersTypes
  <2> QED BY <1>1, <2>1, RunMoves DEF Escalate
<1>5. stalls' \in 0..2 /\ (stalls = 0 => stalls' = 1)
  BY <1>1, <1>4 DEF RemindersTypes
<1>6. ~blurred' => (\A v \in Runners \ {w} : run[v].at = "off") /\ Unsaved(w)
  BY <1>1, <1>4, RunsAlone
<1>7. ASSUME ~blurred' PROVE Unsaved(w)'
  BY <1>1, <1>3, <1>4, <1>5, <1>6, <1>7 DEF Unsaved
<1> QED BY <1>1, <1>3, <1>4, <1>5, <1>6, <1>7, RunGoesOn DEF RemindersTypes

\* A run saves the row it has loaded.
LEMMA SavingKeepsReminders ==
  ASSUME RemindersInv, NEW w \in Runners, SaveCount(w) \/ SaveEscalated(w)
  PROVE  RemindersInv'
<1>1. RemindersTypes /\ reminder \in ReminderRows /\ run[w].at \in {"reminded", "escalated"}
  BY DEF RemindersInv, RemindersTypes, SaveCount, SaveEscalated
<1>2. PICK r : r = NotRunning
  OBVIOUS
<1>3. r.at = "off" /\ r \in ReminderRuns
  BY <1>2 DEF NotRunning, ReminderRuns
<1>4. run' = [run EXCEPT ![w] = r] /\ run'[w] = r /\ UNCHANGED <<waits, idle, sent, stalls, blurred>>
  BY <1>1, <1>2, RunMoves DEF SaveCount, SaveEscalated
<1>5. ~blurred' => (\A v \in Runners \ {w} : run[v].at = "off") /\ Unsaved(w)
  BY <1>1, <1>4, RunsAlone
<1>6. Unsaved(w)'
  BY <1>3, <1>4 DEF Unsaved
<1>7. CASE SaveCount(w)
  <2>1. run[w].at = "reminded" /\ cooled' = FALSE
        /\ reminder' = [reminder EXCEPT !.count = run[w].copy.count + 1, !.last = TRUE]
    BY <1>7 DEF SaveCount
  <2>2. run[w].copy.count \in 0..MAX_REMINDERS /\ run[w].copy.count < MAX_REMINDERS
    BY <1>1, <2>1, RunPlaces DEF ShortRows, ReminderRows
  <2>3. PICK n : n = run[w].copy.count + 1
    OBVIOUS
  <2>4. n \in 0..MAX_REMINDERS
    BY <2>2, <2>3, RemindersAssumption
  <2>5. /\ reminder' \in ReminderRows /\ reminder'.count = n /\ reminder'.escalated = reminder.escalated
    BY <1>1, <2>1, <2>3, <2>4 DEF ReminderRows
  <2>6. ~blurred' => RowIsTrue'
    BY <1>4, <1>5, <2>1, <2>3, <2>5 DEF Unsaved, RowIsTrue
  <2> QED BY <1>1, <1>3, <1>4, <1>5, <1>6, <2>1, <2>5, <2>6, RunGoesOn DEF RemindersTypes
<1>8. CASE SaveEscalated(w)
  <2>1. run[w].at = "escalated" /\ cooled' = cooled /\ reminder' = [reminder EXCEPT !.escalated = TRUE]
    BY <1>8 DEF SaveEscalated
  <2>2. reminder' \in ReminderRows /\ reminder'.count = reminder.count /\ reminder'.escalated = TRUE
    BY <1>1, <2>1 DEF ReminderRows
  <2>3. ~blurred' => RowIsTrue'
    BY <1>4, <1>5, <2>1, <2>2 DEF Unsaved, RowIsTrue
  <2> QED BY <1>1, <1>3, <1>4, <1>5, <1>6, <2>1, <2>2, <2>3, RunGoesOn DEF RemindersTypes
<1> QED BY <1>7, <1>8

\* A worker dies.
LEMMA DyingKeepsReminders ==
  ASSUME RemindersInv, NEW w \in Runners, Die(w)
  PROVE  RemindersInv'
<1>1. RemindersTypes
  BY DEF RemindersInv
<1>2. NotRunning \in ReminderRuns
  BY DEF ReminderRuns
<1> QED BY <1>1, <1>2, RunGoesOn DEF Die, RemindersTypes

\* The rows that a stage begins with.
LEMMA FirstRows ==
  /\ NoRow \in ReminderRows /\ NoRow.count = 0 /\ ~NoRow.escalated
  /\ FreshRow \in ReminderRows /\ FreshRow.count = 0 /\ ~FreshRow.escalated
  /\ 0 \in Tally /\ NotRunning \in ReminderRuns
<1>1. 0 \in 0..MAX_REMINDERS /\ 0 \in Tally
  BY RemindersAssumption DEF Tally
<1>2. NoRow \in ReminderRows /\ NoRow.count = 0 /\ ~NoRow.escalated
  BY <1>1 DEF NoRow, ReminderRows
<1>3. \A r \in ReminderRows : LET f == [r EXCEPT !.exists = TRUE] IN
         f \in ReminderRows /\ f.count = r.count /\ f.escalated = r.escalated
  BY DEF ReminderRows
<1>4. FreshRow \in ReminderRows /\ FreshRow.count = 0 /\ ~FreshRow.escalated
  BY <1>2, <1>3 DEF FreshRow
<1>5. NotRunning \in ReminderRuns
  BY DEF ReminderRuns
<1> QED BY <1>1, <1>2, <1>4, <1>5

\* The reviewers, the editors and the clock leave what was sent; a submission
\* forgets it together with the row.
LEMMA OthersKeepReminders ==
  ASSUME RemindersInv, Submit \/ ChipBack \/ Decided \/ Age \/ Edit
  PROVE  RemindersInv'
<1>1. RemindersTypes
  BY DEF RemindersInv
<1>2. CASE Submit
  <2>1. /\ reminder' = FreshRow /\ sent' = 0 /\ stalls' = 0 /\ run' = run /\ waits' = TRUE
        /\ blurred' = (\E w \in Runners : run[w] # NotRunning) /\ UNCHANGED <<idle, cooled>>
    BY <1>2 DEF Submit
  <2>2. reminder' \in ReminderRows /\ reminder'.count = 0 /\ ~reminder'.escalated
    BY <2>1, FirstRows
  <2>3. RemindersTypes'
    BY <1>1, <2>1, <2>2, FirstRows DEF RemindersTypes
  <2>4. ASSUME ~blurred' PROVE \A w \in Runners : run'[w].at = "off"
    BY <2>1, <2>4 DEF NotRunning
  <2>5. ASSUME ~blurred', NEW w \in Runners PROVE Unsaved(w)'
    BY <2>4, <2>5 DEF Unsaved
  <2>6. RowIsTrue'
    BY <2>1, <2>2 DEF RowIsTrue
  <2> QED BY <2>3, <2>4, <2>5, <2>6 DEF RemindersInv
<1>3. CASE ChipBack \/ Decided \/ Age \/ Edit
  <2>1. /\ UNCHANGED <<reminder, run, sent, stalls, blurred>>
        /\ waits' \in BOOLEAN /\ idle' \in BOOLEAN /\ cooled' \in BOOLEAN
    BY <1>1, <1>3 DEF ChipBack, Decided, Age, Edit, RemindersTypes
  <2>2. RemindersTypes'
    BY <1>1, <2>1 DEF RemindersTypes
  <2>3. (\A w \in Runners : Unsaved(w)' <=> Unsaved(w)) /\ (RowIsTrue' <=> RowIsTrue)
    BY <2>1 DEF Unsaved, RowIsTrue
  <2> QED BY <2>1, <2>2, <2>3 DEF RemindersInv
<1> QED BY <1>2, <1>3

\* For any number of workers, rounds and deaths, and however high the limit: a
\* submission is followed by MAX_REMINDERS reminders at most, and the managers are told
\* once, after all of them, unless a worker died or runs met (RemindersBounded, the
\* invariant of RemindersEscalate).
THEOREM RemindersAlwaysBounded == RemindersSpec => [](RemindersTypeOK /\ RemindersBounded)
<1>1. RemindersInit => RemindersInv
  <2> SUFFICES ASSUME RemindersInit PROVE RemindersInv
    OBVIOUS
  <2>1. NoRow \in ReminderRows /\ NoRow.count = 0 /\ ~NoRow.escalated
    BY FirstRows
  <2>2. run \in [Runners -> ReminderRuns] /\ \A w \in Runners : run[w].at = "off"
    BY DEF RemindersInit, ReminderRuns, NotRunning
  <2>3. waits = FALSE /\ idle = FALSE /\ cooled = FALSE /\ blurred = FALSE /\ reminder = NoRow /\ sent = 0 /\ stalls = 0
    BY DEF RemindersInit
  <2>t. RemindersTypes
    <3>1. waits \in BOOLEAN /\ idle \in BOOLEAN /\ cooled \in BOOLEAN /\ blurred \in BOOLEAN
      BY <2>3
    <3>2. reminder \in ReminderRows /\ sent \in Tally /\ stalls \in 0..2
      BY <2>1, <2>3, FirstRows
    <3> QED BY <2>2, <3>1, <3>2 DEF RemindersTypes
  <2>4. \A w \in Runners : Unsaved(w)
    BY <2>2 DEF Unsaved
  <2>5. RowIsTrue
    BY <2>1 DEF RemindersInit, RowIsTrue
  <2> QED BY <2>2, <2>t, <2>4, <2>5 DEF RemindersInv
<1>2. RemindersInv /\ [RemindersNext]_ReminderVars => RemindersInv'
  <2> SUFFICES ASSUME RemindersInv, [RemindersNext]_ReminderVars PROVE RemindersInv'
    OBVIOUS
  <2>1. CASE UNCHANGED ReminderVars
    BY <2>1 DEF ReminderVars, RemindersInv, RemindersTypes, Unsaved, RowIsTrue
  <2>2. CASE RemindersNext
    BY <2>2, OthersKeepReminders, ListingKeepsReminders, LoadingKeepsReminders, RemindingKeepsReminders,
       EscalatingKeepsReminders, SavingKeepsReminders, DyingKeepsReminders DEF RemindersNext, Runs
  <2> QED BY <2>1, <2>2
<1>3. RemindersInv => RemindersTypeOK /\ RemindersBounded
  <2> SUFFICES ASSUME RemindersInv PROVE RemindersTypeOK /\ RemindersBounded
    OBVIOUS
  <2>1. RemindersTypeOK
    BY RunPlaces, RemindersAssumption DEF RemindersInv, RemindersTypes, RemindersTypeOK, ReminderRows, Tally
  <2>2. reminder.count \in 0..MAX_REMINDERS /\ sent \in Nat
    BY RemindersAssumption DEF RemindersInv, RemindersTypes, ReminderRows, Tally
  <2>3. ASSUME ~blurred, \A w \in Runners : run[w].at \in {"off", "listed"}
        PROVE  sent <= MAX_REMINDERS /\ stalls <= 1 /\ (stalls = 1 => sent = MAX_REMINDERS)
    BY <2>2, <2>3, RemindersAssumption DEF RemindersInv, RowIsTrue
  <2>4. ASSUME ~blurred, NEW w \in Runners, run[w].at \notin {"off", "listed"}
        PROVE  sent <= MAX_REMINDERS /\ stalls <= 1 /\ (stalls = 1 => sent = MAX_REMINDERS)
    <3>1. Unsaved(w) /\ run[w].at \in {"remind", "reminded", "escalate", "escalated"}
      BY <2>4, RunPlaces DEF RemindersInv
    <3> QED BY <2>2, <3>1, RemindersAssumption DEF Unsaved
  <2> QED BY <2>1, <2>3, <2>4 DEF RemindersBounded
<1> QED BY <1>1, <1>2, <1>3, PTL DEF RemindersSpec

-----------------------------------------------------------------------------
(* Notifications and their deliveries                                      *)

\* What the rows and the threads can be.
DeliveryRows ==
  [status : {"none", "pending", "delivered", "failed"}, attempts : Nat, next : {"never", "later", "due"}]

NoticeWork ==
  [pc : {"asleep", "next", "count", "send", "settle"}, todo : SUBSET Deliveries, left : SUBSET Deliveries,
   read : [Deliveries -> Nat], d : Deliveries \union {NoDelivery}, ok : BOOLEAN]

\* The variables are what they can be, and who dispatches has a delivery.
NotificationsTypes ==
  /\ wanted \in SUBSET Kinds /\ created \in SUBSET Notices /\ doubtful \in SUBSET Deliveries
  /\ delivery \in [Deliveries -> DeliveryRows]
  /\ thread \in [NoticeThreads -> NoticeWork]
  /\ \A t \in NoticeThreads : thread[t].pc \in {"count", "send", "settle"} => thread[t].d \in Deliveries
  /\ sendings \in [Deliveries -> Nat] /\ arrived \in [Deliveries -> Nat]

\* A thread in state w has d in hand.
Carries(w, d) == d \in w.left \/ Dispatches(w, d)

\* Nothing has been done about d.
Untried(d) ==
  /\ delivery[d].status = "none" /\ delivery[d].attempts = 0 /\ sendings[d] = 0 /\ arrived[d] = 0
  /\ \A t \in NoticeThreads : ~Carries(thread[t], d)

\* One thread is about to create d, for a notification that there is.
TodoFits(d) ==
  /\ \A t, u \in NoticeThreads : d \in thread[t].todo /\ d \in thread[u].todo => t = u
  /\ \A t \in NoticeThreads : d \in thread[t].todo => d[1] \in created /\ thread[t].read[d] = 0 /\ Untried(d)
  /\ d[1] \notin created => Untried(d)

\* One thread has d in hand, unless two have taken it together.
HandFits(d) ==
  /\ \A t \in NoticeThreads : Dispatches(thread[t], d) => d \notin thread[t].left
  /\ d \notin doubtful =>
       \A t, u \in NoticeThreads : Carries(thread[t], d) /\ Carries(thread[u], d) => t = u

\* What has been sent is counted, and d has not arrived while it is to be tried again.
CountsFit(d) ==
  /\ arrived[d] <= 1 /\ sendings[d] <= delivery[d].attempts /\ delivery[d].attempts <= MaxRetries
  /\ delivery[d].status = "pending" /\ (\A t \in NoticeThreads : ~Dispatches(thread[t], d)) => arrived[d] = 0

\* Who has d in hand knows how often it was tried.
CarrierFits(t, d) ==
  /\ Carries(thread[t], d) => delivery[d].status = "pending" /\ thread[t].read[d] = delivery[d].attempts
  /\ d \in thread[t].left \/ (Dispatches(thread[t], d) /\ thread[t].pc = "count") =>
       delivery[d].attempts < MaxRetries /\ arrived[d] = 0
  /\ Dispatches(thread[t], d) /\ thread[t].pc = "send" => sendings[d] < delivery[d].attempts /\ arrived[d] = 0
  /\ Dispatches(thread[t], d) /\ thread[t].pc = "settle" /\ ~thread[t].ok => arrived[d] = 0

\* What holds of each delivery; the rest is what holds of one that is not doubtful.
DeliveryFits(d) ==
  /\ TodoFits(d) /\ HandFits(d)
  /\ d \notin doubtful => CountsFit(d) /\ \A t \in NoticeThreads : CarrierFits(t, d)

NotificationsInv == NotificationsTypes /\ \A d \in Deliveries : DeliveryFits(d)

\* A thread in state w goes on to v and takes nothing of d up; what it leaves in the
\* middle of a dispatch is doubtful.
LeavesDelivery(w, v, d) ==
  /\ d \in v.todo => d \in w.todo
  /\ d \in v.left => d \in w.left
  /\ Dispatches(v, d) => Dispatches(w, d) /\ v.pc = w.pc /\ v.ok = w.ok
  /\ d \in v.todo \/ Carries(v, d) => v.read[d] = w.read[d]
  /\ Dispatches(w, d) => Dispatches(v, d) \/ d \in doubtful'

\* The other threads stay where they are.
LEMMA NoticeThreadMoves ==
  ASSUME NotificationsTypes, NEW t \in NoticeThreads, NEW v, thread' = [thread EXCEPT ![t] = v]
  PROVE  thread'[t] = v /\ \A u \in NoticeThreads \ {t} : thread'[u] = thread[u]
BY DEF NotificationsTypes

\* A delivery that a step leaves alone.
LEMMA DeliveryLeft ==
  ASSUME NotificationsTypes, NEW d \in Deliveries, DeliveryFits(d), created \subseteq created', doubtful \subseteq doubtful',
         delivery'[d].status = delivery[d].status, delivery'[d].attempts = delivery[d].attempts,
         sendings'[d] = sendings[d], arrived'[d] = arrived[d],
         \A t \in NoticeThreads : LeavesDelivery(thread[t], thread'[t], d)
  PROVE  DeliveryFits(d)'
<1>1. \A t \in NoticeThreads : Carries(thread'[t], d) => Carries(thread[t], d)
  BY DEF LeavesDelivery, Carries
<1>2. Untried(d) => Untried(d)'
  BY <1>1 DEF Untried
<1>3. TodoFits(d)'
  <2>1. \A t, u \in NoticeThreads : d \in thread'[t].todo /\ d \in thread'[u].todo => t = u
    BY DEF DeliveryFits, TodoFits, LeavesDelivery
  <2>2. \A t \in NoticeThreads : d \in thread'[t].todo => d[1] \in created' /\ thread'[t].read[d] = 0 /\ Untried(d)'
    BY <1>2 DEF DeliveryFits, TodoFits, LeavesDelivery
  <2>3. d[1] \notin created' => Untried(d)'
    BY <1>2 DEF DeliveryFits, TodoFits
  <2> QED BY <2>1, <2>2, <2>3 DEF TodoFits
<1>4. HandFits(d)'
  <2>1. \A t \in NoticeThreads : Dispatches(thread'[t], d) => d \notin thread'[t].left
    BY DEF DeliveryFits, HandFits, LeavesDelivery
  <2>2. d \notin doubtful' =>
          \A t, u \in NoticeThreads : Carries(thread'[t], d) /\ Carries(thread'[u], d) => t = u
    BY <1>1 DEF DeliveryFits, HandFits
  <2> QED BY <2>1, <2>2 DEF HandFits
<1>5. d \notin doubtful' => CountsFit(d)'
  <2> SUFFICES ASSUME d \notin doubtful' PROVE CountsFit(d)'
    OBVIOUS
  <2>1. CountsFit(d)
    BY DEF DeliveryFits
  <2>2. \A t \in NoticeThreads : Dispatches(thread[t], d) => Dispatches(thread'[t], d)
    BY DEF LeavesDelivery
  <2> QED BY <2>1, <2>2 DEF CountsFit
<1>6. ASSUME d \notin doubtful', NEW t \in NoticeThreads PROVE CarrierFits(t, d)'
  <2>1. CarrierFits(t, d) /\ LeavesDelivery(thread[t], thread'[t], d)
    BY <1>6 DEF DeliveryFits
  <2> QED BY <2>1 DEF CarrierFits, LeavesDelivery, Carries
<1> QED BY <1>3, <1>4, <1>5, <1>6 DEF DeliveryFits

\* A delivery that the thread t leaves alone.
LEMMA DeliveryLeftBy ==
  ASSUME NotificationsTypes, NEW d \in Deliveries, DeliveryFits(d), created \subseteq created', doubtful \subseteq doubtful',
         delivery'[d].status = delivery[d].status, delivery'[d].attempts = delivery[d].attempts,
         sendings'[d] = sendings[d], arrived'[d] = arrived[d],
         NEW t \in NoticeThreads, NEW v, thread' = [thread EXCEPT ![t] = v], LeavesDelivery(thread[t], v, d)
  PROVE  DeliveryFits(d)'
<1>1. thread'[t] = v /\ \A u \in NoticeThreads \ {t} : thread'[u] = thread[u]
  BY NoticeThreadMoves
<1>2. \A w : LeavesDelivery(w, w, d)
  BY DEF LeavesDelivery
<1>3. \A u \in NoticeThreads : LeavesDelivery(thread[u], thread'[u], d)
  BY <1>1, <1>2
<1> QED BY <1>3, DeliveryLeft

\* A thread that is asleep has nothing in hand.
LEMMA AsleepIsIdle ==
  /\ Asleep \in NoticeWork /\ Asleep.pc = "asleep" /\ Asleep.todo = {} /\ Asleep.left = {}
  /\ \A d \in Deliveries : Asleep.read[d] = 0
  /\ \A d : ~Carries(Asleep, d) /\ ~Dispatches(Asleep, d)
<1>1. Asleep.pc = "asleep" /\ Asleep.todo = {} /\ Asleep.left = {} /\ \A d \in Deliveries : Asleep.read[d] = 0
  BY DEF Asleep
<1>2. \A d : ~Carries(Asleep, d) /\ ~Dispatches(Asleep, d)
  BY <1>1 DEF Carries, Dispatches
<1>3. [d \in Deliveries |-> 0] \in [Deliveries -> Nat]
  OBVIOUS
<1>4. Asleep \in NoticeWork
  BY <1>3 DEF Asleep, NoticeWork
<1> QED BY <1>1, <1>2, <1>4

\* The state of a thread and the place of its types after a step of it.
LEMMA NoticeTypesKept ==
  ASSUME NotificationsTypes, NEW t \in NoticeThreads, NEW v \in NoticeWork, thread' = [thread EXCEPT ![t] = v],
         v.pc \in {"count", "send", "settle"} => v.d \in Deliveries,
         wanted' \in SUBSET Kinds, created' \in SUBSET Notices, doubtful' \in SUBSET Deliveries,
         delivery' \in [Deliveries -> DeliveryRows],
         sendings' \in [Deliveries -> Nat], arrived' \in [Deliveries -> Nat]
  PROVE  NotificationsTypes'
<1>1. thread' \in [NoticeThreads -> NoticeWork]
  BY DEF NotificationsTypes
<1>2. \A u \in NoticeThreads : thread'[u].pc \in {"count", "send", "settle"} => thread'[u].d \in Deliveries
  BY NoticeThreadMoves DEF NotificationsTypes
<1> QED BY <1>1, <1>2 DEF NotificationsTypes

\* Preferences are saved, or a backoff ends.
LEMMA WaitingKeepsNotices ==
  ASSUME NotificationsInv, SavePreferences \/ \E d \in Deliveries : BackoffEnds(d)
  PROVE  NotificationsInv'
<1>1. NotificationsTypes
  BY DEF NotificationsInv
<1>2. UNCHANGED <<created, thread, sendings, arrived, doubtful>>
  BY DEF SavePreferences, BackoffEnds
<1>3. /\ wanted' \in SUBSET Kinds /\ delivery' \in [Deliveries -> DeliveryRows]
      /\ \A d \in Deliveries : delivery'[d].status = delivery[d].status /\ delivery'[d].attempts = delivery[d].attempts
  <2>1. CASE SavePreferences
    <3>1. PICK k \in Kinds : wanted' = IF k \in wanted THEN wanted \ {k} ELSE wanted \union {k}
      BY <2>1 DEF SavePreferences
    <3>2. wanted' \in SUBSET Kinds /\ delivery' = delivery
      BY <1>1, <2>1, <3>1 DEF SavePreferences, NotificationsTypes
    <3> QED BY <1>1, <3>2 DEF NotificationsTypes
  <2>2. ASSUME NEW d \in Deliveries, BackoffEnds(d)
        PROVE  /\ wanted' = wanted /\ delivery' \in [Deliveries -> DeliveryRows]
               /\ \A o \in Deliveries : /\ delivery'[o].status = delivery[o].status
                                        /\ delivery'[o].attempts = delivery[o].attempts
    <3>1. PICK r : r = [delivery[d] EXCEPT !.next = "due"]
      OBVIOUS
    <3>2. delivery[d] \in DeliveryRows /\ delivery' = [delivery EXCEPT ![d] = r] /\ wanted' = wanted
      BY <1>1, <2>2, <3>1 DEF BackoffEnds, NotificationsTypes
    <3>3. r \in DeliveryRows /\ r.status = delivery[d].status /\ r.attempts = delivery[d].attempts
      BY <3>1, <3>2 DEF DeliveryRows
    <3> QED BY <1>1, <3>2, <3>3 DEF NotificationsTypes
  <2> QED BY <1>1, <2>1, <2>2 DEF NotificationsTypes
<1>4. NotificationsTypes'
  BY <1>1, <1>2, <1>3 DEF NotificationsTypes
<1>5. \A w, d : LeavesDelivery(w, w, d)
  BY DEF LeavesDelivery
<1>6. ASSUME NEW d \in Deliveries PROVE DeliveryFits(d)'
  <2>1. \A t \in NoticeThreads : LeavesDelivery(thread[t], thread'[t], d)
    BY <1>2, <1>5
  <2> QED BY <1>1, <1>2, <1>3, <2>1, DeliveryLeft DEF NotificationsInv
<1> QED BY <1>4, <1>6 DEF NotificationsInv

\* A notification is created, and its deliveries are to be.
LEMMA NotifyingKeepsNotices ==
  ASSUME NotificationsInv, NEW t \in NoticeThreads, NEW n \in Notices, Notify(t, n)
  PROVE  NotificationsInv'
<1>1. NotificationsTypes /\ \A d \in Deliveries : DeliveryFits(d)
  BY DEF NotificationsInv
<1>2. PICK v : v = [Asleep EXCEPT !.pc = "next", !.todo = {n} \X wanted]
  OBVIOUS
<1>3. /\ thread[t] = Asleep /\ n \notin created /\ created' = created \union {n} /\ thread' = [thread EXCEPT ![t] = v]
      /\ UNCHANGED <<wanted, delivery, sendings, arrived, doubtful>>
  BY <1>2 DEF Notify
<1>4. {n} \X wanted \in SUBSET Deliveries /\ \A d \in {n} \X wanted : d[1] = n
  BY <1>1 DEF NotificationsTypes, Deliveries
<1>5. /\ v \in NoticeWork /\ v.pc = "next" /\ v.todo = {n} \X wanted /\ v.left = {} /\ v.read = Asleep.read
  BY <1>2, <1>4, AsleepIsIdle DEF NoticeWork
<1>6. NotificationsTypes'
  <2>1. created' \in SUBSET Notices
    BY <1>1, <1>3 DEF NotificationsTypes
  <2> QED BY <1>1, <1>3, <1>5, <2>1, NoticeTypesKept DEF NotificationsTypes
<1>7. /\ thread'[t] = v /\ \A u \in NoticeThreads \ {t} : thread'[u] = thread[u]
      /\ \A d : ~Carries(v, d) /\ ~Dispatches(v, d)
  BY <1>1, <1>3, <1>5, NoticeThreadMoves DEF Carries, Dispatches
<1>8. ASSUME NEW d \in Deliveries, d \notin {n} \X wanted PROVE DeliveryFits(d)'
  <2>1. LeavesDelivery(thread[t], v, d)
    BY <1>3, <1>5, <1>7, <1>8, AsleepIsIdle DEF LeavesDelivery
  <2> QED BY <1>1, <1>3, <2>1, DeliveryLeftBy
<1>9. ASSUME NEW d \in {n} \X wanted PROVE DeliveryFits(d)'
  <2>1. d \in Deliveries /\ d[1] = n /\ DeliveryFits(d)
    BY <1>1, <1>4
  <2>2. Untried(d) /\ \A u \in NoticeThreads : d \notin thread[u].todo
    BY <1>3, <2>1 DEF DeliveryFits, TodoFits
  <2>3. \A u \in NoticeThreads : ~Carries(thread'[u], d) /\ ~Dispatches(thread'[u], d)
    BY <1>7, <2>2 DEF Untried, Carries
  <2>4. Untried(d)'
    BY <1>3, <2>2, <2>3 DEF Untried
  <2>5. TodoFits(d)'
    <3>1. \A u \in NoticeThreads : d \in thread'[u].todo => u = t
      BY <1>7, <2>2
    <3>2. v.read[d] = 0 /\ d[1] \in created'
      BY <1>3, <1>5, <2>1, AsleepIsIdle
    <3> QED BY <1>7, <2>4, <3>1, <3>2 DEF TodoFits
  <2>6. HandFits(d)'
    BY <2>3 DEF HandFits
  <2>7. CountsFit(d)'
    BY <2>4, NotificationsAssumption DEF CountsFit, Untried
  <2>8. \A u \in NoticeThreads : CarrierFits(u, d)'
    <3> SUFFICES ASSUME NEW u \in NoticeThreads PROVE CarrierFits(u, d)'
      OBVIOUS
    <3> QED BY <2>3 DEF CarrierFits, Carries
  <2> QED BY <2>5, <2>6, <2>7, <2>8 DEF DeliveryFits
<1> QED BY <1>6, <1>8, <1>9 DEF NotificationsInv

\* The next delivery is created, and taken in hand.
LEMMA CreatingKeepsNotices ==
  ASSUME NotificationsInv, NEW t \in NoticeThreads, CreateDelivery(t)
  PROVE  NotificationsInv'
<1>1. NotificationsTypes /\ (\A d \in Deliveries : DeliveryFits(d)) /\ thread[t] \in NoticeWork
  BY DEF NotificationsInv, NotificationsTypes
<1>2. PICK d \in thread[t].todo : /\ thread[t].pc = "next"
        /\ delivery' = [delivery EXCEPT ![d].status = "pending"]
        /\ thread' = [thread EXCEPT ![t] = [thread[t] EXCEPT !.pc = "count", !.todo = @ \ {d}, !.d = d]]
        /\ UNCHANGED <<wanted, created, mishaps, sendings, arrived, doubtful>>
  BY DEF CreateDelivery
<1>3. PICK v : v = [thread[t] EXCEPT !.pc = "count", !.todo = @ \ {d}, !.d = d]
  OBVIOUS
<1>4. PICK r : r = [delivery[d] EXCEPT !.status = "pending"]
  OBVIOUS
<1>5. d \in Deliveries /\ delivery[d] \in DeliveryRows
  BY <1>1, <1>2 DEF NoticeWork, NotificationsTypes
<1>6. thread' = [thread EXCEPT ![t] = v] /\ delivery' = [delivery EXCEPT ![d] = r]
  BY <1>1, <1>2, <1>3, <1>4, <1>5 DEF NotificationsTypes
<1>7. /\ v \in NoticeWork /\ v.pc = "count" /\ v.todo = thread[t].todo \ {d} /\ v.left = thread[t].left
      /\ v.read = thread[t].read /\ v.d = d
  BY <1>1, <1>3, <1>5 DEF NoticeWork
<1>8. r \in DeliveryRows /\ r.status = "pending" /\ r.attempts = delivery[d].attempts
  BY <1>4, <1>5 DEF DeliveryRows
<1>9. /\ delivery' \in [Deliveries -> DeliveryRows] /\ delivery'[d] = r
      /\ \A o \in Deliveries \ {d} : delivery'[o] = delivery[o]
  BY <1>1, <1>5, <1>6, <1>8 DEF NotificationsTypes
<1>10. NotificationsTypes'
  BY <1>1, <1>2, <1>5, <1>6, <1>7, <1>9, NoticeTypesKept DEF NotificationsTypes
<1>11. thread'[t] = v /\ \A u \in NoticeThreads \ {t} : thread'[u] = thread[u]
  BY <1>1, <1>6, NoticeThreadMoves
<1>12. ASSUME NEW o \in Deliveries \ {d} PROVE DeliveryFits(o)'
  <2>1. LeavesDelivery(thread[t], v, o)
    BY <1>2, <1>7, <1>12 DEF LeavesDelivery, Carries, Dispatches
  <2> QED BY <1>1, <1>2, <1>6, <1>9, <2>1, DeliveryLeftBy
<1>13. DeliveryFits(d)'
  <2>1. /\ Untried(d) /\ d[1] \in created /\ thread[t].read[d] = 0
        /\ \A u \in NoticeThreads \ {t} : d \notin thread[u].todo
    BY <1>1, <1>2, <1>5 DEF DeliveryFits, TodoFits
  <2>2. \A u \in NoticeThreads \ {t} : ~Carries(thread'[u], d) /\ ~Dispatches(thread'[u], d)
    BY <1>11, <2>1 DEF Untried, Carries
  <2>3. Dispatches(v, d) /\ d \notin v.left
    BY <1>7, <2>1 DEF Untried, Carries, Dispatches
  <2>4. TodoFits(d)'
    BY <1>2, <1>7, <1>11, <2>1 DEF TodoFits
  <2>5. HandFits(d)'
    BY <1>11, <2>2, <2>3 DEF HandFits
  <2>6. /\ delivery'[d].status = "pending" /\ delivery'[d].attempts = 0
        /\ sendings'[d] = 0 /\ arrived'[d] = 0 /\ v.read[d] = 0
    BY <1>2, <1>7, <1>8, <1>9, <2>1 DEF Untried
  <2>7. CountsFit(d)'
    BY <2>6, NotificationsAssumption DEF CountsFit
  <2>8. ASSUME NEW u \in NoticeThreads PROVE CarrierFits(u, d)'
    <3>1. CASE u = t
      BY <1>7, <1>11, <2>3, <2>6, <3>1, NotificationsAssumption DEF CarrierFits
    <3>2. CASE u # t
      BY <2>2, <3>2 DEF CarrierFits, Carries
    <3> QED BY <3>1, <3>2
  <2> QED BY <2>4, <2>5, <2>7, <2>8 DEF DeliveryFits
<1> QED BY <1>10, <1>12, <1>13 DEF NotificationsInv

\* A retry run takes the next delivery of its list in hand.
LEMMA TakingKeepsNotices ==
  ASSUME NotificationsInv, NEW t \in NoticeThreads, RetryNext(t)
  PROVE  NotificationsInv'
<1>1. NotificationsTypes /\ (\A d \in Deliveries : DeliveryFits(d)) /\ thread[t] \in NoticeWork
  BY DEF NotificationsInv, NotificationsTypes
<1>2. PICK d \in thread[t].left : /\ thread[t].pc = "next"
        /\ thread' = [thread EXCEPT ![t] = [thread[t] EXCEPT !.pc = "count", !.left = @ \ {d}, !.d = d]]
        /\ UNCHANGED <<wanted, created, delivery, mishaps, sendings, arrived, doubtful>>
  BY DEF RetryNext
<1>3. PICK v : v = [thread[t] EXCEPT !.pc = "count", !.left = @ \ {d}, !.d = d]
  OBVIOUS
<1>5. d \in Deliveries
  BY <1>1, <1>2 DEF NoticeWork
<1>6. thread' = [thread EXCEPT ![t] = v]
  BY <1>1, <1>2, <1>3 DEF NotificationsTypes
<1>7. /\ v \in NoticeWork /\ v.pc = "count" /\ v.todo = thread[t].todo /\ v.left = thread[t].left \ {d}
      /\ v.read = thread[t].read /\ v.d = d
  BY <1>1, <1>3, <1>5 DEF NoticeWork
<1>10. NotificationsTypes'
  BY <1>1, <1>2, <1>5, <1>6, <1>7, NoticeTypesKept DEF NotificationsTypes
<1>11. thread'[t] = v /\ \A u \in NoticeThreads \ {t} : thread'[u] = thread[u]
  BY <1>1, <1>6, NoticeThreadMoves
<1>12. ASSUME NEW o \in Deliveries \ {d} PROVE DeliveryFits(o)'
  <2>1. LeavesDelivery(thread[t], v, o)
    BY <1>2, <1>7, <1>12 DEF LeavesDelivery, Carries, Dispatches
  <2> QED BY <1>1, <1>2, <1>6, <2>1, DeliveryLeftBy
<1>13. DeliveryFits(d)'
  <2>1. Carries(thread[t], d) /\ ~Dispatches(thread[t], d) /\ DeliveryFits(d)
    BY <1>1, <1>2, <1>5 DEF Carries, Dispatches
  <2>2. ~Untried(d)
    BY <2>1 DEF Untried
  <2>3. (\A u \in NoticeThreads : d \notin thread'[u].todo) /\ d[1] \in created'
    BY <1>2, <1>7, <1>11, <2>1, <2>2 DEF DeliveryFits, TodoFits
  <2>4. TodoFits(d)'
    BY <2>3 DEF TodoFits
  <2>5. Dispatches(v, d) /\ d \notin v.left /\ v.pc = "count" /\ Carries(v, d)
    BY <1>7 DEF Dispatches, Carries
  <2>6. HandFits(d)'
    <3>1. \A u \in NoticeThreads : Dispatches(thread'[u], d) => d \notin thread'[u].left
      BY <1>11, <2>1, <2>5 DEF DeliveryFits, HandFits
    <3>2. \A u \in NoticeThreads : Carries(thread'[u], d) => Carries(thread[u], d)
      BY <1>11, <2>1
    <3> QED BY <1>2, <2>1, <3>1, <3>2 DEF DeliveryFits, HandFits
  <2>7. ASSUME d \notin doubtful' PROVE CountsFit(d)'
    <3>1. CountsFit(d) /\ arrived[d] = 0
      BY <1>2, <2>1, <2>7 DEF DeliveryFits, CarrierFits
    <3> QED BY <1>2, <3>1 DEF CountsFit
  <2>8. ASSUME d \notin doubtful', NEW u \in NoticeThreads PROVE CarrierFits(u, d)'
    <3>1. CarrierFits(t, d) /\ CarrierFits(u, d)
      BY <1>2, <2>1, <2>8 DEF DeliveryFits
    <3>2. CASE u = t
      BY <1>2, <1>7, <1>11, <2>1, <2>5, <3>1, <3>2 DEF CarrierFits
    <3>3. CASE u # t
      BY <1>2, <1>11, <3>1, <3>3 DEF CarrierFits
    <3> QED BY <3>2, <3>3
  <2> QED BY <2>4, <2>6, <2>7, <2>8 DEF DeliveryFits
<1> QED BY <1>10, <1>12, <1>13 DEF NotificationsInv

\* notify or a retry run ends.
LEMMA EndingKeepsNotices ==
  ASSUME NotificationsInv, NEW t \in NoticeThreads, LoopEnds(t)
  PROVE  NotificationsInv'
<1>1. NotificationsTypes /\ (\A d \in Deliveries : DeliveryFits(d))
  BY DEF NotificationsInv
<1>2. /\ thread[t].pc = "next" /\ thread' = [thread EXCEPT ![t] = Asleep]
      /\ UNCHANGED <<wanted, created, delivery, sendings, arrived, doubtful>>
  BY DEF LoopEnds
<1>3. NotificationsTypes'
  BY <1>1, <1>2, AsleepIsIdle, NoticeTypesKept DEF NotificationsTypes
<1>4. ASSUME NEW d \in Deliveries PROVE DeliveryFits(d)'
  <2>1. LeavesDelivery(thread[t], Asleep, d)
    BY <1>2, AsleepIsIdle DEF LeavesDelivery, Dispatches
  <2> QED BY <1>1, <1>2, <2>1, DeliveryLeftBy
<1> QED BY <1>3, <1>4 DEF NotificationsInv

\* A retry run lists what is due; what another has in hand is doubtful from then on.
LEMMA ListingKeepsNotices ==
  ASSUME NotificationsInv, NEW t \in NoticeThreads, RetryRun(t)
  PROVE  NotificationsInv'
<1>1. NotificationsTypes /\ (\A d \in Deliveries : DeliveryFits(d))
  BY DEF NotificationsInv
<1>2. PICK due \in SUBSET Deliveries : due = {d \in Deliveries : IsDue(delivery[d])}
  OBVIOUS
<1>3. PICK read : read = [d \in Deliveries |-> IF d \in due THEN delivery[d].attempts ELSE 0]
  OBVIOUS
<1>4. PICK v : v = [Asleep EXCEPT !.pc = "next", !.left = due, !.read = read]
  OBVIOUS
<1>5. /\ thread[t] = Asleep /\ thread' = [thread EXCEPT ![t] = v]
      /\ doubtful' = doubtful \union {d \in due : \E o \in NoticeThreads : d \in InHand(thread[o])}
      /\ UNCHANGED <<wanted, created, delivery, sendings, arrived>>
  BY <1>2, <1>3, <1>4 DEF RetryRun
<1>6. read \in [Deliveries -> Nat]
  BY <1>1, <1>3 DEF NotificationsTypes, DeliveryRows
<1>7. v \in NoticeWork /\ v.pc = "next" /\ v.todo = {} /\ v.left = due /\ v.read = read
  BY <1>4, <1>6, AsleepIsIdle DEF NoticeWork
<1>8. doubtful \subseteq doubtful' /\ doubtful' \in SUBSET Deliveries
  BY <1>1, <1>5 DEF NotificationsTypes
<1>9. NotificationsTypes'
  BY <1>1, <1>5, <1>7, <1>8, NoticeTypesKept DEF NotificationsTypes
<1>10. /\ thread'[t] = v /\ \A u \in NoticeThreads \ {t} : thread'[u] = thread[u]
       /\ \A d : ~Dispatches(v, d)
  BY <1>1, <1>5, <1>7, NoticeThreadMoves DEF Dispatches
<1>11. ASSUME NEW d \in Deliveries \ due PROVE DeliveryFits(d)'
  <2>1. LeavesDelivery(thread[t], v, d)
    BY <1>5, <1>7, <1>10, <1>11, AsleepIsIdle DEF LeavesDelivery, Carries
  <2> QED BY <1>1, <1>5, <1>8, <2>1, DeliveryLeftBy
<1>12. ASSUME NEW d \in due PROVE DeliveryFits(d)'
  <2>1. /\ d \in Deliveries /\ DeliveryFits(d)
        /\ delivery[d].status = "pending" /\ delivery[d].attempts < MaxRetries
    BY <1>1, <1>2 DEF IsDue
  <2>2. ~Untried(d)
    BY <2>1 DEF Untried
  <2>3. (\A u \in NoticeThreads : d \notin thread'[u].todo) /\ d[1] \in created'
    BY <1>5, <1>7, <1>10, <2>1, <2>2 DEF DeliveryFits, TodoFits
  <2>4. TodoFits(d)'
    BY <2>3 DEF TodoFits
  <2>5. d \notin doubtful' => \A u \in NoticeThreads : ~Carries(thread[u], d) /\ ~Dispatches(thread[u], d)
    BY <1>5, <2>1 DEF InHand, Carries
  <2>6. HandFits(d)'
    <3>1. \A u \in NoticeThreads : Dispatches(thread'[u], d) => d \notin thread'[u].left
      BY <1>10, <2>1 DEF DeliveryFits, HandFits
    <3>2. d \notin doubtful' => \A u \in NoticeThreads : Carries(thread'[u], d) => u = t
      BY <1>10, <2>5
    <3> QED BY <3>1, <3>2 DEF HandFits
  <2>7. ASSUME d \notin doubtful' PROVE CountsFit(d)' /\ arrived[d] = 0
    <3>1. CountsFit(d)
      BY <1>8, <2>1, <2>7 DEF DeliveryFits
    <3>2. arrived[d] = 0
      BY <2>1, <2>5, <2>7, <3>1 DEF CountsFit
    <3> QED BY <1>5, <3>1, <3>2 DEF CountsFit
  <2>8. ASSUME d \notin doubtful', NEW u \in NoticeThreads PROVE CarrierFits(u, d)'
    <3>1. CASE u = t
      <4>1. v.read[d] = delivery[d].attempts
        BY <1>3, <1>7, <2>1
      <4> QED BY <1>5, <1>10, <2>1, <2>7, <2>8, <3>1, <4>1 DEF CarrierFits
    <3>2. CASE u # t
      BY <1>10, <2>5, <2>8, <3>2 DEF CarrierFits, Carries
    <3> QED BY <3>1, <3>2
  <2> QED BY <2>4, <2>6, <2>7, <2>8 DEF DeliveryFits
<1> QED BY <1>9, <1>11, <1>12 DEF NotificationsInv

\* A thread dispatches d, or nothing.
OnlyDispatches(v, d) == v.pc \in {"count", "send", "settle"} => v.d = d

\* The dispatch of d goes on, and changes nothing else.
LEMMA DispatchKeepsNotices ==
  ASSUME NotificationsInv, NEW t \in NoticeThreads, NEW d \in Deliveries, Dispatches(thread[t], d),
         NEW v \in NoticeWork, thread' = [thread EXCEPT ![t] = v],
         v.todo = thread[t].todo, v.left = thread[t].left,
         OnlyDispatches(v, d),
         wanted' = wanted, created' = created, doubtful \subseteq doubtful', doubtful' \in SUBSET Deliveries,
         delivery' \in [Deliveries -> DeliveryRows],
         sendings' \in [Deliveries -> Nat], arrived' \in [Deliveries -> Nat],
         \A o \in Deliveries \ {d} : /\ v.read[o] = thread[t].read[o] /\ delivery'[o] = delivery[o]
                                     /\ sendings'[o] = sendings[o] /\ arrived'[o] = arrived[o],
         d \notin doubtful' => CountsFit(d)' /\ CarrierFits(t, d)'
  PROVE  NotificationsInv'
<1>1. NotificationsTypes /\ (\A o \in Deliveries : DeliveryFits(o))
  BY DEF NotificationsInv
<1>2. NotificationsTypes'
  BY <1>1, NoticeTypesKept DEF NotificationsTypes, OnlyDispatches
<1>3. thread'[t] = v /\ \A u \in NoticeThreads \ {t} : thread'[u] = thread[u]
  BY <1>1, NoticeThreadMoves
<1>4. ASSUME NEW o \in Deliveries \ {d} PROVE DeliveryFits(o)'
  <2>1. ~Dispatches(thread[t], o) /\ ~Dispatches(v, o)
    BY DEF Dispatches, OnlyDispatches
  <2>2. LeavesDelivery(thread[t], v, o)
    BY <2>1 DEF LeavesDelivery
  <2> QED BY <1>1, <2>2, DeliveryLeftBy
<1>5. DeliveryFits(d)'
  <2>1. Carries(thread[t], d) /\ DeliveryFits(d) /\ d \notin v.left
    BY <1>1 DEF Carries, DeliveryFits, HandFits
  <2>2. ~Untried(d)
    BY <2>1 DEF Untried
  <2>3. (\A u \in NoticeThreads : d \notin thread'[u].todo) /\ d[1] \in created'
    BY <1>3, <2>1, <2>2 DEF DeliveryFits, TodoFits
  <2>4. TodoFits(d)'
    BY <2>3 DEF TodoFits
  <2>5. d \notin doubtful' => \A u \in NoticeThreads \ {t} : ~Carries(thread[u], d)
    BY <2>1 DEF DeliveryFits, HandFits
  <2>6. HandFits(d)'
    <3>1. \A u \in NoticeThreads : Dispatches(thread'[u], d) => d \notin thread'[u].left
      BY <1>3, <2>1 DEF DeliveryFits, HandFits
    <3>2. d \notin doubtful' => \A u \in NoticeThreads : Carries(thread'[u], d) => u = t
      BY <1>3, <2>5
    <3> QED BY <3>1, <3>2 DEF HandFits
  <2>7. ASSUME d \notin doubtful', NEW u \in NoticeThreads \ {t} PROVE CarrierFits(u, d)'
    <3>1. ~Carries(thread'[u], d) /\ ~Dispatches(thread'[u], d) /\ d \notin thread'[u].left
      BY <1>3, <2>5, <2>7 DEF Carries
    <3> QED BY <3>1 DEF CarrierFits
  <2>8. d \notin doubtful' => CountsFit(d)' /\ \A u \in NoticeThreads : CarrierFits(u, d)'
    BY <2>7
  <2> QED BY <2>4, <2>6, <2>8 DEF DeliveryFits
<1> QED BY <1>2, <1>4, <1>5 DEF NotificationsInv

\* An attempt is counted.
LEMMA CountingKeepsNotices ==
  ASSUME NotificationsInv, NEW t \in NoticeThreads, Count(t)
  PROVE  NotificationsInv'
<1>1. NotificationsTypes /\ (\A o \in Deliveries : DeliveryFits(o)) /\ thread[t] \in NoticeWork /\ thread[t].pc = "count"
  BY DEF NotificationsInv, NotificationsTypes, Count
<1>2. PICK d \in Deliveries : d = thread[t].d
  BY <1>1 DEF NotificationsTypes
<1>3. Dispatches(thread[t], d)
  BY <1>1, <1>2 DEF Dispatches
<1>4. PICK n \in Nat : n = thread[t].read[d] + 1
  BY <1>1 DEF NoticeWork
<1>5. PICK read \in [Deliveries -> Nat] :
        read = [thread[t].read EXCEPT ![d] = n] /\ read[d] = n /\ \A o \in Deliveries \ {d} : read[o] = thread[t].read[o]
  <2>1. thread[t].read \in [Deliveries -> Nat]
    BY <1>1 DEF NoticeWork
  <2>2. PICK read : read = [thread[t].read EXCEPT ![d] = n]
    OBVIOUS
  <2>3. read \in [Deliveries -> Nat] /\ read[d] = n /\ \A o \in Deliveries \ {d} : read[o] = thread[t].read[o]
    BY <2>1, <2>2
  <2> QED BY <2>2, <2>3
<1>6. PICK v : v = [thread[t] EXCEPT !.pc = "send", !.read = read]
  OBVIOUS
<1>7. thread' = [thread EXCEPT ![t] = v]
  <2>1. thread' = [thread EXCEPT ![t] =
           [thread[t] EXCEPT !.pc = "send", !.read = [thread[t].read EXCEPT ![d] = thread[t].read[d] + 1]]]
    BY <1>2 DEF Count
  <2> QED BY <1>4, <1>5, <1>6, <2>1
<1>8. /\ v \in NoticeWork /\ v.pc = "send" /\ v.todo = thread[t].todo /\ v.left = thread[t].left
      /\ v.read = read /\ v.d = d
  BY <1>1, <1>2, <1>6 DEF NoticeWork
<1>9. PICK r : r = [delivery[d] EXCEPT !.attempts = n]
  OBVIOUS
<1>10. delivery' = [delivery EXCEPT ![d] = r] /\ UNCHANGED <<wanted, created, sendings, arrived, doubtful>>
  BY <1>2, <1>4, <1>9 DEF Count, Counted
<1>11. r \in DeliveryRows /\ r.attempts = n /\ r.status = delivery[d].status
  BY <1>1, <1>9 DEF DeliveryRows, NotificationsTypes
<1>12. /\ delivery' \in [Deliveries -> DeliveryRows] /\ delivery'[d] = r
       /\ \A o \in Deliveries \ {d} : delivery'[o] = delivery[o]
  BY <1>1, <1>10, <1>11 DEF NotificationsTypes
<1>13. thread'[t] = v
  BY <1>1, <1>7, NoticeThreadMoves
<1>14. Dispatches(v, d)
  BY <1>8 DEF Dispatches
<1>15. ASSUME d \notin doubtful' PROVE CountsFit(d)' /\ CarrierFits(t, d)'
  <2>1. /\ CountsFit(d) /\ delivery[d].status = "pending" /\ arrived[d] = 0
        /\ thread[t].read[d] = delivery[d].attempts /\ delivery[d].attempts < MaxRetries /\ delivery[d].attempts \in Nat
    BY <1>1, <1>3, <1>10, <1>15 DEF DeliveryFits, CarrierFits, Carries, NotificationsTypes, DeliveryRows
  <2>2. n = delivery[d].attempts + 1 /\ sendings[d] \in Nat /\ sendings[d] < n /\ n <= MaxRetries
    BY <1>1, <1>4, <2>1, NotificationsAssumption DEF CountsFit, NotificationsTypes
  <2>3. CountsFit(d)'
    BY <1>10, <1>11, <1>12, <2>1, <2>2 DEF CountsFit
  <2>4. d \notin v.left
    BY <1>1, <1>3, <1>8 DEF DeliveryFits, HandFits
  <2>5. CarrierFits(t, d)'
    BY <1>5, <1>8, <1>10, <1>11, <1>12, <1>13, <2>1, <2>2, <2>4 DEF CarrierFits
  <2> QED BY <2>3, <2>5
<1>16. doubtful' \in SUBSET Deliveries /\ sendings' \in [Deliveries -> Nat] /\ arrived' \in [Deliveries -> Nat]
  BY <1>1, <1>10 DEF NotificationsTypes
<1>17. \A o \in Deliveries \ {d} : /\ v.read[o] = thread[t].read[o] /\ delivery'[o] = delivery[o]
                                   /\ sendings'[o] = sendings[o] /\ arrived'[o] = arrived[o]
  BY <1>5, <1>8, <1>10, <1>12
<1>18. /\ wanted' = wanted /\ created' = created /\ doubtful \subseteq doubtful' /\ OnlyDispatches(v, d)
       /\ delivery' \in [Deliveries -> DeliveryRows] /\ v \in NoticeWork
       /\ v.todo = thread[t].todo /\ v.left = thread[t].left
  BY <1>8, <1>10, <1>12 DEF OnlyDispatches
<1>19. d \notin doubtful' => CountsFit(d)' /\ CarrierFits(t, d)'
  BY <1>15
<1> QED BY <1>3, <1>7, <1>16, <1>17, <1>18, <1>19, DispatchKeepsNotices

\* An attempt is made: the notice arrives or not, and is reported or not.
LEMMA SendingKeepsNotices ==
  ASSUME NotificationsInv, NEW t \in NoticeThreads, SendNotice(t)
  PROVE  NotificationsInv'
<1>1. NotificationsTypes /\ (\A o \in Deliveries : DeliveryFits(o)) /\ thread[t] \in NoticeWork /\ thread[t].pc = "send"
  BY DEF NotificationsInv, NotificationsTypes, SendNotice
<1>2. PICK d \in Deliveries : d = thread[t].d
  BY <1>1 DEF NotificationsTypes
<1>3. Dispatches(thread[t], d)
  BY <1>1, <1>2 DEF Dispatches
<1>4. PICK ok \in BOOLEAN : \E got \in BOOLEAN :
        /\ ok => got
        /\ sendings' = [sendings EXCEPT ![d] = @ + 1]
        /\ arrived' = IF got THEN [arrived EXCEPT ![d] = @ + 1] ELSE arrived
        /\ doubtful' = IF got /\ ~ok THEN doubtful \union {d} ELSE doubtful
        /\ thread' = [thread EXCEPT ![t] = [thread[t] EXCEPT !.pc = "settle", !.ok = ok]]
        /\ UNCHANGED <<wanted, created, delivery>>
  BY <1>2 DEF SendNotice
<1>5. PICK got \in BOOLEAN :
        /\ ok => got
        /\ sendings' = [sendings EXCEPT ![d] = @ + 1]
        /\ arrived' = IF got THEN [arrived EXCEPT ![d] = @ + 1] ELSE arrived
        /\ doubtful' = IF got /\ ~ok THEN doubtful \union {d} ELSE doubtful
        /\ thread' = [thread EXCEPT ![t] = [thread[t] EXCEPT !.pc = "settle", !.ok = ok]]
        /\ UNCHANGED <<wanted, created, delivery>>
  BY <1>4
<1>6. PICK v : v = [thread[t] EXCEPT !.pc = "settle", !.ok = ok]
  OBVIOUS
<1>7. thread' = [thread EXCEPT ![t] = v] /\ wanted' = wanted /\ created' = created /\ delivery' = delivery
  BY <1>5, <1>6
<1>8. /\ v \in NoticeWork /\ v.pc = "settle" /\ v.todo = thread[t].todo /\ v.left = thread[t].left
      /\ v.read = thread[t].read /\ v.d = d /\ v.ok = ok
  BY <1>1, <1>2, <1>6 DEF NoticeWork
<1>9. /\ sendings' \in [Deliveries -> Nat] /\ sendings'[d] = sendings[d] + 1
      /\ \A o \in Deliveries \ {d} : sendings'[o] = sendings[o]
  BY <1>1, <1>5 DEF NotificationsTypes
<1>10. /\ arrived' \in [Deliveries -> Nat] /\ (got => arrived'[d] = arrived[d] + 1) /\ (~got => arrived'[d] = arrived[d])
       /\ \A o \in Deliveries \ {d} : arrived'[o] = arrived[o]
  BY <1>1, <1>5 DEF NotificationsTypes
<1>11. /\ doubtful' \in SUBSET Deliveries /\ doubtful \subseteq doubtful'
       /\ d \notin doubtful' => d \notin doubtful /\ (got => ok)
  BY <1>1, <1>5 DEF NotificationsTypes
<1>12. thread'[t] = v
  BY <1>1, <1>7, NoticeThreadMoves
<1>13. ASSUME d \notin doubtful' PROVE CountsFit(d)' /\ CarrierFits(t, d)'
  <2>1. /\ CountsFit(d) /\ delivery[d].status = "pending" /\ arrived[d] = 0 /\ sendings[d] < delivery[d].attempts
        /\ thread[t].read[d] = delivery[d].attempts
    BY <1>1, <1>3, <1>11, <1>13 DEF DeliveryFits, CarrierFits, Carries
  <2>2. delivery[d].attempts \in Nat /\ sendings[d] \in Nat
    BY <1>1 DEF NotificationsTypes, DeliveryRows
  <2>3. d \notin v.left /\ Dispatches(v, d)
    BY <1>1, <1>3, <1>8 DEF DeliveryFits, HandFits, Dispatches
  <2>4. arrived'[d] <= 1 /\ (~ok => arrived'[d] = 0)
    BY <1>5, <1>10, <1>11, <1>13, <2>1
  <2>5. sendings'[d] <= delivery'[d].attempts /\ delivery'[d].attempts <= MaxRetries
    BY <1>7, <1>9, <2>1, <2>2 DEF CountsFit
  <2>6. CountsFit(d)'
    BY <1>12, <2>3, <2>4, <2>5 DEF CountsFit
  <2>7. CarrierFits(t, d)'
    BY <1>7, <1>8, <1>12, <2>1, <2>3, <2>4 DEF CarrierFits
  <2> QED BY <2>6, <2>7
<1>14. \A o \in Deliveries \ {d} : /\ v.read[o] = thread[t].read[o] /\ delivery'[o] = delivery[o]
                                   /\ sendings'[o] = sendings[o] /\ arrived'[o] = arrived[o]
  BY <1>7, <1>8, <1>9, <1>10
<1>15. delivery' \in [Deliveries -> DeliveryRows]
  BY <1>1, <1>7 DEF NotificationsTypes
<1>16. d \notin doubtful' => CountsFit(d)' /\ CarrierFits(t, d)'
  BY <1>13
<1>17. /\ v \in NoticeWork /\ v.todo = thread[t].todo /\ v.left = thread[t].left /\ OnlyDispatches(v, d)
       /\ wanted' = wanted /\ created' = created /\ thread' = [thread EXCEPT ![t] = v]
       /\ doubtful' \in SUBSET Deliveries /\ doubtful \subseteq doubtful'
       /\ sendings' \in [Deliveries -> Nat] /\ arrived' \in [Deliveries -> Nat]
  BY <1>7, <1>8, <1>9, <1>10, <1>11 DEF OnlyDispatches
<1> QED BY <1>3, <1>14, <1>15, <1>16, <1>17, DispatchKeepsNotices

\* The outcome of an attempt is saved.
LEMMA SettlingKeepsNotices ==
  ASSUME NotificationsInv, NEW t \in NoticeThreads, Settle(t)
  PROVE  NotificationsInv'
<1>1. NotificationsTypes /\ (\A o \in Deliveries : DeliveryFits(o)) /\ thread[t] \in NoticeWork /\ thread[t].pc = "settle"
  BY DEF NotificationsInv, NotificationsTypes, Settle
<1>2. PICK d \in Deliveries : d = thread[t].d
  BY <1>1 DEF NotificationsTypes
<1>3. Dispatches(thread[t], d)
  BY <1>1, <1>2 DEF Dispatches
<1>4. PICK read : read = [thread[t].read EXCEPT ![d] = 0]
  OBVIOUS
<1>5. read \in [Deliveries -> Nat] /\ \A o \in Deliveries \ {d} : read[o] = thread[t].read[o]
  <2>1. thread[t].read \in [Deliveries -> Nat]
    BY <1>1 DEF NoticeWork
  <2> QED BY <1>4, <2>1
<1>6. PICK v : v = [thread[t] EXCEPT !.pc = "next", !.read = read, !.d = NoDelivery, !.ok = FALSE]
  OBVIOUS
<1>7. /\ v \in NoticeWork /\ v.pc = "next" /\ v.todo = thread[t].todo /\ v.left = thread[t].left /\ v.read = read
  BY <1>1, <1>5, <1>6 DEF NoticeWork
<1>8. PICK r : r = IF thread[t].ok THEN [delivery[d] EXCEPT !.status = "delivered"]
                   ELSE IF Spent(thread[t].read[d]) THEN [delivery[d] EXCEPT !.status = "failed"]
                   ELSE [delivery[d] EXCEPT !.status = "pending", !.next = "later"]
  OBVIOUS
<1>9. /\ thread' = [thread EXCEPT ![t] = v] /\ delivery' = [delivery EXCEPT ![d] = r]
      /\ UNCHANGED <<wanted, created, sendings, arrived, doubtful>>
  BY <1>2, <1>4, <1>6, <1>8 DEF Settle
<1>10. /\ r \in DeliveryRows /\ r.attempts = delivery[d].attempts
       /\ thread[t].ok => r.status = "delivered"
  <2>1. delivery[d] \in DeliveryRows /\ thread[t].ok \in BOOLEAN
    BY <1>1 DEF NotificationsTypes, NoticeWork
  <2> QED BY <1>8, <2>1 DEF DeliveryRows
<1>11. /\ delivery' \in [Deliveries -> DeliveryRows] /\ delivery'[d] = r
       /\ \A o \in Deliveries \ {d} : delivery'[o] = delivery[o]
  BY <1>1, <1>9, <1>10 DEF NotificationsTypes
<1>12. thread'[t] = v
  BY <1>1, <1>9, NoticeThreadMoves
<1>13. ASSUME d \notin doubtful' PROVE CountsFit(d)' /\ CarrierFits(t, d)'
  <2>1. /\ CountsFit(d) /\ (~thread[t].ok => arrived[d] = 0)
    BY <1>1, <1>3, <1>9, <1>13 DEF DeliveryFits, CarrierFits
  <2>2. d \notin v.left /\ ~Dispatches(v, d)
    BY <1>1, <1>3, <1>7 DEF DeliveryFits, HandFits, Dispatches
  <2>3. r.status = "pending" => arrived[d] = 0
    BY <1>10, <2>1
  <2>4. arrived' = arrived /\ sendings' = sendings
    BY <1>9
  <2>5. CountsFit(d)'
    BY <1>10, <1>11, <2>1, <2>3, <2>4 DEF CountsFit
  <2>6. CarrierFits(t, d)'
    BY <1>12, <2>2 DEF CarrierFits, Carries
  <2> QED BY <2>5, <2>6
<1>14. /\ wanted' = wanted /\ created' = created /\ doubtful \subseteq doubtful' /\ doubtful' \in SUBSET Deliveries
       /\ sendings' \in [Deliveries -> Nat] /\ arrived' \in [Deliveries -> Nat] /\ thread' = [thread EXCEPT ![t] = v]
  BY <1>1, <1>9 DEF NotificationsTypes
<1>15. \A o \in Deliveries \ {d} : /\ v.read[o] = thread[t].read[o] /\ delivery'[o] = delivery[o]
                                   /\ sendings'[o] = sendings[o] /\ arrived'[o] = arrived[o]
  BY <1>5, <1>7, <1>9, <1>11
<1>16. d \notin doubtful' => CountsFit(d)' /\ CarrierFits(t, d)'
  BY <1>13
<1>17. v \in NoticeWork /\ v.todo = thread[t].todo /\ v.left = thread[t].left /\ delivery' \in [Deliveries -> DeliveryRows]
  BY <1>7, <1>11
<1>18. OnlyDispatches(v, d)
  BY <1>7 DEF OnlyDispatches
<1>19. /\ wanted' = wanted /\ created' = created /\ doubtful \subseteq doubtful' /\ doubtful' \in SUBSET Deliveries
       /\ sendings' \in [Deliveries -> Nat] /\ arrived' \in [Deliveries -> Nat]
  BY <1>14
<1>20. thread' = [thread EXCEPT ![t] = v]
  BY <1>14
<1> QED BY <1>3, <1>15, <1>16, <1>17, <1>18, <1>19, <1>20, DispatchKeepsNotices

\* A thread dies, and what it was sending is doubtful.
LEMMA DyingKeepsNotices ==
  ASSUME NotificationsInv, NEW t \in NoticeThreads, ThreadDies(t)
  PROVE  NotificationsInv'
<1>1. NotificationsTypes /\ (\A d \in Deliveries : DeliveryFits(d))
  BY DEF NotificationsInv
<1>2. /\ thread' = [thread EXCEPT ![t] = Asleep]
      /\ doubtful' = doubtful \union {d \in Deliveries : Dispatches(thread[t], d)}
      /\ UNCHANGED <<wanted, created, delivery, sendings, arrived>>
  BY DEF ThreadDies
<1>3. doubtful \subseteq doubtful' /\ doubtful' \in SUBSET Deliveries
  BY <1>1, <1>2 DEF NotificationsTypes
<1>4. NotificationsTypes'
  BY <1>1, <1>2, <1>3, AsleepIsIdle, NoticeTypesKept DEF NotificationsTypes
<1>5. ASSUME NEW d \in Deliveries PROVE DeliveryFits(d)'
  <2>1. LeavesDelivery(thread[t], Asleep, d)
    BY <1>2, AsleepIsIdle DEF LeavesDelivery
  <2> QED BY <1>1, <1>2, <1>3, <2>1, DeliveryLeftBy
<1> QED BY <1>4, <1>5 DEF NotificationsInv

\* For any number of notifications, channels and overlapping requests and runs: a notice
\* arrives once, and is sent MAX_RETRY_ATTEMPTS times at most, unless two runs took it
\* together, its worker died in the middle or a report was wrong (ArrivesOnce, the
\* invariant of NoticesArrive).
THEOREM NoticesArriveOnce == NotificationsSpec => []ArrivesOnce
<1>1. NotificationsInit => NotificationsInv
  <2> SUFFICES ASSUME NotificationsInit PROVE NotificationsInv
    OBVIOUS
  <2>1. Unsent \in DeliveryRows /\ Unsent.status = "none" /\ Unsent.attempts = 0
    BY DEF Unsent, DeliveryRows
  <2>2. /\ \A t \in NoticeThreads : thread[t] = Asleep
        /\ \A d \in Deliveries : delivery[d] = Unsent /\ sendings[d] = 0 /\ arrived[d] = 0
    BY DEF NotificationsInit
  <2>3. NotificationsTypes
    <3>1. thread \in [NoticeThreads -> NoticeWork] /\ delivery \in [Deliveries -> DeliveryRows]
      BY <2>1, AsleepIsIdle DEF NotificationsInit
    <3>2. \A t \in NoticeThreads : thread[t].pc \notin {"count", "send", "settle"}
      BY <2>2, AsleepIsIdle
    <3>3. sendings \in [Deliveries -> Nat] /\ arrived \in [Deliveries -> Nat]
      BY DEF NotificationsInit
    <3>4. wanted \in SUBSET Kinds /\ created \in SUBSET Notices /\ doubtful \in SUBSET Deliveries
      BY DEF NotificationsInit
    <3> QED BY <3>1, <3>2, <3>3, <3>4 DEF NotificationsTypes
  <2>4. ASSUME NEW d \in Deliveries PROVE DeliveryFits(d)
    <3>1. \A t \in NoticeThreads : ~Carries(thread[t], d) /\ ~Dispatches(thread[t], d) /\ d \notin thread[t].todo
      BY <2>2, AsleepIsIdle
    <3>2. Untried(d)
      BY <2>1, <2>2, <3>1 DEF Untried
    <3>3. TodoFits(d) /\ HandFits(d)
      BY <3>1, <3>2 DEF TodoFits, HandFits
    <3>4. CountsFit(d)
      BY <3>2, NotificationsAssumption DEF CountsFit, Untried
    <3>5. \A t \in NoticeThreads : CarrierFits(t, d)
      BY <3>1 DEF CarrierFits, Carries
    <3> QED BY <3>3, <3>4, <3>5 DEF DeliveryFits
  <2> QED BY <2>3, <2>4 DEF NotificationsInv
<1>2. NotificationsInv /\ [NotificationsNext]_NoticeVars => NotificationsInv'
  <2> SUFFICES ASSUME NotificationsInv, [NotificationsNext]_NoticeVars PROVE NotificationsInv'
    OBVIOUS
  <2>1. CASE UNCHANGED NoticeVars
    BY <2>1 DEF NoticeVars, NotificationsInv, NotificationsTypes, DeliveryFits, TodoFits, HandFits, CountsFit,
                CarrierFits, Untried, Carries, Dispatches
  <2>2. CASE NotificationsNext
    BY <2>2, WaitingKeepsNotices, NotifyingKeepsNotices, CreatingKeepsNotices, TakingKeepsNotices, EndingKeepsNotices,
       ListingKeepsNotices, CountingKeepsNotices, SendingKeepsNotices, SettlingKeepsNotices, DyingKeepsNotices
    DEF NotificationsNext, NoticeStep
  <2> QED BY <2>1, <2>2
<1>3. NotificationsInv => ArrivesOnce
  <2> SUFFICES ASSUME NotificationsInv, NEW d \in Deliveries, d \notin doubtful
               PROVE  arrived[d] <= 1 /\ sendings[d] <= MaxRetries
    BY DEF ArrivesOnce
  <2>1. CountsFit(d) /\ sendings[d] \in Nat /\ delivery[d].attempts \in Nat
    BY DEF NotificationsInv, DeliveryFits, NotificationsTypes, DeliveryRows
  <2> QED BY <2>1, NotificationsAssumption DEF CountsFit
<1> QED BY <1>1, <1>2, <1>3, PTL DEF NotificationsSpec
=============================================================================
