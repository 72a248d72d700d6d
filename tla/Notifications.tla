---------------------------- MODULE Notifications ----------------------------
(***************************************************************************)
(* Notifications and their deliveries (notifications/engine.py): notify    *)
(* creates a delivery for each channel and dispatches it; a periodic run   *)
(* retries what failed.  The mail server or the webhook may fail, and may  *)
(* take what it reports as failed; workers die.                            *)
(***************************************************************************)
EXTENDS Naturals, Sequences

CONSTANTS
    Notices,         \* notifications
    ChannelOrder,    \* the channels, in the order notify goes through them
    NoticeThreads,         \* requests and runs of the retry task that can overlap
    MaxRetries,      \* MAX_RETRY_ATTEMPTS
    MaxMishaps       \* bound: workers that die, and reports that are wrong

ASSUME NotificationsAssumption ==
    /\ ChannelOrder \in Seq(STRING) /\ NoticeThreads # {}
    /\ MaxRetries \in Nat \ {0} /\ MaxMishaps \in Nat

Kinds == {ChannelOrder[i] : i \in DOMAIN ChannelOrder}
Deliveries == Notices \X Kinds
Unsent == [status |-> "none", attempts |-> 0, next |-> "never"]
NoDelivery == <<>>

\* Nobody is in the request or the run.
Asleep == [pc |-> "asleep", todo |-> {}, left |-> {}, read |-> [d \in Deliveries |-> 0],
           d |-> NoDelivery, ok |-> FALSE]

VARIABLES
    wanted,       \* NotificationPreference: the channels the user has enabled
    created,      \* rows of Notification
    delivery,     \* NotificationDelivery: status, attempts, next_retry_at
    thread,       \* what notify has to create, what a retry run has left and has read, and
                  \* the delivery being dispatched
    mishaps,
    sendings,         \* history: how often each was sent
    arrived,      \* history: how often each arrived
    doubtful      \* history: taken by two threads, cut short, or wrongly reported

NoticeVars == <<wanted, created, delivery, thread, mishaps, sendings, arrived, doubtful>>

Mishap == mishaps < MaxMishaps /\ mishaps' = mishaps + 1
Dispatches(w, d) == w.pc \in {"count", "send", "settle"} /\ w.d = d
InHand(w) == {d \in Deliveries : d \in w.left \/ Dispatches(w, d)}

-----------------------------------------------------------------------------
\* _save_preferences.
SavePreferences ==
    /\ mishaps < MaxMishaps
    /\ \E k \in Kinds : wanted' = IF k \in wanted THEN wanted \ {k} ELSE wanted \cup {k}
    /\ mishaps' = mishaps + 1
    /\ UNCHANGED <<created, delivery, thread, sendings, arrived, doubtful>>

\* notify creates the notification and reads what the user wants.
Notify(t, n) ==
    /\ thread[t] = Asleep /\ n \notin created
    /\ created' = created \cup {n}
    /\ thread' = [thread EXCEPT ![t] = [Asleep EXCEPT !.pc = "next", !.todo = {n} \X wanted]]
    /\ UNCHANGED <<wanted, delivery, mishaps, sendings, arrived, doubtful>>

\* No channel of S comes before that of d.
ComesFirst(d, S) ==
    \E i \in DOMAIN ChannelOrder :
        /\ ChannelOrder[i] = d[2]
        /\ \A j \in 1..(i - 1) : \A o \in S : ChannelOrder[j] # o[2]

\* The delivery of the next channel.
CreateDelivery(t) ==
    \E d \in thread[t].todo :
        /\ thread[t].pc = "next" /\ ComesFirst(d, thread[t].todo)
        /\ delivery' = [delivery EXCEPT ![d].status = "pending"]
        /\ thread' = [thread EXCEPT ![t] = [thread[t] EXCEPT !.pc = "count", !.todo = @ \ {d}, !.d = d]]
        /\ UNCHANGED <<wanted, created, mishaps, sendings, arrived, doubtful>>

\* notify returns, or the retry run.
LoopEnds(t) ==
    /\ thread[t].pc = "next" /\ thread[t].todo = {} /\ thread[t].left = {}
    /\ thread' = [thread EXCEPT ![t] = Asleep]
    /\ UNCHANGED <<wanted, created, delivery, mishaps, sendings, arrived, doubtful>>

-----------------------------------------------------------------------------
\* The backoff is over.
BackoffEnds(d) ==
    /\ delivery[d].next = "later"
    /\ delivery' = [delivery EXCEPT ![d].next = "due"]
    /\ UNCHANGED <<wanted, created, thread, mishaps, sendings, arrived, doubtful>>

\* What the retry run asks for.
IsDue(notice) == notice.status = "pending" /\ notice.next = "due" /\ notice.attempts < MaxRetries

\* retry_failed_deliveries.
RetryRun(t) ==
    LET due == {d \in Deliveries : IsDue(delivery[d])} IN
    /\ thread[t] = Asleep /\ due # {}
    /\ thread' = [thread EXCEPT ![t] = [Asleep EXCEPT !.pc = "next", !.left = due,
                     !.read = [d \in Deliveries |-> IF d \in due THEN delivery[d].attempts ELSE 0]]]
    /\ doubtful' = doubtful \cup {d \in due : \E o \in NoticeThreads : d \in InHand(thread[o])}
    /\ UNCHANGED <<wanted, created, delivery, mishaps, sendings, arrived>>

RetryNext(t) ==
    \E d \in thread[t].left :
        /\ thread[t].pc = "next"
        /\ thread' = [thread EXCEPT ![t] = [thread[t] EXCEPT !.pc = "count", !.left = @ \ {d}, !.d = d]]
        /\ UNCHANGED <<wanted, created, delivery, mishaps, sendings, arrived, doubtful>>

-----------------------------------------------------------------------------
(* _dispatch *)

\* The attempt is counted before it is made, from the count that was read.
Counted(d, n) == [delivery[d] EXCEPT !.attempts = n]

Count(t) ==
    LET w == thread[t] IN
    /\ w.pc = "count"
    /\ delivery' = [delivery EXCEPT ![w.d] = Counted(w.d, w.read[w.d] + 1)]
    /\ thread' = [thread EXCEPT ![t] = [w EXCEPT !.pc = "send", !.read = [w.read EXCEPT ![w.d] = @ + 1]]]
    /\ UNCHANGED <<wanted, created, mishaps, sendings, arrived, doubtful>>

\* _dispatch_email, _dispatch_webhook; the notification itself is the delivery in the
\* application.  A report is wrong if the mail arrives and the call fails.
SendNotice(t) ==
    \E ok, got \in BOOLEAN :
        LET w == thread[t] IN
        /\ w.pc = "send"
        /\ ok => got
        /\ w.d[2] = "in_app" => ok
        /\ IF got /\ ~ok THEN Mishap ELSE UNCHANGED mishaps
        /\ sendings' = [sendings EXCEPT ![w.d] = @ + 1]
        /\ arrived' = IF got THEN [arrived EXCEPT ![w.d] = @ + 1] ELSE arrived
        /\ doubtful' = IF got /\ ~ok THEN doubtful \cup {w.d} ELSE doubtful
        /\ thread' = [thread EXCEPT ![t] = [w EXCEPT !.pc = "settle", !.ok = ok]]
        /\ UNCHANGED <<wanted, created, delivery>>

\* Mutant: one attempt more.
MutantSpent(n) == n > MaxRetries

\* No attempt is left.
Spent(n) == n >= MaxRetries

Settle(t) ==
    LET w == thread[t]
        outcome == IF w.ok THEN [delivery[w.d] EXCEPT !.status = "delivered"]
                   ELSE IF Spent(w.read[w.d]) THEN [delivery[w.d] EXCEPT !.status = "failed"]
                   ELSE [delivery[w.d] EXCEPT !.status = "pending", !.next = "later"]
    IN /\ w.pc = "settle"
       /\ delivery' = [delivery EXCEPT ![w.d] = outcome]
       /\ thread' = [thread EXCEPT ![t] = [w EXCEPT !.pc = "next", !.read = [w.read EXCEPT ![w.d] = 0],
                                                     !.d = NoDelivery, !.ok = FALSE]]
       /\ UNCHANGED <<wanted, created, mishaps, sendings, arrived, doubtful>>

ThreadDies(t) ==
    /\ thread[t] # Asleep /\ Mishap
    /\ doubtful' = doubtful \cup {d \in Deliveries : Dispatches(thread[t], d)}
    /\ thread' = [thread EXCEPT ![t] = Asleep]
    /\ UNCHANGED <<wanted, created, delivery, sendings, arrived>>

-----------------------------------------------------------------------------
NotificationsInit ==
    /\ wanted = Kinds
    /\ created = {}
    /\ delivery = [d \in Deliveries |-> Unsent]
    /\ thread = [t \in NoticeThreads |-> Asleep]
    /\ mishaps = 0
    /\ sendings = [d \in Deliveries |-> 0] /\ arrived = [d \in Deliveries |-> 0]
    /\ doubtful = {}

NoticeStep(t) == CreateDelivery(t) \/ RetryNext(t) \/ LoopEnds(t) \/ Count(t) \/ SendNotice(t) \/ Settle(t)

NotificationsNext ==
    \/ SavePreferences
    \/ \E t \in NoticeThreads : NoticeStep(t) \/ RetryRun(t) \/ ThreadDies(t) \/ \E n \in Notices : Notify(t, n)
    \/ \E d \in Deliveries : BackoffEnds(d)

\* Time passes, threads that run go on, and the retry task is run every minute.
NotificationsFair ==
    /\ \A t \in NoticeThreads : WF_NoticeVars(NoticeStep(t))
    /\ WF_NoticeVars(\E t \in NoticeThreads : RetryRun(t))
    /\ \A d \in Deliveries : WF_NoticeVars(BackoffEnds(d))

NotificationsSpec == NotificationsInit /\ [][NotificationsNext]_NoticeVars
NotificationsLiveSpec == NotificationsSpec /\ NotificationsFair

-----------------------------------------------------------------------------
\* A mail or a webhook arrives once, and is not sent more often than the attempts
\* allow, however the count is read and saved; unless two runs took it together
\* or a report was wrong, and arrives twice also if its worker died.
ArrivesOnce ==
    \A d \in Deliveries :
        d \notin doubtful => arrived[d] <= 1 /\ sendings[d] <= MaxRetries

\* What failed and is to be tried again is delivered or given up; unless its worker
\* died, which may leave it pending with all its attempts counted.
DeliveryIsSettled ==
    \A d \in Deliveries :
        (delivery[d].status = "pending" /\ delivery[d].next # "never") ~> (delivery[d].status # "pending" \/ d \in doubtful)

\* What is to be delivered is delivered or given up, and delivered once.
NoticesArrive == []ArrivesOnce /\ DeliveryIsSettled
=============================================================================
