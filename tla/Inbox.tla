-------------------------------- MODULE Inbox --------------------------------
(***************************************************************************)
(* The social inbox of one account (inbox/tasks.py, webhooks.py, views.py, *)
(* the run_inbox_sync command).  Messages come by webhook, which the       *)
(* platform repeats until it is answered, and by polling from the newest   *)
(* message on; users read, answer and file them meanwhile.                 *)
(***************************************************************************)
EXTENDS Naturals, FiniteSets, FiniteSetsExt

CONSTANTS
    Messages,     \* messages on the platform
    Agents,       \* requests of users that can be in progress together
    LastNow,      \* bound: time
    MaxCares      \* bound: requests of users, deliveries and cuts

ASSUME InboxAssumption ==
    /\ Agents # {}
    /\ {LastNow, MaxCares} \subseteq Nat

NotYet == LastNow + 1      \* the time of a message that has not been sent
NoRow == [status |-> "none"]
Quiet == [pc |-> "quiet"]

VARIABLES
    now,
    sentAt,     \* when each message was sent
    box,        \* InboxMessage: status, received_at, extra["sla_notified"]
    hook,       \* the delivery that is being processed
    poll,       \* the sync process
    agent,      \* requests of users in progress
    cares,
    told,       \* history: notifications of each message, by kind
    again,      \* history: a message's mark was lost, or its save was
    behind      \* history: a message was stored while an earlier was missing,
                \* or a cycle was cut short

InboxVars == <<now, sentAt, box, hook, poll, agent, cares, told, again, behind>>

MessageStored(m) == box[m] # NoRow
Sent(m) == sentAt[m] # NotYet
Cares == cares < MaxCares /\ cares' = cares + 1
Tells(m, kind) == told' = [told EXCEPT ![m][kind] = IF @ < 2 THEN @ + 1 ELSE @]
NewRow(at) == [status |-> "unread", received |-> at, marked |-> FALSE]

-----------------------------------------------------------------------------
(* The platform *)

Passes == now < LastNow /\ now' = now + 1 /\ UNCHANGED <<sentAt, box, hook, poll, agent, cares, told, again, behind>>

IsSent(m) ==
    /\ ~Sent(m)
    /\ sentAt' = [sentAt EXCEPT ![m] = now]
    /\ UNCHANGED <<now, box, hook, poll, agent, cares, told, again, behind>>

\* Another message has been sent, and is not in the inbox.
Misses(m) == \E o \in Messages \ {m} : Sent(o) /\ ~MessageStored(o)

\* Mutant: whoever delivers a message tells of it.
MutantCreated(m) == TRUE

\* get_or_create: a message is new once.
Created(m) == ~MessageStored(m)

\* A webhook delivery, first or repeated: _create_if_new.
Delivery(m) ==
    /\ hook = Quiet /\ Sent(m) /\ Cares
    /\ hook' = IF Created(m) THEN [pc |-> "tell", message |-> m] ELSE Quiet
    /\ box' = IF MessageStored(m) THEN box ELSE [box EXCEPT ![m] = NewRow(now)]
    /\ behind' = (behind \/ (~MessageStored(m) /\ Misses(m)))
    /\ UNCHANGED <<now, sentAt, poll, agent, told, again>>

DeliveryTells ==
    /\ hook.pc = "tell"
    /\ Tells(hook.message, "new")
    /\ hook' = Quiet
    /\ UNCHANGED <<now, sentAt, box, poll, agent, cares, again, behind>>

DeliveryDies ==
    /\ hook # Quiet /\ Cares
    /\ hook' = Quiet
    /\ UNCHANGED <<now, sentAt, box, poll, agent, told, again, behind>>

-----------------------------------------------------------------------------
(* The sync process: sync_all, check_sla, and again *)

\* Mutant: only what is newer than the newest message.
MutantIsListed(m, since) == Sent(m) /\ sentAt[m] > since

\* What get_messages returns.
IsListed(m, since) == Sent(m) /\ sentAt[m] >= since

\* _sync_account: from the newest message there is.
PollLists ==
    LET stored == {box[m].received : m \in {n \in Messages : MessageStored(n)}}
        since == IF stored = {} THEN 0 ELSE Max(stored)
        all == stored = {}
    IN /\ poll.pc = "quiet"
       /\ poll' = [pc |-> "upsert",
                   list |-> {m \in Messages : IF all THEN Sent(m) ELSE IsListed(m, since)},
                   promised |-> {m \in Messages : Sent(m)}]
       /\ UNCHANGED <<now, sentAt, box, hook, agent, cares, told, again, behind>>

\* _upsert_message: what the platform says replaces what was kept in extra.
PollUpserts ==
    \E m \in poll.list :
        LET fresh == ~MessageStored(m) IN
        /\ poll.pc = "upsert"
        /\ box' = [box EXCEPT ![m] = IF fresh THEN NewRow(sentAt[m])
                                     ELSE [@ EXCEPT !.received = sentAt[m], !.marked = FALSE]]
        /\ again' = [again EXCEPT ![m] = @ \/ (~fresh /\ box[m].marked)]
        /\ IF fresh THEN Tells(m, "new") ELSE UNCHANGED told
        /\ poll' = [poll EXCEPT !.list = @ \ {m}]
        /\ UNCHANGED <<now, sentAt, hook, agent, cares, behind>>

\* The cycle goes on with the messages that are overdue and not marked.
CheckSla ==
    /\ poll.pc = "upsert" /\ poll.list = {}
    /\ poll' = [pc |-> "sla",
                list |-> {m \in Messages : MessageStored(m) /\ box[m].status \in {"unread", "open"}
                                              /\ ~box[m].marked /\ box[m].received < now},
                promised |-> poll.promised]
    /\ UNCHANGED <<now, sentAt, box, hook, agent, cares, told, again, behind>>

SlaTells ==
    \E m \in poll.list :
        /\ poll.pc = "sla"
        /\ Tells(m, "overdue")
        /\ poll' = [pc |-> "mark", list |-> poll.list \ {m}, promised |-> poll.promised, message |-> m]
        /\ UNCHANGED <<now, sentAt, box, hook, agent, cares, again, behind>>

\* extra["sla_notified"] is set.
Marked(m) == [box[m] EXCEPT !.marked = TRUE]

SlaMarks ==
    /\ poll.pc = "mark"
    /\ box' = [box EXCEPT ![poll.message] = Marked(poll.message)]
    /\ poll' = [pc |-> "sla", list |-> poll.list, promised |-> poll.promised]
    /\ UNCHANGED <<now, sentAt, hook, agent, cares, told, again, behind>>

SlaEnds ==
    /\ poll.pc = "sla" /\ poll.list = {}
    /\ poll' = [pc |-> "quiet", list |-> {}, promised |-> poll.promised]
    /\ UNCHANGED <<now, sentAt, box, hook, agent, cares, told, again, behind>>

\* An account fails in the middle of its messages, or the process is restarted.
PollCut ==
    /\ poll.pc \in {"upsert", "sla", "mark"} /\ Cares
    /\ poll' = [pc |-> "quiet", list |-> {}, promised |-> {}]
    /\ behind' = (behind \/ (poll.pc = "upsert" /\ poll.list # {}))
    /\ again' = IF poll.pc = "mark" THEN [again EXCEPT ![poll.message] = TRUE] ELSE again
    /\ UNCHANGED <<now, sentAt, box, hook, agent, told>>

-----------------------------------------------------------------------------
(* Users *)

\* message_detail and send_reply load the message; ...
Loads(a, pc) ==
    /\ agent[a] = Quiet /\ Cares
    /\ \E m \in Messages : MessageStored(m) /\ agent' = [agent EXCEPT ![a] = [pc |-> pc, message |-> m, seen |-> box[m].status]]
    /\ UNCHANGED <<now, sentAt, box, hook, poll, told, again, behind>>

MessageDetail(a) == Loads(a, "detail")
SendReply(a) == Loads(a, "reply")

\* ... an unread one becomes open; an answered one is resolved, if the workspace
\* wants it, whether or not the platform took the answer.
Saves(a) ==
    \E resolves \in BOOLEAN :
        LET w == agent[a]
            to == IF w.pc = "reply" /\ resolves THEN "resolved" ELSE IF w.seen = "unread" THEN "open" ELSE box[w.message].status
        IN /\ w # Quiet
           /\ box' = [box EXCEPT ![w.message].status = to]
           /\ agent' = [agent EXCEPT ![a] = Quiet]
           /\ UNCHANGED <<now, sentAt, hook, poll, cares, told, again, behind>>

ChangeStatus(m) ==
    /\ MessageStored(m) /\ Cares
    /\ \E s \in {"unread", "open", "resolved", "archived"} : box' = [box EXCEPT ![m].status = s]
    /\ UNCHANGED <<now, sentAt, hook, poll, agent, told, again, behind>>

\* One update of the messages that are selected: mark_read, resolve, archive.
BulkAction ==
    \E picked \in SUBSET Messages, asked \in {"mark_read", "resolve", "archive"} :
        LET after(s) == CASE asked = "mark_read" -> IF s = "unread" THEN "open" ELSE s
                          [] asked = "resolve" -> IF s = "archived" THEN s ELSE "resolved"
                          [] asked = "archive" -> "archived"
        IN /\ picked # {} /\ Cares
           /\ box' = [m \in Messages |-> IF m \in picked /\ MessageStored(m)
                                         THEN [box[m] EXCEPT !.status = after(@)] ELSE box[m]]
           /\ UNCHANGED <<now, sentAt, hook, poll, agent, told, again, behind>>

-----------------------------------------------------------------------------
InboxInit ==
    /\ now = 0
    /\ sentAt = [m \in Messages |-> NotYet]
    /\ box = [m \in Messages |-> NoRow]
    /\ hook = Quiet
    /\ poll = [pc |-> "quiet", list |-> {}, promised |-> {}]
    /\ agent = [a \in Agents |-> Quiet]
    /\ cares = 0
    /\ told = [m \in Messages |-> [new |-> 0, overdue |-> 0]]
    /\ again = [m \in Messages |-> FALSE]
    /\ behind = FALSE

InboxNext ==
    \/ Passes \/ DeliveryTells \/ DeliveryDies
    \/ PollLists \/ PollUpserts \/ CheckSla \/ SlaTells \/ SlaMarks \/ SlaEnds \/ PollCut
    \/ BulkAction
    \/ \E m \in Messages : IsSent(m) \/ Delivery(m) \/ ChangeStatus(m)
    \/ \E a \in Agents : MessageDetail(a) \/ SendReply(a) \/ Saves(a)

InboxSpec == InboxInit /\ [][InboxNext]_InboxVars

-----------------------------------------------------------------------------
\* A message is announced once, however often it is delivered and polled, and
\* found overdue once; unless the poll took its mark away, or the process was
\* cut between telling and marking.
NobodyIsToldTwice ==
    \A m \in Messages : told[m].new <= 1 /\ (told[m].overdue = 2 => again[m])

\* A cycle of the sync brings every message sent before it; unless a webhook
\* had stored a message while another one was missing, or a cycle had been cut
\* in the middle: what is older than the newest message is not asked for again.
PollMissesNothing ==
    (poll.pc \in {"sla", "mark"} /\ ~behind) => \A m \in poll.promised : MessageStored(m)
=============================================================================
