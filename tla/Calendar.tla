------------------------------ MODULE Calendar ------------------------------
(***************************************************************************)
(* The calendar of a workspace: posting slots, queues that hand them out   *)
(* to the posts they hold, the drag of a chip, and what the publish page   *)
(* shows (calendar/services.py, calendar/views.py, and the queue buttons   *)
(* of composer/views.py save_post).                                        *)
(* A moment is half a day, so that a day has two and a timezone may move a *)
(* moment to the day before or after; 0 is no time.  A posting slot stands *)
(* for one moment of the horizon, and two slots of one weekday share a day.*)
(***************************************************************************)
EXTENDS Naturals, FiniteSets, Functions

CONSTANTS
    Posts, QueueChannels,
    Queues,       \* the queue rows there can be
    QueueOf,      \* the channel of each queue
    Planners,     \* requests that can be in progress together
    FirstSlots,   \* the moments of the default posting slots
    LastMoment,   \* bound: the horizon
    MaxPlans      \* bound: requests

ASSUME CalendarAssumption ==
    /\ QueueOf \in [Queues -> QueueChannels]
    /\ LastMoment \in Nat /\ MaxPlans \in Nat
    /\ FirstSlots \subseteq 2..LastMoment

Moments == 2..LastMoment
NoTime == 0

VARIABLES
    now,
    slot,      \* PostingSlot rows of a channel: none, on or off
    entries,   \* QueueEntry: the position of each post of a queue; a queue that is gone holds none
    queues,    \* the queue rows
    child,     \* PlatformPost: status and scheduled_at
    parent,    \* Post.scheduled_at
    plan,      \* requests in progress; whether they have met another
    plans,
    settled    \* history: queues whose last recalculation met no other request, and nothing has moved since

CalendarVars == <<now, slot, entries, queues, child, parent, plan, plans, settled>>

NoPlan == [pc |-> "idle"]

\* What the composer asks for; a new order of a queue asks for no more than that.
Ask == [post : Posts, all : SUBSET Queues, priority : BOOLEAN, floor : {NoTime} \cup Moments]
NoAsk == [all |-> {}]

NoChild == [status |-> "none", at |-> NoTime]
Held(q) == DOMAIN entries[q]

-----------------------------------------------------------------------------
(* calendar/services.py *)

Earliest(times) == IF times = {} THEN NoTime ELSE CHOOSE t \in times : \A u \in times : t <= u

\* sync_post_scheduled_at
SyncedParent(p, rows) == Earliest({rows[p][c].at : c \in QueueChannels} \ {NoTime})

\* The active slots of a channel after a moment.
_next_slot_datetimes(c, after) == {m \in Moments : slot[c][m] = "on" /\ m > after}

\* Slot number i, none when there are too few.
Nth(slots, i) ==
    LET nth == {m \in slots : Cardinality({n \in slots : n < m}) = i - 1}
    IN IF nth = {} THEN NoTime ELSE CHOOSE m \in nth : TRUE

\* Entries in the order of their positions; those that share one in any order.
Orders(q) == {s \in Bijection(1..Cardinality(Held(q)), Held(q)) :
                \A i, j \in DOMAIN s : i < j => entries[q][s[i]] <= entries[q][s[j]]}

\* The slot of entry i.
SlotOf(slots, i) == Nth(slots, i)

Positions(q) == {entries[q][p] : p \in Held(q)}
Largest(ns) == IF ns = {} THEN 0 ELSE CHOOSE n \in ns : \A m \in ns : m <= n

-----------------------------------------------------------------------------
(* The queue buttons of the composer *)

\* A request that has met another one.
Met(w) == IF w = NoPlan THEN w ELSE [w EXCEPT !.alone = FALSE]

Opens(r, w) ==
    /\ plan[r] = NoPlan
    /\ plans < MaxPlans
    /\ plans' = plans + 1
    /\ plan' = [o \in Planners |->
                  IF o = r THEN [w EXCEPT !.alone = \A u \in Planners \ {r} : plan[u] = NoPlan]
                  ELSE Met(plan[o])]
    /\ settled' = {}

\* The recalculation of queue q that request w has come to.
Assigning(w, q) ==
    [pc |-> "assign", ask |-> w.ask, left |-> w.left, alone |-> w.alone, queue |-> q]

\* One queue of each selected channel, or the queue that was named.
_resolve_queues_for_post ==
    {Q \in SUBSET queues : /\ Q # {}
                           /\ \A q, k \in Q : QueueOf[q] = QueueOf[k] => q = k}

\* save_post up to the queues: the missing children are created as drafts.
AsksFor(r, ask) ==
    /\ Opens(r, [pc |-> "add", ask |-> ask, left |-> ask.all, alone |-> TRUE])
    /\ child' = [child EXCEPT ![ask.post] = [c \in QueueChannels |->
         IF @[c] = NoChild /\ c \in {QueueOf[q] : q \in ask.all}
         THEN [@[c] EXCEPT !.status = "draft"] ELSE @[c]]]
    /\ UNCHANGED <<now, slot, entries, queues, parent>>

AddToQueue(r) ==
    \E p \in Posts, Q \in _resolve_queues_for_post, floor \in {NoTime} \cup Moments :
        AsksFor(r, [post |-> p, all |-> Q, priority |-> FALSE, floor |-> floor])

AddToQueuePriority(r) ==
    \E p \in Posts, Q \in _resolve_queues_for_post :
        AsksFor(r, [post |-> p, all |-> Q, priority |-> TRUE, floor |-> NoTime])

\* The largest position is read, or every entry moves down.
ReadPosition(r) ==
    LET w == plan[r] IN
    /\ w.pc = "add"
    /\ \E q \in w.left :
         IF q \in queues
         THEN /\ plan' = [plan EXCEPT ![r] =
                   [pc |-> "entry", ask |-> w.ask, left |-> w.left, alone |-> w.alone, queue |-> q,
                    position |-> IF w.ask.priority THEN 0 ELSE Largest(Positions(q)) + 1]]
              /\ entries' = IF w.ask.priority
                            THEN [entries EXCEPT ![q] = [p \in Held(q) |-> @[p] + 1]] ELSE entries
         ELSE plan' = [plan EXCEPT ![r] = NoPlan] /\ UNCHANGED entries
    /\ UNCHANGED <<now, slot, queues, child, parent, plans, settled>>

\* update_or_create of the entry.
SaveEntry(r) ==
    LET w == plan[r]
        q == w.queue
        p == w.ask.post
    IN /\ w.pc = "entry"
       /\ IF q \in queues
            THEN /\ entries' = [entries EXCEPT ![q] = [k \in Held(q) \cup {p} |->
                                  IF k = p THEN w.position ELSE @[k]]]
                 /\ plan' = [plan EXCEPT ![r] = Assigning(w, q)]
            ELSE plan' = [plan EXCEPT ![r] = NoPlan] /\ UNCHANGED entries
       /\ UNCHANGED <<now, slot, queues, child, parent, plans, settled>>

\* reorder_queue: the list the page had when it was loaded.
ReorderQueue(r) ==
    \E q \in queues : \E listed \in SUBSET Held(q) :
        /\ listed # {}
        /\ Opens(r, [pc |-> "assign", ask |-> NoAsk, left |-> {q}, alone |-> TRUE, queue |-> q])
        /\ \E place \in Bijection(listed, 0 .. (Cardinality(listed) - 1)) :
             entries' = [entries EXCEPT ![q] = [p \in Held(q) |->
                           IF p \in listed THEN place[p] ELSE @[p]]]
        /\ UNCHANGED <<now, slot, queues, child, parent>>

\* assign_queue_slots: entries and slots are listed, then each entry's child is
\* given its time, whatever its status.  The save of an entry that is gone fails.
ListEntries(r) ==
    LET w == plan[r] IN
    /\ w.pc = "assign"
    /\ \E order \in Orders(w.queue) :
         plan' = [plan EXCEPT ![r] =
           [pc |-> "write", ask |-> w.ask, left |-> w.left, alone |-> w.alone, queue |-> w.queue,
            order |-> order, index |-> 1, slots |-> _next_slot_datetimes(QueueOf[w.queue], now)]]
    /\ UNCHANGED <<now, slot, entries, queues, child, parent, plans, settled>>

WriteSlot(r) ==
    LET w == plan[r]
        p == w.order[w.index]
        c == QueueOf[w.queue]
    IN /\ w.pc = "write" /\ w.index \in DOMAIN w.order
       /\ IF w.queue \in queues
            THEN /\ child' = IF child[p][c] = NoChild THEN child
                             ELSE [child EXCEPT ![p][c].at = SlotOf(w.slots, w.index)]
                 /\ plan' = [plan EXCEPT ![r].index = @ + 1]
            ELSE plan' = [plan EXCEPT ![r] = NoPlan] /\ UNCHANGED child
       /\ UNCHANGED <<now, slot, entries, queues, parent, plans, settled>>

\* The parents follow, and the next queue, the floor or the end.
EndAssign(r) ==
    LET w == plan[r]
        left == w.left \ {w.queue}
    IN /\ w.pc = "write" /\ w.index \notin DOMAIN w.order
       /\ parent' = [p \in Posts |-> IF p \in Range(w.order) THEN SyncedParent(p, child) ELSE parent[p]]
       /\ plan' = [plan EXCEPT ![r] =
            IF w.ask = NoAsk THEN NoPlan
            ELSE IF left # {} THEN [pc |-> "add", ask |-> w.ask, left |-> left, alone |-> w.alone]
            ELSE [pc |-> "floor", ask |-> w.ask, alone |-> w.alone]]
       /\ settled' = IF w.alone /\ w.queue \in queues THEN settled \cup {w.queue} ELSE settled
       /\ UNCHANGED <<now, slot, entries, queues, child, plans>>

Later(a, b) == IF a > b THEN a ELSE b

\* _reassign_queue_slots_from_floor, when the composer was opened on a day: the
\* first slot from that day on, whoever has it.
Floored(w) ==
    [c \in QueueChannels |->
       LET row == child[w.post][c]
           slots == _next_slot_datetimes(c, Later(w.floor - 1, now))
       IN IF w.floor # NoTime /\ c \in {QueueOf[q] : q \in w.all} /\ row # NoChild /\ slots # {}
            THEN [row EXCEPT !.at = Earliest(slots)] ELSE row]

\* Then every child of the post that may be is scheduled, with a time or without.
FloorAndSchedule(r) ==
    LET w == plan[r].ask
        row == Floored(w)
        done == [child EXCEPT ![w.post] = [c \in QueueChannels |->
                   IF row[c].status = "draft" THEN [row[c] EXCEPT !.status = "scheduled"] ELSE row[c]]]
    IN /\ plan[r].pc = "floor"
       /\ child' = done
       /\ parent' = IF w.floor = NoTime THEN parent ELSE [parent EXCEPT ![w.post] = SyncedParent(w.post, done)]
       /\ settled' = IF w.floor = NoTime THEN settled ELSE {}
       /\ plan' = [plan EXCEPT ![r] = NoPlan]
       /\ UNCHANGED <<now, slot, entries, queues, plans>>

-----------------------------------------------------------------------------
(* calendar/views.py: the chip, the slots, the queues *)

\* reschedule_post: any time, and a draft becomes scheduled; a request in progress
\* has met another.
ReschedulePost ==
    \E p \in Posts, c \in QueueChannels, m \in Moments :
        /\ child[p][c].status \in {"draft", "scheduled"}
        /\ plans < MaxPlans /\ plans' = plans + 1
        /\ child' = [child EXCEPT ![p][c] = [status |-> "scheduled", at |-> m]]
        /\ parent' = [parent EXCEPT ![p] = SyncedParent(p, child')]
        /\ plan' = [r \in Planners |-> Met(plan[r])]
        /\ settled' = {}
        /\ UNCHANGED <<now, slot, entries, queues>>

\* Changes of the slots leave the entries as they are.
Slots(c, row) ==
    /\ plans < MaxPlans /\ plans' = plans + 1
    /\ row # slot[c]
    /\ slot' = [slot EXCEPT ![c] = row]
    /\ UNCHANGED <<now, entries, queues, child, parent, plan, settled>>

SavePostingSlot ==
    \E c \in QueueChannels, m \in Moments : slot[c][m] = "none" /\ Slots(c, [slot[c] EXCEPT ![m] = "on"])

DeletePostingSlot ==
    \E c \in QueueChannels, m \in Moments : Slots(c, [slot[c] EXCEPT ![m] = "none"])

\* The slots of a day: off when all are on, on otherwise.
TogglePostingSlotDay ==
    \E c \in QueueChannels, m \in Moments :
        LET day == {n \in Moments : n \div 2 = m \div 2 /\ slot[c][n] # "none"}
            turned == IF \A n \in day : slot[c][n] = "on" THEN "off" ELSE "on"
        IN Slots(c, [n \in Moments |-> IF n \in day THEN turned ELSE slot[c][n]])

UpdatePostingSlot ==
    \E c \in QueueChannels, m, n \in Moments :
        /\ slot[c][m] # "none" /\ slot[c][n] = "none" /\ m \div 2 = n \div 2
        /\ Slots(c, [slot[c] EXCEPT ![m] = "none", ![n] = slot[c][m]])

QueueCreate ==
    \E q \in Queues \ queues :
        /\ plans < MaxPlans /\ plans' = plans + 1
        /\ queues' = queues \cup {q}
        /\ UNCHANGED <<now, slot, entries, child, parent, plan, settled>>

\* The entries go with it; the children keep their times.
QueueDelete ==
    \E q \in queues :
        /\ plans < MaxPlans /\ plans' = plans + 1
        /\ queues' = queues \ {q}
        /\ entries' = [entries EXCEPT ![q] = [p \in {} |-> 0]]
        /\ settled' = settled \ {q}
        /\ UNCHANGED <<now, slot, child, parent, plan>>

\* create_default_queue_and_slots: a channel is connected and has no queue.
ConnectChannel ==
    \E q \in Queues :
        LET c == QueueOf[q] IN
        /\ ~\E k \in queues : QueueOf[k] = c
        /\ plans < MaxPlans /\ plans' = plans + 1
        /\ queues' = queues \cup {q}
        /\ slot' = [slot EXCEPT ![c] = [m \in Moments |->
                      IF m \in FirstSlots /\ @[m] = "none" THEN "on" ELSE @[m]]]
        /\ UNCHANGED <<now, entries, child, parent, plan, settled>>

-----------------------------------------------------------------------------
(* The engine, and time *)

EffectiveAt(p, c) == IF child[p][c].at # NoTime THEN child[p][c].at ELSE parent[p]

Send ==
    \E p \in Posts, c \in QueueChannels :
        /\ child[p][c].status = "scheduled"
        /\ EffectiveAt(p, c) # NoTime /\ EffectiveAt(p, c) <= now
        /\ child' = [child EXCEPT ![p][c].status = "sent"]
        /\ UNCHANGED <<now, slot, entries, queues, parent, plan, plans, settled>>

Tick ==
    /\ now < LastMoment
    /\ now' = now + 1
    /\ UNCHANGED <<slot, entries, queues, child, parent, plan, plans, settled>>

-----------------------------------------------------------------------------
(* What the publish page shows *)

Zones == {0, 2}                                \* behind UTC and ahead of it
LocalDate(m, z) == (m + z - 1) \div 2
Date(m) == m \div 2

Chips == {k \in Posts \X QueueChannels : child[k[1]][k[2]] # NoChild}
At(shown) == EffectiveAt(shown[1], shown[2])

\* Mutant: the query has the bounds of the page.
MutantFetched(first, last) == {k \in Chips : At(k) # NoTime /\ Date(At(k)) >= first /\ Date(At(k)) <= last}

\* The rows between two dates of the page, and a day more on either side: the
\* query knows the date in UTC only.
Fetched(first, last) == {k \in Chips : At(k) # NoTime /\ Date(At(k)) + 1 >= first /\ Date(At(k)) <= last + 1}

\* The cells of a month, a week or a day, in the timezone of the page.
Grid(first, last, z) == [d \in first..last |-> {k \in Fetched(first, last) : LocalDate(At(k), z) = d}]

_month_view_data(first, last, z) == Grid(first, last, z)
_week_view_data(first, z) == Grid(first, first + 1, z)
_day_view_data(d, z) == Grid(d, d, z)

\* Under the month: drafts of posts without a time.
UnscheduledDrafts == {p \in Posts : parent[p] = NoTime /\ \E c \in QueueChannels : child[p][c].status = "draft"}

\* The tabs of the list.
_get_tab_context ==
    [queue  |-> {k \in Chips : child[k[1]][k[2]].status = "scheduled"},
     drafts |-> {k \in Chips : child[k[1]][k[2]].status = "draft"},
     sent   |-> {k \in Chips : child[k[1]][k[2]].status = "sent"}]

-----------------------------------------------------------------------------
CalendarInit ==
    /\ now = 1
    /\ slot = [c \in QueueChannels |-> [m \in Moments |-> "none"]]
    /\ entries = [q \in Queues |-> [p \in {} |-> 0]]
    /\ queues = {}
    /\ child = [p \in Posts |-> [c \in QueueChannels |-> NoChild]]
    /\ parent = [p \in Posts |-> NoTime]
    /\ plan = [r \in Planners |-> NoPlan]
    /\ plans = 0
    /\ settled = {}

CalendarNext ==
    \/ \E r \in Planners :
         \/ AddToQueue(r) \/ AddToQueuePriority(r) \/ ReadPosition(r) \/ SaveEntry(r)
         \/ ReorderQueue(r) \/ ListEntries(r) \/ WriteSlot(r) \/ EndAssign(r) \/ FloorAndSchedule(r)
    \/ ReschedulePost \/ SavePostingSlot \/ DeletePostingSlot \/ TogglePostingSlotDay \/ UpdatePostingSlot
    \/ QueueCreate \/ QueueDelete \/ ConnectChannel
    \/ Send \/ Tick

CalendarSpec == CalendarInit /\ [][CalendarNext]_CalendarVars

-----------------------------------------------------------------------------
\* Queues hold posts, at positions, and times are of the horizon.
CalendarTypeOK ==
    /\ settled \subseteq queues
    /\ \A q \in Queues : Held(q) \subseteq Posts /\ Positions(q) \subseteq Nat
    /\ \A p \in Posts, c \in QueueChannels : child[p][c].at \in {NoTime} \cup Moments

\* When the last recalculation of a queue met no other request, the posts of
\* the queue go out in the order of the queue, each in a slot of its own, and
\* those without a slot stand at the end; until a chip is dragged, a post is put
\* on a day of its own, or another request begins.
QueueOrderIsTimeOrder ==
    \A q \in settled : \A p, k \in Held(q) :
        LET c == QueueOf[q]
            at(x) == child[x][c].at
        IN child[p][c] # NoChild /\ child[k][c] # NoChild /\ p # k =>
             /\ at(p) = at(k) => at(p) = NoTime
             /\ entries[q][p] < entries[q][k] => at(k) = NoTime \/ (at(p) # NoTime /\ at(p) < at(k))

\* A chip with a time is in the cell of its day, in whatever timezone the page
\* is shown, and in no other; a draft without a time is under the month.
NothingFallsOffTheGrid ==
    /\ \A k \in Chips, z \in Zones :
         At(k) # NoTime =>
            LET d == LocalDate(At(k), z)
            IN k \in _day_view_data(d, z)[d] \cap _week_view_data(d, z)[d] \cap _month_view_data(0, d, z)[d]
    /\ \A k \in _get_tab_context.drafts : At(k) = NoTime => k[1] \in UnscheduledDrafts

\* The queue, the grid and the list of drafts agree with the times of the posts.
CalendarIsTrue == CalendarTypeOK /\ QueueOrderIsTimeOrder /\ NothingFallsOffTheGrid
=============================================================================
