----------------------------- MODULE Recurrences -----------------------------
(***************************************************************************)
(* The generation of recurring posts (calendar/tasks.py) from one rule and *)
(* its source post.  What a run generated before is recognised by caption  *)
(* and date alone; users edit, move and delete posts meanwhile, runs can   *)
(* overlap or be cut, and there is no transaction.                         *)
(***************************************************************************)
EXTENDS Naturals, Sequences, FiniteSets

CONSTANTS
    LastDate,         \* bound: days
    Lookahead,        \* LOOKAHEAD_DAYS
    MaxRecurrences,   \* the limit of _compute_recurrence_dates
    Intervals,        \* days between recurrences that can be asked for
    Runs,             \* processes that run the task
    MaxClones,        \* bound: posts that are generated
    MaxRetouches      \* bound: edits of users, and runs that are cut

ASSUME RecurrencesAssumption ==
    /\ {LastDate, Lookahead, MaxRecurrences, MaxClones, MaxRetouches} \subseteq Nat
    /\ Intervals \subseteq Nat

RuleDates == 0..LastDate
Resting == [pc |-> "resting"]

VARIABLES
    today,
    source,        \* the source post: scheduled_at, caption
    rule,          \* RecurrenceRule: interval, end_date, is_active
    clones,        \* posts that were generated: date, caption, deleted
    run,
    retouches,
    generated,     \* history: how often a clone was generated for each date
    excused        \* history: dates whose clone is not recognised any more, or
                   \* that two runs had before them at the same time

RuleVars == <<today, source, rule, clones, run, retouches, generated, excused>>

Retouch == retouches < MaxRetouches /\ retouches' = retouches + 1

DayPasses ==
    /\ today < LastDate
    /\ today' = today + 1
    /\ UNCHANGED <<source, rule, clones, run, retouches, generated, excused>>

-----------------------------------------------------------------------------
(* Users *)

\* save_post with make_recurring; a rule is updated in place.
MakeRecurring ==
    \E n \in Intervals, end \in {1, LastDate + Lookahead} :
        /\ Retouch
        /\ rule' = [interval |-> n, end |-> end, active |-> TRUE]
        /\ UNCHANGED <<today, source, clones, run, generated, excused>>

\* The source is given another caption, or another day.
EditSource ==
    \E d \in RuleDates, c \in {"first", "second"} :
        /\ Retouch /\ <<d, c>> # <<source.date, source.caption>>
        /\ source' = [date |-> d, caption |-> c]
        /\ excused' = IF c = source.caption THEN excused ELSE DOMAIN generated
        /\ UNCHANGED <<today, rule, clones, run, generated>>

\* A clone is given another caption or another day, or is deleted.
EditClone(i) ==
    /\ Retouch /\ ~clones[i].deleted
    /\ \E d \in RuleDates, c \in {"first", "second"}, gone \in BOOLEAN :
        clones' = [clones EXCEPT ![i] = [date |-> d, caption |-> c, deleted |-> gone]]
    /\ clones' # clones
    /\ excused' = excused \cup {clones[i].date}
    /\ UNCHANGED <<today, source, rule, run, generated>>

-----------------------------------------------------------------------------
(* generate_recurring_posts *)

\* _compute_recurrence_dates: which recurrences there are, up to the rule's end
\* and the lookahead; an interval of 0 repeats the source's own date.
DateOf(base, n, k) == base + k * n
DatesFrom(base, n, end) ==
    {k \in 1..MaxRecurrences : DateOf(base, n, k) <= end /\ DateOf(base, n, k) <= today + Lookahead}

\* Mutant: what was generated is recognised by the day of the source alone.
MutantRecognised(caption, days) == days \cap {source.date}

\* existing_dates.
Recognised(caption, days) ==
    {d \in days : \E i \in DOMAIN clones :
        clones[i] = [date |-> d, caption |-> caption, deleted |-> FALSE]}

\* The dates a run has still to generate.
DateIn(r, k) == DateOf(run[r].base, run[r].every, k)
Before(r) == IF run[r] = Resting THEN {} ELSE {DateIn(r, k) : k \in run[r].todo}

\* A run reads the rule, the source and what there is, and lists the dates.
RunBegins(r) ==
    LET date(k) == DateOf(source.date, rule.interval, k)
        all == DatesFrom(source.date, rule.interval, rule.end)
        days == {date(k) : k \in all}
        known == Recognised(source.caption, days)
        todo == {k \in all : date(k) \notin known /\ date(k) > today}
    IN /\ run[r] = Resting /\ rule.active
       /\ run' = [run EXCEPT ![r] = [pc |-> "clone", todo |-> todo, base |-> source.date,
                                     every |-> rule.interval, caption |-> source.caption]]
       /\ excused' = (excused \cup (days \cap UNION {Before(o) : o \in Runs \ {r}})
                             \cup (IF rule.interval = 0 THEN days ELSE {}))
       /\ UNCHANGED <<today, source, rule, clones, retouches, generated>>

\* One clone, of the first date; its platform posts and media follow.
ClonePost(r) ==
    /\ run[r].pc = "clone" /\ Len(clones) < MaxClones
    /\ \E k \in run[r].todo :
        LET d == DateIn(r, k) IN
        /\ \A j \in run[r].todo : k <= j
        /\ clones' = Append(clones, [date |-> d, caption |-> run[r].caption, deleted |-> FALSE])
        /\ generated' = [generated EXCEPT ![d] = IF @ < 2 THEN @ + 1 ELSE @]
        /\ run' = [run EXCEPT ![r].todo = @ \ {k}]
    /\ UNCHANGED <<today, source, rule, retouches, excused>>

RunEnds(r) ==
    /\ run[r].pc = "clone" /\ run[r].todo = {}
    /\ run' = [run EXCEPT ![r] = Resting]
    /\ UNCHANGED <<today, source, rule, clones, retouches, generated, excused>>

RunCut(r) ==
    /\ run[r] # Resting /\ Retouch
    /\ run' = [run EXCEPT ![r] = Resting]
    /\ UNCHANGED <<today, source, rule, clones, generated, excused>>

-----------------------------------------------------------------------------
RecurrencesInit ==
    /\ today = 0
    /\ source \in [date : {0, 1}, caption : {"first"}]
    /\ rule = [interval |-> 0, end |-> 0, active |-> FALSE]
    /\ clones = <<>>
    /\ run = [r \in Runs |-> Resting]
    /\ retouches = 0
    /\ generated = [d \in 0..(LastDate + Lookahead) |-> 0]
    /\ excused = {}

RecurrencesNext ==
    \/ DayPasses \/ MakeRecurring \/ EditSource
    \/ \E i \in DOMAIN clones : EditClone(i)
    \/ \E r \in Runs : RunBegins(r) \/ ClonePost(r) \/ RunEnds(r) \/ RunCut(r)

RecurrencesSpec == RecurrencesInit /\ [][RecurrencesNext]_RuleVars

-----------------------------------------------------------------------------
\* The task generates one post for each date, whenever it runs, is cut and runs
\* again, and however the rule and the source's day change; unless the caption
\* changed, or the clone was edited, or two runs had the date before them, or the
\* interval is 0.
OneClonePerDate == \A d \in DOMAIN generated : generated[d] <= 1 \/ d \in excused
=============================================================================
