------------------------- MODULE ApprovalReminders -------------------------
(***************************************************************************)
(* The hourly reminders of one stage of one post (approvals/tasks.py,      *)
(* _process_stage): an ApprovalReminder row counts the reminders since the *)
(* submission; after MAX_REMINDERS the managers are told, once.  The       *)
(* worker saves the row it loaded, after the messages are sent: it may die *)
(* in between, and a resubmission may have reset the row meanwhile.        *)
(***************************************************************************)
EXTENDS Naturals

CONSTANTS
    Runners,          \* workers that may run the hourly task at the same time
    MAX_REMINDERS,
    MaxRounds,        \* bound: submissions after the first, and chip moves back into the stage
    MaxDeaths         \* bound: workers that die

ASSUME RemindersAssumption ==
    /\ MAX_REMINDERS \in Nat
    /\ MaxRounds \in Nat
    /\ MaxDeaths \in Nat

VARIABLES
    waits,      \* a child of the post is in the stage
    idle,       \* Post.updated_at is older than the threshold
    cooled,     \* last_reminder_at is
    reminder,        \* the ApprovalReminder row: none, or count, when the last one was, escalated
    run,        \* the runs of the task: the row each has loaded, and what it does with it
    rounds,
    deaths,
    sent,       \* history: reminders sent since the row was last reset, at most MAX_REMINDERS + 2
    stalls,     \* history: whether the managers were told since then, and told again
    blurred     \* history: since then a worker died, or two runs, or a run and the reset, met

ReminderVars == <<waits, idle, cooled, reminder, run, rounds, deaths, sent, stalls, blurred>>

NoRow == [count |-> 0, last |-> FALSE, escalated |-> FALSE, exists |-> FALSE]
FreshRow == [NoRow EXCEPT !.exists = TRUE]
NotRunning == [at |-> "off"]
Tally == 0..MAX_REMINDERS + 2
Once(n) == IF n < MAX_REMINDERS + 2 THEN n + 1 ELSE n

\* submit_for_review, resubmit_post, approve_post: the child enters the stage
\* and the row is reset, in one transaction.  The post itself is not touched.
Submit ==
    /\ ~waits
    /\ rounds < MaxRounds
    /\ waits' = TRUE
    /\ rounds' = rounds + 1
    /\ reminder' = FreshRow
    /\ sent' = 0 /\ stalls' = 0
    /\ blurred' = \E w \in Runners : run[w] # NotRunning
    /\ UNCHANGED <<idle, cooled, run, deaths>>

\* The chip menu puts a child back into the stage: the row stays as it is.
ChipBack ==
    /\ ~waits
    /\ rounds < MaxRounds
    /\ waits' = TRUE
    /\ rounds' = rounds + 1
    /\ UNCHANGED <<idle, cooled, reminder, run, deaths, sent, stalls, blurred>>

\* A decision takes the child out of the stage.
Decided ==
    /\ waits
    /\ waits' = FALSE
    /\ UNCHANGED <<idle, cooled, reminder, run, rounds, deaths, sent, stalls, blurred>>

\* Time passes; an edit of the post starts its clock again.
Age ==
    /\ ~idle \/ ~cooled
    /\ idle' = TRUE /\ cooled' = TRUE
    /\ UNCHANGED <<waits, reminder, run, rounds, deaths, sent, stalls, blurred>>

Edit ==
    /\ idle
    /\ rounds < MaxRounds
    /\ rounds' = rounds + 1
    /\ idle' = FALSE
    /\ UNCHANGED <<waits, cooled, reminder, run, deaths, sent, stalls, blurred>>

-----------------------------------------------------------------------------
(* _process_stage *)

Others(w) == \E v \in Runners \ {w} : run[v] # NotRunning

\* The post is among the stalled ones the run has listed.
List(w) ==
    /\ run[w] = NotRunning
    /\ waits /\ idle
    /\ run' = [run EXCEPT ![w] = [at |-> "listed"]]
    /\ blurred' = (blurred \/ Others(w))
    /\ UNCHANGED <<waits, idle, cooled, reminder, rounds, deaths, sent, stalls>>

\* Mutant: an old row is never escalated.
MutantQuietTask(r) ==
    IF r.count >= MAX_REMINDERS \/ (r.last /\ ~cooled) THEN "nothing" ELSE "remind"

\* What the row asks for now.
Task(r) ==
    CASE r.count >= MAX_REMINDERS /\ ~r.escalated -> "escalate"
      [] r.count >= MAX_REMINDERS /\ r.escalated  -> "nothing"
      [] OTHER -> IF r.last /\ ~cooled THEN "nothing" ELSE "remind"

\* get_or_create, then the row decides.
LoadRow(w) ==
    /\ run[w].at = "listed"
    /\ reminder' = [reminder EXCEPT !.exists = TRUE]
    /\ run' = [run EXCEPT ![w] =
         IF Task(reminder) = "nothing" THEN NotRunning ELSE [at |-> Task(reminder), copy |-> reminder']]
    /\ UNCHANGED <<waits, idle, cooled, rounds, deaths, sent, stalls, blurred>>

\* _remind_reviewers, _remind_clients
Remind(w) ==
    /\ run[w].at = "remind"
    /\ sent' = Once(sent)
    /\ run' = [run EXCEPT ![w].at = "reminded"]
    /\ UNCHANGED <<waits, idle, cooled, reminder, rounds, deaths, stalls, blurred>>

\* _escalate
Escalate(w) ==
    /\ run[w].at = "escalate"
    /\ stalls' = IF stalls < 2 THEN stalls + 1 ELSE stalls
    /\ run' = [run EXCEPT ![w].at = "escalated"]
    /\ UNCHANGED <<waits, idle, cooled, reminder, rounds, deaths, sent, blurred>>

\* The counter of the row the run has loaded, plus one, and the time it began.
SaveCount(w) ==
    /\ run[w].at = "reminded"
    /\ reminder' = [reminder EXCEPT !.count = run[w].copy.count + 1, !.last = TRUE]
    /\ cooled' = FALSE
    /\ run' = [run EXCEPT ![w] = NotRunning]
    /\ UNCHANGED <<waits, idle, rounds, deaths, sent, stalls, blurred>>

SaveEscalated(w) ==
    /\ run[w].at = "escalated"
    /\ reminder' = [reminder EXCEPT !.escalated = TRUE]
    /\ run' = [run EXCEPT ![w] = NotRunning]
    /\ UNCHANGED <<waits, idle, cooled, rounds, deaths, sent, stalls, blurred>>

\* The process dies: what it has sent is sent.
Die(w) ==
    /\ run[w] # NotRunning
    /\ deaths < MaxDeaths
    /\ deaths' = deaths + 1
    /\ blurred' = TRUE
    /\ run' = [run EXCEPT ![w] = NotRunning]
    /\ UNCHANGED <<waits, idle, cooled, reminder, rounds, sent, stalls>>

-----------------------------------------------------------------------------

RemindersInit ==
    /\ waits = FALSE /\ idle = FALSE /\ cooled = FALSE
    /\ reminder = NoRow
    /\ run = [w \in Runners |-> NotRunning]
    /\ rounds = 0 /\ deaths = 0
    /\ sent = 0 /\ stalls = 0 /\ blurred = FALSE

Runs(w) == List(w) \/ LoadRow(w) \/ Remind(w) \/ Escalate(w) \/ SaveCount(w) \/ SaveEscalated(w)

RemindersNext ==
    \/ Submit \/ ChipBack \/ Decided \/ Age \/ Edit
    \/ \E w \in Runners : Runs(w) \/ Die(w)

\* The task is scheduled every hour and a dead worker is replaced; time passes.
RemindersFairness ==
    /\ WF_ReminderVars(Age)
    /\ \A w \in Runners : WF_ReminderVars(Runs(w))

RemindersSpec == RemindersInit /\ [][RemindersNext]_ReminderVars /\ RemindersFairness

-----------------------------------------------------------------------------

\* Counters and places are what they can be.
RemindersTypeOK ==
    /\ reminder.count \in Tally
    /\ sent \in Tally /\ stalls \in 0..2
    /\ \A w \in Runners : run[w].at \in {"off", "listed", "remind", "reminded", "escalate", "escalated"}

\* A submission is followed by at most MAX_REMINDERS reminders and one word to
\* the managers, and they hear of it only after all the reminders: unless a
\* worker died, or two runs or a run and the submission met.
RemindersBounded ==
    ~blurred => /\ sent <= MAX_REMINDERS
                /\ stalls <= 1
                /\ stalls = 1 => sent = MAX_REMINDERS

\* Whatever the edits, deaths and overlapping runs: a post that is left in the
\* stage is brought before the managers in the end.
StalledIsEscalated ==
    <>[]waits => <>[](reminder.escalated)

\* The reminders are few, and end with the managers.
RemindersEscalate == [](RemindersTypeOK /\ RemindersBounded) /\ StalledIsEscalated
=============================================================================
