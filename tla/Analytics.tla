------------------------------ MODULE Analytics ------------------------------
(***************************************************************************)
(* The figures of one account and its posts (analytics/tasks.py): an       *)
(* hourly run fetches the account's days and every post that is due by its *)
(* age; connecting the account fetches all of them at once.  On YouTube    *)
(* some figures of the posts come with the account's, and must not count   *)
(* as the post's own.  A row's captured_at says when it was written last;  *)
(* what answers nothing leaves no row.                                     *)
(***************************************************************************)
EXTENDS Integers, Sequences

CONSTANTS
    Articles,     \* the account's posts
    DayHours,     \* hours of a day
    LastHour,     \* bound
    Ladder,       \* _POST_SYNC_CADENCE: posts younger than `below` are synced `every` so often
    ShortWindow,  \* BACKFILL_DAYS_PER_PLATFORM of TikTok; the others end with the ladder
    RecentDays,   \* _ACCOUNT_METRICS_RECENT_DAYS
    MaxTurns      \* bound: connections that are lost or made

ASSUME AnalyticsAssumption ==
    /\ {DayHours, LastHour, ShortWindow, RecentDays, MaxTurns} \subseteq Nat /\ DayHours > 0
    /\ Ladder \in Seq([below : Nat, every : Nat \ {0}]) /\ Ladder # <<>>
    /\ ShortWindow <= Ladder[Len(Ladder)].below

Never == -1
Unscheduled == [pc |-> "unscheduled"]

VARIABLES
    platform,    \* youtube, tiktok, or one that has days and no figures of its own for posts
    hour,
    out,         \* published_at of each post
    own,         \* captured_at of the newest row of each post's own figures
    lifetime,    \* ... and of those that come with the account's
    dated,        \* dates the account has rows for
    linked,      \* the account is connected
    scope,       \* analytics_needs_reconnect is not set
    job,         \* the hourly run, and the one for a new connection
    turns,
    ended        \* history: what the hourly run of this hour has missed, once it is over

AnalyticsVars == <<platform, hour, out, own, lifetime, dated, linked, scope, job, turns, ended>>

Outside == <<platform, hour, out, linked, turns>>
ThisDay == hour \div DayHours
NotOver == [over |-> FALSE]

Horizon == Ladder[Len(Ladder)].below
Window == IF platform = "tiktok" THEN ShortWindow ELSE Horizon

\* post_sync_interval: the first rung the age is below; beyond the last there is none.
Interval(age) ==
    LET rung == CHOOSE i \in DOMAIN Ladder :
                    age < Ladder[i].below /\ \A k \in 1..(i - 1) : age >= Ladder[k].below
    IN Ladder[rung].every

Age(p) == hour - out[p]
IsOut(p) == out[p] # Never

AnalyticsInit ==
    /\ platform \in {"youtube", "tiktok", "instagram"}
    /\ hour = 0
    /\ out = [p \in Articles |-> Never]
    /\ own = [p \in Articles |-> Never]
    /\ lifetime = [p \in Articles |-> Never]
    /\ dated = {}
    /\ linked = TRUE
    /\ scope = TRUE
    /\ job = [sync |-> Unscheduled, backfill |-> [pc |-> "begin"]]
    /\ turns = 0
    /\ ended = NotOver

-----------------------------------------------------------------------------
(* Outside *)

\* The hourly run is over when the next hour comes: it was done, or found no account.
HourPasses ==
    /\ hour < LastHour
    /\ job.sync = Unscheduled /\ job.backfill.pc \in {"unscheduled", "begin"}
    /\ hour' = hour + 1
    /\ job' = [job EXCEPT !.sync = [pc |-> "begin"]]
    /\ ended' = NotOver
    /\ UNCHANGED <<platform, out, own, lifetime, dated, linked, scope, turns>>

PostGoesOut(p) ==
    /\ ~IsOut(p)
    /\ out' = [out EXCEPT ![p] = hour]
    /\ UNCHANGED <<platform, hour, own, lifetime, dated, linked, scope, job, turns, ended>>

\* The account's connection is lost, or made again: signals.py asks for a backfill.
Turn ==
    /\ turns < MaxTurns /\ turns' = turns + 1
    /\ linked' = ~linked
    /\ job' = IF linked' /\ job.backfill = Unscheduled
              THEN [job EXCEPT !.backfill = [pc |-> "begin"]] ELSE job
    /\ scope' = (scope \/ linked')
    /\ UNCHANGED <<platform, hour, out, own, lifetime, dated, ended>>

-----------------------------------------------------------------------------
(* _sync_account_metrics *)

\* The hourly run asks for a connected account, and only looks at its days while there
\* is no row for today; a backfill looks at them always, and at every post.
JobBegins(j) ==
    /\ job[j].pc = "begin"
    /\ job' = [job EXCEPT ![j] =
          IF j = "sync" /\ ~linked THEN Unscheduled
          ELSE IF j = "sync" /\ ThisDay \in dated THEN [pc |-> "list", missed |-> {}]
          ELSE [pc |-> "day", back |-> 0, missed |-> {}]]
    /\ UNCHANGED Outside /\ UNCHANGED <<own, lifetime, dated, scope, ended>>

\* Platforms that tell totals only are asked for today alone.
DaysToAsk == IF platform = "tiktok" THEN 1 ELSE RecentDays

\* One day: rows there are short-circuit it; no answer, or one without the method or the
\* scope, ends the walk, and the figures of the posts with it.
AskDay(j) ==
    LET day == ThisDay - job[j].back
        goesTo(pc) == job' = [job EXCEPT ![j].pc = pc]
    IN /\ job[j].pc = "day"
       /\ IF job[j].back = DaysToAsk
          THEN goesTo(IF platform = "youtube" THEN "videos" ELSE "list") /\ UNCHANGED <<dated, scope>>
          ELSE \/ /\ job' = [job EXCEPT ![j].back = @ + 1]      \* rows, or a day without figures
                  /\ dated' \in IF day \in dated THEN {dated} ELSE {dated, dated \cup {day}}
                  /\ UNCHANGED scope
               \/ /\ day \notin dated /\ goesTo("list")           \* the call failed
                  /\ scope' \in {scope, FALSE}
                  /\ UNCHANGED dated
       /\ UNCHANGED Outside /\ UNCHANGED <<own, lifetime, ended>>

\* _sync_youtube_post_analytics: one call answers for some of the posts, or fails.
AskVideos(j) ==
    /\ job[j].pc = "videos"
    /\ \/ /\ \E told \in SUBSET {p \in Articles : IsOut(p)} :
                lifetime' = [p \in Articles |-> IF p \in told THEN hour ELSE lifetime[p]]
          /\ UNCHANGED scope
       \/ scope' = FALSE /\ UNCHANGED lifetime
    /\ job' = [job EXCEPT ![j].pc = "list"]
    /\ UNCHANGED Outside /\ UNCHANGED <<own, dated, ended>>

-----------------------------------------------------------------------------
(* The posts *)

\* Mutant: every row of the post counts.
MutantLastSync(p) == IF own[p] > lifetime[p] THEN own[p] ELSE lifetime[p]

\* What _post_cadence_due counts: _POST_NON_CADENCE_METRICS_BY_PLATFORM are left out.
LastSync(p) == own[p]

\* _post_cadence_due.
IsPostDue(p) == Age(p) < Horizon /\ (LastSync(p) = Never \/ hour - LastSync(p) >= Interval(Age(p)))

ListPosts(j) ==
    /\ job[j].pc = "list"
    /\ job' = [job EXCEPT ![j] = [pc |-> "post", missed |-> {},
                                  todo |-> {p \in Articles : IsOut(p) /\ Age(p) <= Window}]]
    /\ UNCHANGED Outside /\ UNCHANGED <<own, lifetime, dated, scope, ended>>

\* _sync_post_metrics, of a post that is due, or in a backfill: rows, no figures (or only
\* zeros) and no rows, or a failure.
SyncPost(j) ==
    /\ job[j].pc = "post"
    /\ \E p \in job[j].todo :
        \/ /\ j = "sync" /\ ~IsPostDue(p)
           /\ job' = [job EXCEPT ![j].todo = @ \ {p}]
           /\ UNCHANGED <<own, scope>>
        \/ /\ j = "backfill" \/ IsPostDue(p)
           /\ own' = [own EXCEPT ![p] = hour]
           /\ job' = [job EXCEPT ![j].todo = @ \ {p}]
           /\ UNCHANGED scope
        \/ /\ j = "backfill" \/ IsPostDue(p)
           /\ job' = [job EXCEPT ![j].todo = @ \ {p}, ![j].missed = @ \cup {p}]
           /\ scope' \in {scope, FALSE}
           /\ UNCHANGED own
    /\ UNCHANGED Outside /\ UNCHANGED <<lifetime, dated, ended>>

JobEnds(j) ==
    /\ job[j].pc = "post" /\ job[j].todo = {}
    /\ job' = [job EXCEPT ![j] = Unscheduled]
    /\ ended' = IF j = "sync" THEN [over |-> TRUE, missed |-> job[j].missed] ELSE ended
    /\ UNCHANGED Outside /\ UNCHANGED <<own, lifetime, dated, scope>>

-----------------------------------------------------------------------------
AnalyticsNext ==
    \/ HourPasses \/ Turn
    \/ \E p \in Articles : PostGoesOut(p)
    \/ \E j \in DOMAIN job : JobBegins(j) \/ AskDay(j) \/ AskVideos(j) \/ ListPosts(j) \/ SyncPost(j) \/ JobEnds(j)

AnalyticsSpec == AnalyticsInit /\ [][AnalyticsNext]_AnalyticsVars

\* After the hourly run every post that was out before it, and is young enough, has
\* figures of its own younger than its interval, unless it was asked and gave none: what
\* the account's part of the run, or a backfill, writes never keeps a post from its turn.
PostsStayFresh ==
    ended.over =>
        \A p \in Articles \ ended.missed :
            IsOut(p) /\ out[p] < hour /\ Age(p) < Window =>
                own[p] # Never /\ hour - own[p] < Interval(Age(p))
=============================================================================
