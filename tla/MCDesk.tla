------------------------------- MODULE MCDesk -------------------------------
(***************************************************************************)
(* What people and the calendar do to posts before they are published, as  *)
(* one instance for TLC: its behaviours are those of each component, and   *)
(* share no state, so that a state of one is never combined with another's.*)
(***************************************************************************)
EXTENDS PostLifecycle, Approvals, Calendar, Recurrences, Composer,
        CsvImport, Feeds, Ideas, MediaLibrary, MediaFolders, Analytics,
        TLC

VARIABLE part   \* the component this behaviour is of

\* One channel for both queues, and a ladder of two rungs.
OneChannel == [q \in Queues |-> CHOOSE c \in QueueChannels : TRUE]
Rungs == <<[below |-> 2, every |-> 1], [below |-> 5, every |-> 2]>>

\* The components may use the same values for their people and for their things, since
\* a behaviour is of one of them.
Interchangeable == Permutations(Hands) \cup Permutations(Posts)

OnlyOf(p) ==
    /\ p # "lifecycle" => UNCHANGED status
    /\ p # "approvals" => UNCHANGED ApprovalVars
    /\ p # "calendar" => UNCHANGED CalendarVars
    /\ p # "recurrences" => UNCHANGED RuleVars
    /\ p # "composer" => UNCHANGED ComposerVars
    /\ p # "csv" => UNCHANGED CsvVars
    /\ p # "feeds" => UNCHANGED FeedsVars
    /\ p # "ideas" => UNCHANGED IdeaVars
    /\ p # "media" => UNCHANGED MediaVars
    /\ p # "folders" => UNCHANGED FolderVars
    /\ p # "analytics" => UNCHANGED AnalyticsVars
    /\ UNCHANGED part

DeskInit ==
    /\ part \in {"lifecycle", "approvals", "calendar", "recurrences", "composer", "csv",
                "feeds", "ideas", "media", "folders", "analytics"}
    /\ Init
    /\ part = "lifecycle" \/ status = [c \in Children |-> "none"]
    /\ part = "approvals" \/ workflow = "none"
    /\ ApprovalsInit
    /\ CalendarInit
    /\ RecurrencesInit
    /\ part = "recurrences" \/ source.date = 0
    /\ ComposerInit
    /\ CsvInit
    /\ FeedsInit
    /\ IdeasInit
    /\ MediaInit
    /\ FoldersInit
    /\ part = "analytics" \/ platform = "tiktok"
    /\ AnalyticsInit

DeskNext ==
    \/ part = "lifecycle" /\ Next /\ OnlyOf("lifecycle")
    \/ part = "approvals" /\ ApprovalsNext /\ OnlyOf("approvals")
    \/ part = "calendar" /\ CalendarNext /\ OnlyOf("calendar")
    \/ part = "recurrences" /\ RecurrencesNext /\ OnlyOf("recurrences")
    \/ part = "composer" /\ ComposerNext /\ OnlyOf("composer")
    \/ part = "csv" /\ CsvNext /\ OnlyOf("csv")
    \/ part = "feeds" /\ FeedsNext /\ OnlyOf("feeds")
    \/ part = "ideas" /\ IdeasNext /\ OnlyOf("ideas")
    \/ part = "media" /\ MediaNext /\ OnlyOf("media")
    \/ part = "folders" /\ FoldersNext /\ OnlyOf("folders")
    \/ part = "analytics" /\ AnalyticsNext /\ OnlyOf("analytics")

DeskVars == <<status, ApprovalVars, CalendarVars, RuleVars, ComposerVars,
              CsvVars, FeedsVars, IdeaVars, MediaVars, FolderVars,
              AnalyticsVars, part>>

DeskSpec == DeskInit /\ [][DeskNext]_DeskVars
=============================================================================
