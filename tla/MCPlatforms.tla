---------------------------- MODULE MCPlatforms ----------------------------
(***************************************************************************)
(* What goes on by itself, with its fairness, as one instance for TLC: the *)
(* publishing engine, the platforms' clients, the accounts' tokens, the    *)
(* reminders, the notifications and the keyed requests of the Agent API.   *)
(* Its behaviours are those of each component, and share no state.         *)
(***************************************************************************)
EXTENDS Publisher, Providers, AccountTokens, ApprovalReminders,
        Notifications, AgentApi, TLC

VARIABLE part   \* the component this behaviour is of

CONSTANTS p1, p2, a, b, draft, schedule, folder_upload

\* Two rows, each of a post of its own.
TwoPosts == [p \in {p1, p2} |-> IF p = p1 THEN a ELSE b]
OneTickBackoff == <<1>>

\* Every type of post that a client tells apart, with up to two attachments.
PostTypes == {"text", "image", "video", "article", "poll", "carousel", "short", "story", NoHint}
SomeContents ==
    [hint : PostTypes,
     files : {<<>>} \cup {<<f>> : f \in {"image", "video"}} \cup {"image", "video"} \X {"image", "video"},
     isVideo : BOOLEAN]

\* A platform of every kind, whose first token is renewed once.
SomeTokens ==
    [platform \in {"bluesky", "linkedin_company", "youtube", "instagram_login", "threads", "mastodon"} |-> 2]

InAppThenMail == <<"in_app", "email">>

\* What each body asks for.
KindOfBody == (draft :> "draft") @@ (schedule :> "schedule") @@ (folder_upload :> "upload_to_folder")

OnlyOf(p) ==
    /\ p # "engine" => UNCHANGED vars
    /\ p # "clients" => UNCHANGED ProvidersVars
    /\ p # "tokens" => UNCHANGED TokenVars
    /\ p # "reminders" => UNCHANGED ReminderVars
    /\ p # "notifications" => UNCHANGED NoticeVars
    /\ p # "api" => UNCHANGED ApiVars
    /\ UNCHANGED part

PlatformsInit ==
    /\ part \in {"engine", "clients", "tokens", "reminders", "notifications", "api"}
    /\ Init
    /\ part = "engine" \/ ((\A p \in PP : row[p].sched = 0) /\ (\A q \in Posts : postSched[q] = 0))
    /\ part = "clients" \/ job = CHOOSE j \in [platform : Platforms, content : Contents, comment : BOOLEAN] : TRUE
    /\ ProvidersInit
    /\ part = "tokens" \/ brand = "mastodon"
    /\ TokensInit
    /\ RemindersInit
    /\ NotificationsInit
    /\ ApiInit

PlatformsNext ==
    \/ part = "engine" /\ Next /\ OnlyOf("engine")
    \/ part = "clients" /\ ProvidersNext /\ OnlyOf("clients")
    \/ part = "tokens" /\ TokensNext /\ OnlyOf("tokens")
    \/ part = "reminders" /\ RemindersNext /\ OnlyOf("reminders")
    \/ part = "notifications" /\ NotificationsNext /\ OnlyOf("notifications")
    \/ part = "api" /\ ApiNext /\ OnlyOf("api")

PlatformsVars == <<vars, ProvidersVars, TokenVars, ReminderVars, NoticeVars,
              ApiVars, part>>

\* The fairness of each component, in its behaviours.
EngineIsFair ==
    /\ WF_vars(part = "engine" /\ Tick)
    /\ \A e \in Engines :
        /\ WF_vars(part = "engine" /\ CycleStep(e))
        /\ \A p \in PP : WF_vars(part = "engine" /\ ThreadStep(e, p))
        /\ \A q \in Posts : WF_vars(part = "engine" /\ GroupStep(e, q))
TokensAreFair ==
    /\ WF_TokenVars(part = "tokens" /\ ScheduleAllHealthChecks)
    /\ WF_TokenVars(part = "tokens" /\ \E p \in Checkers : StartHealthCheck(p))
    /\ \A p \in Checkers : WF_TokenVars(part = "tokens" /\ HealthStep(p))
RemindersAreFair ==
    /\ WF_ReminderVars(part = "reminders" /\ Age)
    /\ \A w \in Runners : WF_ReminderVars(part = "reminders" /\ Runs(w))
NoticesAreFair ==
    /\ \A t \in NoticeThreads : WF_NoticeVars(part = "notifications" /\ NoticeStep(t))
    /\ WF_NoticeVars(part = "notifications" /\ \E t \in NoticeThreads : RetryRun(t))
    /\ \A d \in Deliveries : WF_NoticeVars(part = "notifications" /\ BackoffEnds(d))
ApiIsFair ==
    /\ \A w \in Workers : WF_ApiVars(part = "api" /\ Serve(w))
    /\ WF_ApiVars(part = "api" /\ ApiTick)
    /\ WF_ApiVars(part = "api" /\ Sweep)

PlatformsSpec ==
    /\ PlatformsInit /\ [][PlatformsNext]_PlatformsVars
    /\ WF_ProvidersVars(part = "clients" /\ ClientStep)
    /\ EngineIsFair /\ TokensAreFair /\ RemindersAreFair /\ NoticesAreFair /\ ApiIsFair
=============================================================================
