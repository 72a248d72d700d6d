# A verification project for BrightBean Studio

BrightBean Studio is a Django application with which teams write, review,
schedule and publish posts to a dozen social networks. This directory holds TLA+
modules translated from its source (`src/apps`, `src/providers`), TLC
configurations that model-check them on small instances, and theorems about them
whose proofs TLAPS checks. `PROJECT.json` lists the components, the runs, the
mutants (one plausible bug per checked property, which TLC must detect), the map
from definitions to source lines, the findings, the hazards and the theorems.

To check a run: `tlc -config desk.cfg MCDesk.tla`. To check the proofs:
`tlapm PublisherProofs.tla`.

## 1. The system

### Processes and shared state

* **web**: gunicorn, two workers of two threads (Procfile). Browser views, the
  client portal, the agent REST API (`apps/api`), the MCP endpoint (`apps/mcp`)
  and OAuth.
* **worker**: `manage.py process_tasks` (django-background-tasks): the publishing
  poll every 15 s, the account health checks every 6 h, the approval reminders and
  the analytics sync every hour, the idempotency sweep, the reconciliation of
  activations, and one-off tasks such as first comments and media processing.
  `run_publisher` is a second, alternative poller; `run_inbox_sync` polls messages.
* **database**: PostgreSQL in autocommit and READ COMMITTED, no ATOMIC_REQUESTS:
  outside an explicit `transaction.atomic()` every statement is a transaction,
  and an ORM object is a copy of its row from the moment it was read.
  `save()` without `update_fields` writes the whole copy back.
* **session**: a database row too. `SESSION_SAVE_EVERY_REQUEST` makes every request
  load it when it begins and write the whole of it when it ends.
* **cache**: Redis if configured, otherwise one per process (API key rows, feed
  events, rate counters).
* **platforms**: remote HTTP APIs that succeed, refuse, or succeed and lose the
  reply. Every client has a timeout (`providers/base.py`).

Processes interact only through the database, sessions, the cache and the task
queue, so the hard behaviours are interleavings of statements on stale copies,
crashes between two statements, and replies that are lost.

### Components

| component | state | operations | what makes it correct | modules |
|---|---|---|---|---|
| Publishing engine (`publisher/engine.py`) | `PlatformPost` rows, threads on loaded instances, `PublishLog`, first-comment tasks | poll, claim, dispatch, save, retry, sync of the parent | nothing posted early, twice or never; log and status tell the truth | `Publisher`, `PublisherEditors` |
| Providers (`src/providers`) | media objects at the platforms, the calls of an attempt | publish a post or a comment, poll until media is ready | an attempt that raises has published nothing but for a lost reply | `Providers`, `Dispatch` |
| Post lifecycle (`composer/models.py`, `status.py`) | `PlatformPost.status` per account; `Post.status` is derived | `transition_to`, creation, deselection | outcomes are final, in a row and in the aggregate | `PostLifecycle` |
| Approvals (`approvals/`) | statuses, decisions, reminders | submit, approve (one or two stages), request changes, reject, resubmit, remind | two stages mean two approvals; a stalled post reaches the managers | `Approvals`, `ApprovalReminders` |
| Composer (`composer/views.py`, `services.py`) | posts, media, session lists | open, pick, autosave, save, send to a queue | an edit does not undo an outcome; media stays with its page | `Composer`, `PublisherEditors` |
| CSV import, feeds, ideas (`composer/views.py`) | session, cache entry, board | import, subscribe and show, move and convert | a row is imported once; a page shows its feeds; no idea is lost | `CsvImport`, `Feeds`, `Ideas` |
| Calendar (`calendar/`) | slots, queues, recurrences | assign, drag, reorder, show, generate | queue order is time order; nothing falls off the grid; one clone per date | `Calendar`, `Recurrences` |
| Media library (`media_library/`) | assets, versions, files, folders | upload, edit, restore, delete, move | posts keep their media; the tree stays a tree; the quota holds | `MediaLibrary`, `MediaFolders` |
| Agent API, MCP (`api/`, `mcp/`) | idempotency records, quotas | claim, finalize, release, sweep; quota checks | a repeated request works once; quotas hold | `AgentApi` |
| API keys (`api_keys/`) | key rows and their cached copies | verify, revoke, edit, signals | a revoked key stops within the cache time; no more power than its issuer | `ApiKeys` |
| Members, organizations (`members/`, `organizations/`, `accounts/`) | memberships, invitations, deletion | invite, accept, remove, change role, delete | an owner remains; nobody is lost; nobody climbs | `Team` |
| Client portal (`client_portal/`) | magic links, sessions | send, open, act, remove | a link is used once; a removed client decides nothing | `Portal` |
| Social accounts (`social_accounts/`, `onboarding/`) | tokens, status, flows and links | connect, refresh, check, disconnect | single-use tokens survive; a flow ends as it began | `AccountTokens`, `ConnectFlows` |
| Notifications (`notifications/`) | deliveries | notify, dispatch, retry | each delivery arrives, once | `Notifications` |
| Inbox (`inbox/`) | messages, SLA marks | webhook, poll, reply, SLA check | nobody is told twice; the poll misses nothing | `Inbox` |
| Intelligence (`intelligence/`) | checkouts, activations, subscription | checkout, activate, discard, reconcile | one open checkout; the stored key works; deferred work is settled | `Activation` |
| Analytics (`analytics/`) | figures by post and day | hourly sync, backfill | no post is kept from its own refresh | `Analytics` |
| Workspaces, OAuth server, credentials, settings, templates | see `PROJECT.json` | | not modelled | |

The hazards of this code, each at its line, are listed in `PROJECT.json`
("hazards") with the properties that cover them.

## 2. The modules

Each component has a module of its own, with its constants and their assumption,
its variables, one action per operation or statement, its specification and its
properties. Three relations hold between modules:

* `Publisher` (with one engine) implements the state machine of `PostLifecycle`,
  and `Approvals` follows the same machine through `INSTANCE PostLifecycle`.
* `PublisherEditors` extends `Publisher` with the web requests that edit the rows
  the engine works on: the composition in which most races of the system are.
* `Providers` implements `Dispatch`, which says what the engine may assume of a
  dispatch: in `Publisher` the three outcomes `DispatchOk`, `DispatchError` and
  `DispatchLost`, in `Dispatch` the same with the copies they leave.

The other components touch one another's tables only through keys (a media asset
of a post, the channel of a queue), so each is checked on its own, next to the part
of the other's state it needs. To keep the number of instances small, components
that ask similar questions share a TLC instance as a *disjoint sum*: `MCDesk`
(what people do before a post is published), `MCTeam` (people, and what comes from
outside) and `MCPlatforms` (what goes on by itself, with fairness). Such a module
EXTENDS its components, has one more variable `part`, fixed initially, which names
the component this behaviour is of, and leaves the variables of all others at one
of their initial values (`OnlyOf`). The states of two components are therefore
never multiplied, and every component sees exactly its own behaviours. Model values
are shared between components to save symmetry permutations; this is sound because
a behaviour is of one component, and symmetry is used only where no liveness is
checked.

A property whose name stands for several is a conjunction of named parts, each
with its own comment: for instance `BooksAreTrue` of `Publisher`. The
type invariants of the modules are parts too. The mutant of `PROJECT.json` breaks
the conjunction; further mutants that break other parts stand beside the
definitions they replace ("Mutant:").

## 3. The modules and the code

Throughout, an action is one database statement, or one `transaction.atomic()`
block at its commit, because other processes see nothing smaller. An ORM instance
is a record in the state of the process that loaded it; `save()` writes that
record back. `EXISTS`-style guards and early returns are conjuncts of the action
that follows them. Times are ticks and 0 is NULL. Variables called history in the
comments record what happened for a property; no guard of the code's reads them.

### PostLifecycle (`composer/models.py`, `composer/status.py`, `composer/views.py`)

State: `status`, the status of each child of one post, or "none" where the account
has no row. `Transition` moves any set of rows along `VALID_TRANSITIONS`;
`SelectAccount` and `RemoveDeselected` are what a composer save does to the set of
accounts. `DerivePostStatus` is the aggregation function, which is pure and only
looks at the set of distinct values.

### Publisher (`publisher/engine.py`)

State: the columns of `PlatformPost` the engine reads or writes (`row`), two
columns of `Post` (`postSched`, `postPubAt`), where each engine is in
`poll_and_publish` (`mode`), and for each engine and row the thread that works on
it (`thr`: program counter and the loaded columns). `tasks` and `logs` are the
queue of first comments and the PublishLog numbers. `attempts`, `live`,
`commentRuns` are history: what reached the platform. `spent` counts the
failures that have happened.

| code | actions |
|---|---|
| `poll_and_publish`, `_get_due_platform_posts` | `Poll`, `ListRetries`, `EndCycle` |
| `_publish_post_group`, its claim under `select_for_update` | `ClaimGroup` |
| `_publish_platform_post`, `_dispatch_to_provider` | `DispatchOk`, `DispatchError`, `DispatchLost` |
| ... and what it saves and logs | `SavePublished`, `LogSuccess`, `LogFailure` |
| `_schedule_retry`, `_fail_permanently` | `SaveOutcome` |
| `_process_retries` | `StartRetry`, `EndFailedRetry` |
| `_sync_parent_published_at` | `ReadLatest`, `SyncParentPublishedAt` |
| first comments | `ScheduleFirstComment`, `RunFirstComment` |
| the environment | `Tick`, `Crash` |

The sizes of the thread pools are left out: they only remove interleavings. The
rate-limit branch cannot be taken (nothing records limits), and neither can the
branch for a dispatch that returns `success=False`. A claim whose transaction is
rolled back drops its group, as an empty claim does.

### PublisherEditors (`api/routers/posts.py`, `mcp/handlers.py`, `calendar/views.py`, `composer/views.py`, `composer/services.py`)

Extends `Publisher` with web requests (`req`), each with the instances it has
loaded, and five kinds of edit: re-timing by `PATCH`, `cancel`, `schedule`, the
calendar's drag, and the composer's save in its three forms. `rearmed` is history:
how often an editor left a row scheduled. The selected accounts do not change
during a run (their deletion is in `PostLifecycle`), and the workspace asks for
no approval (`Approvals`).

### Providers, Dispatch (`src/providers`, `publisher/engine.py`)

A publication is a `script`: the sequence of calls the client will make, one per
platform and type of post, built by an operator per client (`YouTube`,
`Instagram`, `LinkedInCompany`, ...). A call may be refused, fail, or lose its reply after it
took effect; `create`, `wait` and `seal` deal with media objects, which the
platform takes in at its own pace (`Process`). `polls` counts the polls of the
current wait, `tries` the attempts of the engine, `posted` and `lost` are history.
`StartAttempt` and `PostFirstComment` are the engine's two entries,
`ClientStep` the next call, `PollRaises` a poll that raises. The refinement mapping
to `Dispatch` maps a calling attempt that has put its copy up to "accepted".

### AgentApi (`api/middleware.py`, `api/limits.py`, `api/routers/`, `api/tasks.py`, `mcp/handlers.py`)

State: the idempotency record of each (API key, idempotency key) pair (`record`),
the posts and media assets (`item`), and the request in each thread of the web
server or the answer it gave (`req`).

| code | actions |
|---|---|
| `create` and `upload` routes, `create_draft`, `schedule_post`, `upload_media` | `Arrive`, `LookUpFolder`, `CreateItem` |
| `claim_idempotency_slot` | `Claim`, `Fetch` |
| `check_platform_quota`, `count_recent_creations` | `CheckQuota` (`Used`) |
| `finalize_idempotent_response`, `release_idempotent_claim` | `Finalize`, `Release` |
| `schedule` route, `schedule_draft` | `ArrivePromote`, `CheckQuota`, `Promote` |
| `sweep_stale_idempotency_records` | `Sweep` |
| publisher, `cancel` route | `Publish`, `Cancel` |
| time, failing statements, death of a server process | `ApiTick`, `StatementFails` in the actions, `ServerDies` |

A body is a model value, and `KindOf` says what it asks for. There is no clock:
records, items and requests carry ages that stop at `OLD`, the first age past both
windows. A request with `NoKey` (every MCP tool, or a route without the header)
skips the claim. Answers other than 201 leave nothing behind, so their thread
becomes idle. `TIMEOUT` is the longest a request may live. gunicorn's gthread
workers do not kill a request by age, but its HTTP and database calls are bounded
by minutes and a record lives 24 hours; the model assumes `TIMEOUT <= TTL` and
nothing else.

### Activation (`intelligence/views.py`, `tasks.py`, `models.py`)

State: the checkout rows (`checkout`), the one subscription (`sub`: status and
number of its API key), the PendingActivation of each session (`pend`), the queued
worker tasks (`runsQueued`), web requests and worker runs (`proc`), reconcile runs
(`recon`). The remote service is `remote`, its sessions, and `subscriber`, its
account of the organization; `admins` are the members with the billing permission.
Keys are numbered in the order of their issue, so a stored key works if it is
`subscriber.key`.

| code | actions |
|---|---|
| `checkout`: TX1, the call, TX2 | `Checkout`, `CheckoutReplies`, `CheckoutPromotes` |
| `discard_checkout` | `Discard`, `DiscardReplies`, `DiscardFlips` |
| `activate`, `recover` | `Activate`, `Recover` |
| `_activate_two_phase`, also inside the worker | `Preflight`, `Commit`, `Finalize` |
| `_queue_pending_activation` | `Queue`, `Enqueue` |
| `provision_intelligence_account_via_session`, `_reschedule_or_fail` | `Take`, `Complete`, `Reschedule` |
| `reconcile_intelligence_subscriptions`, `_refresh_one_subscription` | `ReconcileStep`: loads, asks, saves |
| customer, provider, role changes, failures | `Pay`, `Bill`, `ChangeRole`, `ProcessDies`, failing calls |

The partial unique constraint is the guard `InProgress = {}`, or `\subseteq {a}`
where row `a` itself is saved; a violation is an IntegrityError that changes
nothing. What the remote service does is taken from how the code and its comments
use it: one session per organization at a time, a Conflict otherwise, one minted
key per session, replays without a key, cancellation as a no-op for a session that
is not open. The service names the right organization, so the branch for a
mismatch is left out, and so is the worker's branch for a session without a row,
since rows keep their session. `crossed` and the fields `queued` and `entitled`
are history.

### Approvals (`approvals/services.py`, `views.py`, `client_portal/views.py`, `composer/services.py`, `views.py`)

State: the workspace's `workflow` mode, the status of each child of one post
(`chip`), and the decisions in progress with the children they loaded (`desk`).
A decision loads before its transaction and saves without a lock, so loading
(`SubmitRequest`, `ReviewerRequest`, `BulkRequest`, `PortalApprove`,
`PortalRequestChanges`, `PortalReject`, `LoadChip`) and saving (`Decide`,
`SaveChip`) are two actions. `ScheduleChild` is the composer's schedule button,
`ApiSchedule` the gated service, `Publish` the engine. `stages` and `astray` are
history: approvals since the last submission, and children moved by a stale save or
past the services.

### ApprovalReminders (`approvals/tasks.py`)

One stage of one post: `waits` (a child is in it), the age of the post and of the
last reminder (`idle`, `cooled`), the ApprovalReminder row (`reminder`), and the
runs of the hourly task with the row they loaded (`run`). `Submit`, `ChipBack`,
`Decided`, `Edit` are what users do to the stage, `Runs` the statements of
`_process_stage`, `Die` a worker that dies between the message and the save.

### Composer (`composer/views.py`, `templates/composer/compose.html`)

State: the list of media pending in the session (`pending`), what post each part of
a page works on (`page`; the form, the autosave and the media picker learn it at
different times), the posts and their media, the library, and the requests in
progress with the session they read (`saving`). Each user action (`Compose`,
`Upload`, `Pick`, `RemovePending`, `RemoveMedia`, `Autosave`, `SaveDraft`,
`SaveToQueue`) begins a request; `Do...` and `SavesPost` are its statements, and
`Answer` saves the session and updates the page.

### CsvImport, Feeds, Ideas (`composer/views.py`)

* `CsvImport`: file and column mapping in the session (`session_csv`), a page per tab (`tab`), its
  request (`asked`), posts per row (`imported`). `CsvUpload`/`Uploaded`,
  `CsvPreview`/`Previewed`, `OtherPage`/`OtherShown` are the beginning and end of
  requests; `CsvConfirm`, `ImportRow`, `Imported` the import, one row at a time;
  `CsvCut` a request that is killed.
* `Feeds`: subscriptions (`feeds`), the cache entry with the signature of the feeds
  it was built from (`entry`), and each page's request (`feedPage`): `FeedAdd`,
  `FeedCreate`, `FeedDelete`, `Forget` (`cache.delete`), `FeedList`, `ListFeeds`,
  `ReadCache`, `Fetch`, `StoreEvents`.
* `Ideas`: idea rows, columns and posts made from ideas, and requests with the row
  they loaded (`editor`). Editing and conversion save some fields, a drag
  (`IdeaMove`, `SaveMove`) the whole row; a column is found empty
  (`IdeaGroupDelete`) before it is dropped (`DropColumn`).

### Calendar, Recurrences (`calendar/services.py`, `views.py`, `tasks.py`)

`Calendar` has moments of half a day, so that timezones move a moment over a day's
edge. State: posting slots, queue entries with positions, queue rows, children with
status and time, `Post.scheduled_at`, and requests in progress (`plan`).
`AddToQueue`, `ReadPosition`, `SaveEntry` are `add_to_queue` statement by statement;
`ListEntries`, `WriteSlot`, `EndAssign` are `assign_queue_slots`; `ReorderQueue`,
`AddToQueuePriority`, `FloorAndSchedule`, `ReschedulePost` and the slot, queue and
channel views are the other routes. `settled` is history: queues whose last
recalculation was `alone`, met by no other request and no drag. The day, week and month pages are the
operators `_day_view_data`, `_week_view_data`, `_month_view_data` over every
timezone of the set `Zones`. `Recurrences` has one rule and its source, the clones
made, and runs that list dates (`RunBegins`), clone one by one (`ClonePost`), and
end or are cut; a run keeps the numbers of the recurrences it has still to clone
(`todo`), and `DateOf` makes dates of them.

### MediaLibrary, MediaFolders (`media_library/views.py`, `services.py`, `tasks.py`, `quotas.py`)

`MediaLibrary`: the file each asset serves (`asset`), its `versions`, the files in
storage, the waiting background tasks, PostMedia (`uses`), and requests and
commands in progress (`hand`). Uploads check the quota and keep the file later
(`BeginUpload`, `KeepUpload`); deletions look for posts (`DeleteLooks`,
`CleanupScans`, `CleanupLooks`) and delete file, versions and row in three steps.
`ClaimPost` and `SendPost` are the engine. `MediaFolders`: parent and name of each
folder, the folder of an asset, and requests (`clerk`) that check, then write;
`MoveAssets`, `MoveSubfolders`, `DeleteFolder` are the three statements of a
deletion, and `Cascade` what the database deletes with a folder. Subfolders go to
the parent the request had loaded, wherever that one has gone meanwhile. The folders
stay a tree for any number of overlapping requests (`FoldersStayTrees`), and three
levels deep as long as no two deletions were in progress at once (`overlapped`): a
chain of five deletions that wait for each other, which the run does not reach, may
take the parent below the folder that was in it, and so make a fourth level.

### Team (`members/`, `organizations/`, `accounts/`, `client_portal/views_admin.py`)

State: accounts, organization and workspace roles as levels, default organizations
(`home`), invitations, the organization and its deletion (`purge`), and requests
and tasks in progress (`work`). `Invitation` covers invite, accept, sign-up with a
token; `Membership` removal, role changes, assignments and account deletion;
`Deletion` the purge of the organization and the settling of its members; `Dies` a
process that dies. `ResendInvitation`, `RevokeInvitation`, `RemoveClient`,
`ScheduleDeletion`, `CancelDeletion`, `GraceElapses` are single statements.

### ConnectFlows, AccountTokens (`social_accounts/views.py`, `tasks.py`, `onboarding/views.py`, `src/providers`)

`ConnectFlows`: one browser. `session` holds the pending nonce of each way in (a
member, a connection link) and the pages to pick from; `flows`, `leaving`, `codes`,
`spent` follow each nonce to the platform and back; `apps` are the Mastodon
registrations, `rate` the link's counter. Every request loads the session when it
begins and saves it in `EndRequest`. `AccountTokens`: the account row, the tokens the
platform has issued and still accepts, and processes with the instance they hold
(`agent`): health checks, refreshes by engine or composer, disconnections. What each
platform's token endpoint answers is a record (`BlueskyTokens`, ...) translated
from its client.

### ApiKeys, Portal, Notifications, Inbox, Analytics

* `ApiKeys` (`api_keys/services.py`, `api/auth.py`): the key's row, the issuer's
  permissions and membership, one cache or one per worker (`entry`), requests
  (`call`) that look up, read, store, check and authenticate, and an
  administrator's request, which saves and invalidates in two steps.
* `Portal` (`client_portal/`): magic links, the client's membership, requests of
  managers (`Withdraws`, `Sends`, `Removes`) and of the client's browsers
  (`OpensLink`, `Consumes`, `PortalRequest`, `PortalApprove`), portal sessions.
* `Notifications` (`notifications/engine.py`): `delivery` rows by notice and
  channel, and threads. A thread knows what notify has yet to create (`todo`), what
  a retry run has yet to do (`left`) with the counts it has read (`read`), and the
  delivery it dispatches (`d`): it counts, sends and settles one after the other.
  `RetryRun` is the retry task, `BackoffEnds` the clock, `ThreadDies` a crash.
* `Inbox` (`inbox/tasks.py`, `webhooks.py`, `views.py`): messages at the platform,
  their rows (`box`), a webhook delivery (`hook`), the sync (`poll`) with its SLA
  check, and users' requests with what they have seen (`agent`).
* `Analytics` (`analytics/tasks.py`): hours, publication times, when each post's
  own and lifetime figures were last captured, the dates of the account's rows, and
  the two jobs (the hourly run, the backfill of a new connection).

## 4. What the runs show

Every run but the violations must pass; a mutant of a mapped definition breaks
each property under the run's own configuration.

| run | instance | shows |
|---|---|---|
| `engine_one` | one engine, two rows of one post, two retries, 2 ticks, one crash, one failing statement, one lost reply | no double post, truthful status, gapless log, bounded attempts, right parent date, one first comment, no row without an owner, each but for what a failure may cost: a copy per lost reply or fault, a gap in the log per crash or fault |
| `engine_two` | two engines | the first attempt is exclusive, a second copy only comes out of a retry |
| `editors` | one row, one engine, two edits of five kinds one after the other | the retry limit and the single copy hold per scheduling; a committed cancellation is honoured before the first attempt; only a saved copy reopens an outcome, unless an edit left the row scheduled before |
| `agent_quota` | two threads, three items, limit 1, one fault; with a key, an upload or a death while there is one item (`OneItemBeside`) | concurrent requests overrun the quota by at most the number of other threads |
| `activation` | two web requests, two workers, two checkouts, two sessions, two failing calls, one demotion | a subscription has its key; the key works unless a commit crossed another run's finalize; no race but a promotion after a discard keeps a paid session from being recovered; runs of the worker are bounded; who was demoted before a run cannot commit in it |
| `activation_liveness` | one web thread, one worker with two runs per activation, one reconcile task; two failing calls, one death, two changes | deferred activations are settled; the local status catches up with the account |
| `platforms` | engine: two posts, batches of one row; clients: twelve platforms, nine post types, up to two files, two attempts; tokens: six kinds of platform, two tokens; reminders: two runners, two reminders; notifications: two channels, two threads; API: two threads, one key, three bodies, limit 0 | every due row is settled although a failing row may come first every time, and moves along the state machine; the clients implement `Dispatch`, end every attempt and publish ready media only; dead tokens are explained, reported, never restored; reminders are bounded and stalls escalate; notices arrive once or are given up; one worker, one item and one answer per key, and the sweep frees a wedged one |
| `desk` | eleven components, two people, two or three things each | see `MCDesk`: the properties of `PostLifecycle`, `Approvals`, `Calendar`, `Recurrences`, `Composer`, `CsvImport`, `Feeds`, `Ideas`, `MediaLibrary`, `MediaFolders`, `Analytics` |
| `team` | five components, two requests at a time | see `MCTeam`: the properties of `Team`, `ConnectFlows`, `ApiKeys`, `Portal`, `Inbox` |
| `backoff_ignored` | one row, backoffs 1 and 2 | violation, see below |
| `sync_overwrites` | one row, one composer save | violation |
| `gate_bypassed` | one channel, the two-stage mode | violation |

### Bounds

* *Rows and posts.* The engine relates two rows only through their group, the
  batch and the parent's date; two rows of one post, or of two posts, exhibit
  each. Editors address the rows of one post.
* *Engines.* Two are enough for every race on a row, since a step of an engine
  reads one row version and one of the other's.
* *Ticks (`MaxNow`).* Enough for a row to be due, to fail, to wait out its backoff
  and to be retried as often as the run allows, plus a row that is not yet due.
* *`MAX_RETRIES`.* 1 or 2 instead of 3: the last retry, and one before it.
* *Failures (`MaxCrashes`, `MaxFaults`, `MaxLost`, `MaxDeaths`, `MaxMishaps`...).*
  One each at any step.
* *Edits (`MaxEdits`, `MaxSaves`).* Two, of which one composer save; the second
  may undo or repeat the first.
* *Agent API.* `TTL` = `WINDOW` = 2 and `TIMEOUT` = 1 give an age strictly
  between a live request and a swept record; `LIMIT` = 0 in `platforms` is a
  legal account setting (`daily_post_limit_override`) that reaches the 429 path;
  in `agent_quota` symmetric threads and items are interchanged, which is sound
  for invariants. `Room` bounds the items ever created.
* *Activation.* Two checkouts and two sessions are the one that is discarded or
  paid for and the one that follows. `activation` has two workers, one run per
  activation and no death, so that the tasks of two requests interleave; deaths
  and a second run are in `activation_liveness`. The organization subscribes once.
* *Requests in progress.* Two in every desk and team component: the races are of
  one request's check with another's write. A bound on the number of requests
  (`MaxMoves`, `MaxPlans`, `MaxCalls`, `MaxClicks`, `MaxTouches`, `MaxChores`,
  `MaxVisits`, `MaxCares`...) makes the space finite; each is at least two whole
  operations of each person.
* *Ladders and windows.* Analytics has two rungs and days of two hours; API keys a
  cache time of one tick and two ticks of time; media two versions and a quota of
  one file; four folders, one more than the levels there may be (`MaxDepth`), and six
  requests, which create all four and delete two at once.
* `CHECK_DEADLOCK FALSE` where the system may stop: an organization whose
  administrators were all demoted, a bound that has been used up, a post that is
  published.

### Fairness

Fairness is stated for what the code schedules itself, one step at a time, and
never for people, customers or platforms.

* Engine: its loop goes on, its threads are scheduled, a provider call returns
  (every HTTP client has a timeout, `providers/base.py`), time passes. Nothing obliges
  a platform to accept a post.
* Clients: an attempt goes on to its next call; nothing obliges a platform to finish
  processing, so the bound on polls is what ends a wait.
* Tokens: the health checks are scheduled every 6 h and run by the worker, and a
  call ends by its answer or its timeout.
* Reminders and notifications: the tasks recur and threads go on; a backoff ends.
  The retry of notifications "should be scheduled to run every minute"
  (`notifications/tasks.py`), but nothing in the repository schedules it: the
  fairness assumes that the operator does.
* Agent API: requests run on, time passes and the hourly sweep is run.
* Activation: requests and workers run on and the reconcile task recurs; that a
  deferred activation is settled needs no call to succeed, since
  `_reschedule_or_fail` gives up after `WORKER_MAX_ATTEMPTS` runs.

### Findings

* `backoff_ignored`: `_schedule_retry` puts the row back to SCHEDULED with its
  past time, so the next poll, 15 s later, takes it whatever `next_retry_at` is;
  the comment at `publisher/engine.py:486` expects it to wait.
* `sync_overwrites`: `_sync_platform_posts` saves every column of the rows it
  loaded, so it can put a status back that the engine has meanwhile changed,
  though "Existing rows are not touched here".
* `gate_bypassed`: the composer's schedule button and the chip menu assign
  "scheduled" themselves and never meet the approval gate, which "belongs here so
  EVERY path" is covered (`composer/services.py:198`).

### Deviations met while modelling that no run states

*Publishing.*

* Two engines may retry one row at the same time: `_process_retries` takes no
  lock and does not look at the status again. This is why `NoDoublePost`,
  `AttemptsBounded` and the refinement are checked with one engine.
* If the success log of a published row cannot be inserted, the same except branch
  reschedules the row (`engine.py:217`), and it is posted again. `NoDoublePost`
  and `OutcomeIsTruthful` grant a copy per fault for it.
* A row that a retry publishes never gets its first comment
  (`engine.py:513`): only `_publish_post_group` schedules them.
* A row re-timed into the future between the poll and the claim is still
  published at once: the claim looks at the status only.
* A `cancel` that loaded its rows before the engine published them writes them
  back to draft.
* The docstring of `derive_post_status` says that a failed child next to an
  unfinished one shows as "publishing" (`status.py:38`); the code has no such rule
  and returns the earliest status of the unfinished children.
* TikTok and YouTube publish asynchronously: the reply says that the upload was
  taken, not that the post is visible. Threads, and LinkedIn images, are published
  without waiting for their media. Facebook and LinkedIn post the first of several
  images only.
* Errors that say "We'll retry shortly" (`error_messages.py`) include account
  errors that are never retried.

*Accounts.*

* Pages picked in `select_account` are stored with `expires_in=None`, so no check
  ever refreshes them; Threads and Facebook store no refresh token either. The page
  list comes from the session, and nothing is checked again when it is used.
* A LinkedIn company connected through a connection link stores the personal
  profile; the link's comment says "auto-connect first page", the code connects all.
* One Mastodon registration serves one redirect address, though it "only needs to be
  called once per instance": the link's flow and the member's overwrite nothing, but
  the second is refused by the instance.
* The account row and its default queue are created in separate transactions.

*Approvals.*

* A portal client's approval also moves siblings that wait for the internal review,
  and an internal reviewer may approve a child that waits for the client.
* A submission does not touch `Post.updated_at`, so a reminder may follow at once.
* `save_post` with "schedule" asks for no `publish_directly` permission, with
  "publish_now" it does; children that are publishing are in no tab of the publish page.

*Composer, ideas, CSV.*

* Nobody listens to the page's "postSaved" event, so the page of a new post never
  learns its id, though `compose.html:1348` and 1657 rely on it; a page whose picker was
  loaded before the autosave goes on adding to the session's list. `MediaFollowsItsPage`
  excludes both (`mixed`).
* A new post sent to a queue or for approval does not take the pending media with it;
  media of the shared library picked for a new post is dropped; removing a pending
  library asset deletes it from the library and from every unscheduled post.
* An idea created in a column that was just deleted is in no column and cannot be
  seen; two first openings of a board create the default columns twice; `idea_move`
  saves the whole row.
* The CSV import is said to be a "background job" and runs inside the request, without
  a transaction; a confirmation from another tab imports the newer file with the older
  mapping; a request that overlapped the import puts the session's keys back, so the
  import can be repeated.
* `feed_add` checks, then creates: of two, one is an IntegrityError. A feed whose
  fetch failed stays without events until the entry expires.

*Calendar.*

* Queue entries of sent posts keep their slots and re-time published children; two
  queues of one channel hand out the same slots; the floor reassignment takes a
  slot whoever has it, and reads slot times in the workspace's timezone where
  `assign_queue_slots` reads them in UTC; `add_to_queue` schedules all children, its
  comment says those whose time was filled in.
* Nothing calls `generate_recurring_posts` ("Runs daily"). With an interval of 0 it
  makes clones of one date up to its limit, and monthly dates drift after a short month.

*Media.*

* Uploads in the composer are not counted in the quota, which `quotas.py` says is
  "consistent across surfaces by construction"; the bulk upload does not catch the quota's
  error. Image edits change the thumbnail but not the file that is served; after an edit
  and a restore nothing refers to the original file. `delete_asset` looks at
  PostMedia only. Moving subfolders may fail on a name after the assets were moved.

*People and keys.*

* `hard_delete` leaves its members without an organization if the process dies; no
  code makes anybody an owner; `select_for_update().count()` (`workspaces/views.py:72`)
  takes no lock; the workspace settings save the whole row.
* A revocation takes the cache's time to live, plus a verification in flight; with the
  in-process cache it reaches only its own worker, where a comment promises "propagation
  is immediate even across workers". Keys of archived workspaces go on working, OAuth
  callers are refused.
* `generate_magic_link` withdraws and creates in two steps, so two managers leave two
  links; a removed client who opens one still gets a Django session (which decides
  nothing); nothing calls `revoke_magic_link`.

*Inbox, notifications, analytics.*

* `send_reply` records a reply, and resolves, even if the platform refused it, and
  overwrites a status set meanwhile; polling starts from the newest message and
  misses older ones after a webhook or a cut cycle, and resets `sla_notified`.
* A delivery whose worker dies in `notify` stays pending without a time to retry; one
  that dies in its last retry stays pending with all attempts counted.
* `post_freshness` counts rows that only the account's part of the sync wrote, so
  that helper and loop, which "cannot drift", do; today's account row, written early,
  is not refreshed that day; TikTok posts of 60 to 90 days are not synced, though the
  ladder says weekly; a post whose figures are all zero stays due.

*Agent API.*

* After a fault that follows the commit of `create_post`, the key is released and
  a retry creates a second post; the comment in `routers/posts.py` accepts this,
  and `OncePerKey` grants one item per fault.
* A 404 for the folder of an upload keeps the idempotency key until the sweep
  (`routers/media.py:138`), and so does a quota check that fails with anything but
  its own 429 (`ClaimHasOwner` is about the posts router and runs without faults).
* `schedule`, `cancel` and `PATCH` take no idempotency key, although
  `README.md:606` says that all write endpoints do.

*Intelligence.*

* A checkout that is discarded while its request is between the remote call and
  TX2 is promoted to open again although its session was closed
  (`intelligence/views.py:432`), which undoes "Frees the partial-unique slot" of
  `discard_checkout`. If another session is paid for meanwhile, `recover` through
  its own row is an IntegrityError until the first row is discarded again: the
  exception in `PaidIsRecoverable`.
* A run that holds the minted key may store it after another run, replaying the
  commit, has found no key and rotated it: the stored key is then dead and nothing
  rotates it again, since a key is stored (the exception in `StoredKeyWorks`).
* The statuses `finalizing` and `provisioning_failed` of a subscription, described
  at `intelligence/models.py:37`, are assigned nowhere; `pending` of a checkout row
  neither.
* A second administrator whose request must defer a session that another one has
  already deferred gets an IntegrityError: `session_id` is unique and
  `update_or_create` looks for the user as well.

## 5. What is proved

| theorem (property) | module | for every |
|---|---|---|
| `TypeCorrect` | `PublisherProofs` | set of rows, posts, engines, every retry limit and backoff list |
| `FirstAttempt` (`FirstAttemptExclusive`) | `PublisherProofs` | the same |
| `PostedOnce` (`PostedOnceUnlessRetried`) | `PublisherBooksProofs` | the same |
| `NoDoublePostWithOneEngine` (`NoDoublePost`) | `PublisherBooksProofs` | the same, one engine |
| `BooksAreTrueWithOneEngine` (`BooksAreTrue`) | `PublisherBooksProofs` | the same, one engine |
| `EngineFollowsStateMachine` (of `PostsAreServed`) | `PublisherBooksProofs` | the same, one engine, no failed statement |
| `NeverBeforeItsTime` (of `PostsAreServed`) | `PublisherBooksProofs` | set of rows, posts, engines, every retry limit and backoff list |
| `EditsAreBoundedWithOneEngine` (`EditsAreBounded`) | `PublisherEditorsProofs` | the same, every set of editors, number of edits and saves, one engine |
| `EditsAreRespectedWithOneEngine` (`EditsAreRespected`) | `PublisherEditorsProofs` | the same |
| `Accounted` (`CopiesAreAccounted`) | `PublisherBooksProofs` | number of attempts |
| `ClientsImplementDispatch` (`ImplementsDispatch`) | `PublisherBooksProofs` | post, type and number of files on the twelve platforms, every limit of polls and attempts |
| `ClientsWaitForMedia` (`PublishesOnlyReadyMedia`) | `PublisherBooksProofs` | the same |
| `TypeCorrect` | `AgentApiProofs` | set of threads, keys, bodies, items, every TTL, window, timeout and limit with `TIMEOUT <= TTL` |
| `OneWorker` (of `KeysAreHonoured`) | `AgentApiProofs` | the same |
| `ReplayFaithful` (`ReplayIsFaithful`) | `AgentApiProofs` | the same |
| `KeysAlwaysHonoured` (`KeysAreHonoured`) | `AgentApiProofs` | the same, finitely many items and threads |
| `QuotaIsBounded` (`AdmissionsBounded`) | `AgentApiProofs` | the same |
| `ActivationAlwaysSound` (`ActivationIsSound`) | `ActivationProofs` | every finite set of web requests and workers, set of rows, sessions, users and reconcile runs, every limit of runs |
| `PaidAlwaysRecoverable` (`PaidIsRecoverable`) | `ActivationProofs` | the same |
| `TokensAreKept` (`GrantsAreKept`) | `AgentApiProofs` | set of requests of each kind, every number of tokens and faults, on every kind of platform |
| `RemindersAlwaysBounded` (of `RemindersEscalate`) | `AgentApiProofs` | set of runs, every limit of reminders, number of rounds and deaths |
| `NoticesArriveOnce` (of `NoticesArrive`) | `AgentApiProofs` | set of notifications and threads, list of channels, every number of retries and mishaps |
| `LifecycleOutcomesAreFinal` (`OutcomesAreFinal`) | `DeskProofs` | set of channels |
| `ApprovalsInStages` (`ApprovalsTakeTheirCourse`) | `DeskProofs` | set of channels and deciders, every number of moves |
| `RecurrencesOncePerDate` (`OneClonePerDate`) | `DeskProofs` | set of runs and intervals, every number of dates, clones and edits |
| `IdeasStayOnTheBoard` (`IdeasAreKept`) | `DeskProofs` | set of ideas, columns, posts, media and editors |
| `FoldersStayTrees` (`FoldersAreKept`) | `DeskProofs` | set of folders, names and clerks |
| `ShownMatches` (`PagesMatchTheirFeeds`) | `DeskProofs` | set of addresses and pages, every number of subscriptions |
| `RowsOnlyOnce` (`RowsImportedOnce`) | `DeskProofs` | set of files and tabs, every number of rows |
| `MediaAlwaysFollow` (`MediaFollowsItsPage`) | `DeskProofs` | set of pages, posts, assets and requests |
| `MediaAlwaysKept` (`MediaIsKept`) | `DeskProofs` | set of assets and posts, every finite set of hands, every quota |
| `PostsAlwaysFresh` (`PostsStayFresh`) | `DeskProofs` | set of posts, every ladder of intervals |
| `CalendarAlwaysTrue` (`CalendarIsTrue`) | `DeskProofs` | set of posts, channels, queues and planners, every horizon and number of requests |
| `TeamNobodyIsLost` (`NobodyIsLost`) | `TeamProofs` | set of users and desks, every finite set of founders, every number of invitations |
| `TeamNobodyClimbs` (`NobodyClimbs`) | `TeamProofs` | the same |
| `PortalStaysTheClients` (`PortalIsTheClients`) | `PeopleProofs` | set of managers, browsers and links |
| `KeysAlwaysFollow` (`KeysFollowTheirIssuer`) | `PeopleProofs` | set of permissions, caches and requests, every time to live |
| `FlowsAlwaysEndAsTheyBegan` (`FlowsEndAsTheyBegan`) | `PeopleProofs` | set of requests and instances, every number of flows, every hourly limit |
| `InboxNobodyIsToldTwice` (`NobodyIsToldTwice`) | `PeopleProofs` | set of messages and users |
| `InboxPollMissesNothing` (`PollMissesNothing`) | `PeopleProofs` | the same |

The assumptions are those of the modules (`PublisherAssumption` and so on), which TLC
evaluates in the runs. Those that a proof needed and the code justifies: a key is
cached for some time (`CacheTtl > 0`, `REVOCATION_CACHE_TTL = 30`); an organization
starts with finitely many owners and at least one, the user who creates it
(`TeamAssumption`); there is a post to
edit (`EditorsAssumption`); finitely many requests and workers are in progress at once
(`MediaAssumption`, `ActivationAssumption`; `AgentApiAssumption` adds that there is one
at least, and that finitely many items were ever made); every rung of the ladder has an interval, and TikTok's 60 days
end before the ladder's 90 (`AnalyticsAssumption`); the values that stand for no post, no file and no application are
none (`ComposerAssumption`, `CsvAssumption`, `ConnectFlowsAssumption`), nor are the
top level and a missing row folders (`FoldersAssumption`). Each inductive
invariant was an invariant of a TLC run of its component before it was proved.

*The engine.* `FirstAttemptExclusive` alone is not inductive: an engine could
hold a row in its retry list that another is about to attempt for the first time.
`FirstAttemptInv` rules that out with `retry_count`: the retry loop only holds rows
that have failed; a thread with a positive count works on a row whose count in
the table is positive, and no write of an engine brings it back to 0; and a thread
with count 0 holds a row whose count is still 0, whose status is where the claim or
its own save put it, and on which nobody else works. `PostedOnce` adds
`FirstCopyIsLast`: as long as the count is 0, a first copy means that no engine is
at or before the call for that row and that the status is not scheduled, so none
gets there.

*The engine alone.* With one engine, `BooksInv` says of each row, statement by
statement of its thread, what the status is (`StatusFits`), how many copies are
forgiven by lost replies and failed statements (`CopiesFit`: before a call, and
whenever the row may be called for again, all of them), how `retry_count`, attempts
and log numbers go together (`AttemptsFit`), and that the first comment is started
once, when all else is done (`CommentsFit`). `ParentsInv` is about `_sync_parent_published_at`, which
reads the maximum of the rows in one statement and writes it in another: in
between nothing of the post is in flight, and no thread holds an instance of the
post that is ahead of the table. Crashes and failed statements break it, which is
what the property's hypotheses say.

*What is served.* Two parts of `PostsAreServed` are proved. `FollowsStateMachine` (the
engine refines `PostLifecycle`) follows from `BooksInv`: as long as no statement fails,
the status a thread overwrites is the one its statement expects, so each write is a
transition, and a claim is one transition of all its rows (`RowsWalk`). A failed log of
a success does break it: the failure path then takes the row out of "published".
`NeverEarly` is proved for any number of engines. `EarlyInv` says that the time has
come of each row that a thread has listed, holds or calls for, or that counts a retry, and that
a thread holds the row's scheduled time, so that what its full save puts back is what
was there.

*The editors.* A request holds copies of rows that age while the engine works, and
the composer's save puts all their columns back, `retry_count` too. The bound is
therefore on what is still to be paid: `BudgetInv` says that no copy counts more
than `MAX_RETRIES`, and that the attempts made, those that a scheduled row can still
cost, and those that the attempt in hand can, are covered by the rounds that edits
have bought, one for each write that leaves the row scheduled; likewise for the
posts. A row that an edit schedules under a working thread has its round and the
pending call of that thread to pay for (`ScheduledIsPaid`). `RespectInv` says
that a row whose count is positive, in the table or in any copy, has been tried, so
that a retry is never the first attempt of a cancelled row; and that no thread works
on a row that was seen published. Both follow from two summaries of a step, what the
engine does to one row (`EngineRow`) and what an editor does to it (`EditorRow`).
Preparing the proof showed that `OnlySavedCopiesReopen` as it stood held only for
one save at a time: two old copies can mark a row published while it is being sent
again, and the settling of that attempt takes it out of "published". Hence its
exception for rows that an edit has left scheduled before.

*The Agent API.* `ClaimInv` says that a live request is no older than the timeout,
that an owner's record is in the table and no older than the owner, and that there
is one owner. The ages make it inductive: they keep the sweep, which deletes
unfinished records too, from freeing a key under a running request, and this is
the only place where `TIMEOUT <= TTL` is used. `ReplayInv` on top of it carries
the body and the item from the claim through the created row and the finalized
record to the answer. `HonourInv`, on top of both, is why `OncePerKey` holds: a key
that is free, or whose owner may still make an item, has made none in its window that
no failure has excused (`CopiesExcused`). The sweep frees keys too, and there the ages
count again: an item is younger than the record of its key by the timeout at most
(`ItemsFollowClaims`), so that a record that is old enough to be swept has no fresh
item. An answer stands in the record while its item is fresh (`AnswersStand`), so two
answers agree. `QuotaInv` counts the admitted rows together with the requests that
have passed the check: whoever passes has seen fewer than `LIMIT` rows, and the check
sees every admitted row because what admits a row touches it (`TouchedLast`).

*Dispatch.* `CopiesAreAccounted` is inductive over the type invariant: the state of
the attempt says whether the last copy was answered. That the clients implement
`Dispatch` (`ImplementsDispatch`) is proved of the scripts first: every script of the
registry, for every type of post and number of files, has one call that makes the post
visible or raises, nothing before it publishes, and what comes after it cannot raise
(`EndsWell`); it holds of a script put after calls that publish nothing, so each client
is a few lines. `WireInv` then relates what is left of the script to the copies there
are, and each step is a step of `Dispatch` or none (`WireStep`). Together the two
theorems say that what the engine records as published is on the platform. Of the
clients that wait, `Patient` says that a container is polled at once and an upload as
soon as its bytes are complete, and `MediaInv` that all media but the last are ready
and the last is in the state that the next call expects. What this took of the model
was a closed form for the calls of a loop (`Repeated`) and for the files of a
video-only platform (`Attached`).

*Activation.* One session of the organization is open or sold at a time (`OneSold`),
because the service refuses another. A commit that mints a key is therefore the first
of all: there is no key yet, and nobody is about to store one. Unless two commits
crossed, one process at most is between its commit and its transaction, and the
key it holds, like the stored one, is none or the account's (`NotCrossed`). The bound
on the worker's runs needs a count of what can still run: `RunsFit` adds to the queued
tasks the processes that may queue one (a request about to enqueue, a run below the
limit, whose crash or rescheduling puts its task back) and says that until the last
regular run they are covered by the deferrals and crashes, and that each run
after it has used one of them up. `RowsFit` says that one row has the slot and that,
without crashes, a creating row has a request that will open it or free it.

*Tokens of accounts.* Several requests refresh the account they have loaded, and a
platform that rotates refresh tokens kills the one it replaces. `RotatedFits` says
of a token that a request has been given and has not saved that it works until it runs
out, and that neither the row nor another request has it; so the row's token is dead
only while its successor is on the way (`DeadGrantFits`), unless requests saved over
each other, or one that had it died.

*Reminders.* Unless runs met, one is at work at most (`RemindersInv`), and the row
tells what was sent but for what that run has not saved (`Unsaved`, `RowIsTrue`); a
run that is past its guard therefore still finds the count it has read.

*Notifications.* `ArrivesOnce` speaks of the end of attempts. `DeliveryFits` says
what a thread knows meanwhile: one that has a delivery in hand has the count of the
row, so no attempt is counted twice; what was sent is counted; and a delivery that
waits for another attempt has not arrived. None of it holds of a doubtful delivery,
so each step keeps who may not become doubtful by it.

*The state machine.* `OutcomesAreFinal` needs what `derive_post_status` makes of any set
of statuses (`AggregateIsOf`): the only one there is, "partially published" of the two
outcomes, or a status that is no outcome, because the order of the workflow puts all of
these before the outcomes (`Ranks`). A published row in the set then leaves no other
way for the aggregate than an open row.

*Approvals.* What a request loaded allows its decision (`RequestFits`), so a child it
moves is on its course unless somebody has moved it since; `StagesFit` counts the
approvals of a child that is with the client, or approved.

*Recurrences.* A run's list may have become old: between two clones the rule, the day
of the source or a clone may change, and another run may begin. `TodoFits` says of a
date that a run has still to clone that, unless it is excused, it has no clone and is
in no other list, and `GeneratedFits` that the clone of a generated date is still
recognised by the next run. The run's list is a set of numbers, whose smallest is
next, for the sake of the proof: the provers know nothing of a filtered sequence.

*Ideas.* Nothing locks a column between being found empty and being deleted, so
`DropsFit` lists who can be in it by then: ideas that strayed into it. That nothing has
an id that was not given out (`IdsAreUsed`) keeps a new column or idea from being one
that a request in progress has in hand.

*Folders.* There is no order in the state by which to say that the folders form no
circle. The invariant says that there is a ranking of them, by natural numbers, in
which whatever is above a folder, or was when a deletion in progress loaded it, comes
before it (`FoldersRanked`): a new folder is ranked after its parent, and moves keep
the ranking. What is under an emptied folder came late (`EmptiedFits`), and the
cascade reaches no further than what is under that (`CascadeIsLeast`). `FoldersLow`
adds the depth: unless deletions have overlapped, one is in progress at most, its folder
is still under the parent it loaded, so that what it moves goes up a level, and a parent
in which a request is about to create a folder still has room below it.

*Feeds.* `PagesMatchTheirFeeds` speaks of pages that are shown. `FeedsInv` adds the
two places their events come from: the page that is about to store what it has
fetched, and the cache entry, whose events cover the feeds of its signature. A page
takes the entry only if the signature is the set of feeds it listed.

*CSV import.* Unless requests overlapped or one was cut, the import is alone with
the session, the rows it has not come to are no posts, the file an open page would
import again is one that was not imported, and each row is a post at most once
(`CsvInv`).

*Composer.* The list of pending media is shared by all pages of the browser, so
`ComposerInv` follows it: between requests the session's list is that of the page
opened last; a request in progress is the only one and carries that list; all of it
was put into the page, and what was put into the page is in it or on a post of the
page (`ListFits`). Two facts make removal inductive: a page that knows of its post
has an empty list, and a page opened on a new post has nothing of the shared library
on a post (`NewPostsDropShared`), so that removing such a thumbnail, which leaves
the posts alone, leaves none behind.

*Media library.* `SentWithItsMedia` speaks of posts that were sent. `PostFits` says of
one that is going to be sent that what it uses is what was planned, and that each of
these assets is whole (the file it serves and those of all its versions, which a
restore may go back to, are in the storage) and spared (no deletion that has looked
for posts has it in hand): `Protected` keeps deletions that look later away. The
attempt to prove it showed that a deletion that stops half-way can leave an asset
whose own file is there and a version's is not, so that a restore after the post was
scheduled fails it; `Deleting`, which says what the property excuses, covers such
assets. For the quota, `QuotaFits` counts what is stored and what has been let in.

*Analytics.* While the hourly run is at the posts, each one it is for is fresh, missed
or still to be looked at (`AnalyticsInv`); a post younger than the horizon has an
interval because the ladder has a first rung above its age (`LadderFits`, by the
least-number principle).

*Calendar.* `CalendarIsTrue` speaks of queues that are settled. `WriteFits` says of a
recalculation that is alone that its list is the queue in order and that each child it
has come to has the slot of its place; `LeftFits`, that the queues it has still to come
to are not of the channels of settled queues, so that what it writes disturbs none;
`AloneFits`, that nobody else is in progress. When the list is written, the order of the
places is that of the times, because slot number j, if there is one, comes after slot
number i for every i < j (`NthInOrder`, which counts the slots before a slot: by
cardinalities and the least-number principle). The attempt to prove it showed
that the property, as it was stated, depended on the bound of the run: a chip dragged
during a recalculation that no other request had met was not counted as a meeting, and
with one request more the queue ended out of order. A drag is now a meeting, like any
other write of the times. That no chip falls off the page is arithmetic over the two
zones (`DaysAreNear`).

*Team.* `Fits` says what each request and task knows between its statements: an
acceptance holds an invitation that is still there, the last owner is counted before
a removal, a demotion or a closing goes on, a removal empties the workspace first, and
whoever is being seated without belonging is excused by a removal that met the
admission. Counting the owners needs their set to be finite. `ClimbInv` says that,
until an owner has given somebody a role, no invitation, role change or assignment
in progress leads above a manager of the workspace; administrators are then the
staff of the beginning.

*Keys.* A cache may hold a row that is no longer the key's only until the change has
waited the time to live, or was stored by a request that had read the row before
(`CachesForget`); a request that was served has met, since it began, the issuer's
permissions it uses (`MeetsTheIssuer`).

*Portal.* Unless two managers serve the client at once, one manager is at work, one
link can be used, and none between the withdrawal of the old one and what follows.
A decision holds the membership that admitted it.

*Connection flows.* A flow that was started never changes: what its callback uses
comes from the nonce, and the pages that are chosen from come from the exchange that
stored them (`RequestsFit`, `ExchangedWhereIssued`). The counter of a link is what
passed less what a concurrent start overwrote (`CountedOnce`).

*Inbox.* A stored message is announced once because the insert decides (`AnnouncedOnce`);
what the poll has read and not stored yet is promised: it is in the list in hand or
in the table (`PromisesAreKept`), and what is missing is newer than what the last
cycle took as newest, unless the inbox was behind (`MissingIsNewest`).

Only model-checked: the liveness properties (`EveryAttemptEnds`,
`DeadTokenIsReported`, `WedgedKeyIsFreed`, `ActivationSettles`, and `DueIsSettled`,
`StalledIsEscalated` and `DeliveryIsSettled`, which are what is left of `PostsAreServed`,
`RemindersEscalate` and `NoticesArrive`) and all that needs ENABLED, which are beyond
the prover. The editors and the books are proved for one engine: with two, the counts
of a row have two threads to answer for, and the runs say what then holds
(`engine_two`).

## 6. What is not modelled

* Workspaces: CRUD on one row. Its race (two managers archive the last two
  workspaces) is listed under the hazards.
* The OAuth server around a third-party library, credentials, settings and accounts
  forms, templates, static files and configuration: no protocol of their own.
* Of the modelled components: reading routes, filters and searches, versions,
  categories and tags, comments, saved replies, custom roles and events, the
  processing of images and videos, the arithmetic of analytics, rendering of
  notifications and their quiet hours, per-minute throttles, audit log, the JSON-RPC
  framing of MCP, the derivation of tokens. `PROJECT.json` gives the reason for each.
* `builtin_templates.py` and `intelligence/views.py` hold long tables of texts and
  display pages, which keep no state.
