----------------------------- MODULE Approvals -----------------------------
(***************************************************************************)
(* Editorial decisions on the accounts of one post: submission, internal   *)
(* and client approval, changes, rejection (approvals/services.py), the    *)
(* chip menu and the schedule button of the composer, and the publication  *)
(* that follows.  A decision loads the children before its transaction and *)
(* saves those it moves without a lock, so it may write over what others   *)
(* did in between.                                                         *)
(***************************************************************************)
EXTENDS Naturals, FiniteSets

CONSTANTS
    Channels,   \* the accounts of the post
    Deciders,   \* requests that can be in progress together
    Modes,      \* approval_workflow_mode of the workspace
    MaxMoves    \* bound: decisions and chip changes that take effect

ASSUME ApprovalsAssumption ==
    /\ Modes \subseteq {"none", "optional", "required_internal", "required_internal_and_client"}
    /\ MaxMoves \in Nat

VARIABLES
    workflow,   \* the mode
    chip,       \* PlatformPost.status
    desk,       \* the requests in progress: what they do and the children they loaded
    moves,
    stages,     \* history: approvals of a child since its last submission, at most 2
    astray      \* history: a child was moved since then by a stale save or past the services

ApprovalVars == <<workflow, chip, desk, moves, stages, astray>>

Lifecycle == INSTANCE PostLifecycle WITH Children <- Channels, status <- chip

CanMove(s, t) == Lifecycle!CanTransition(s, t)
NoRequestYet == [does |-> "idle"]
TwoStage == workflow = "required_internal_and_client"

-----------------------------------------------------------------------------
(* The services.  Each is a record: the statuses of the children it is for, *)
(* what it makes of a status, and what it adds to the history.              *)

MovedTo(s, t) == IF CanMove(s, t) THEN t ELSE s

submit_for_review ==
    [from |-> {"draft", "changes_requested", "rejected"},
     to |-> [s \in Lifecycle!Status |-> MovedTo(s, "pending_review")]]

resubmit_post ==
    [from |-> {"changes_requested", "rejected"},
     to |-> [s \in Lifecycle!Status |-> MovedTo(s, "pending_review")]]

\* Mutant: the review and the client's sign-off are one stage.
MutantApproved(s) == MovedTo(s, "approved")

\* Out of the internal review a child hops on to the client, in the same transaction.
Approved(s) ==
    IF TwoStage /\ s = "pending_review" THEN "pending_client" ELSE MovedTo(s, "approved")

approve_post ==
    [from |-> {"pending_review", "pending_client", "draft", "rejected", "changes_requested"},
     to |-> [s \in Lifecycle!Status |-> Approved(s)]]

request_changes ==
    [from |-> {"pending_review", "pending_client"},
     to |-> [s \in Lifecycle!Status |-> MovedTo(s, "changes_requested")]]

reject_post ==
    [from |-> {"pending_review", "pending_client"},
     to |-> [s \in Lifecycle!Status |-> MovedTo(s, "rejected")]]

Services ==
    [submit |-> submit_for_review, resubmit |-> resubmit_post,
     approve |-> approve_post, changes |-> request_changes, reject |-> reject_post]
Submissions == {"submit", "resubmit"}
Decisions == {"approve", "changes", "reject"}

-----------------------------------------------------------------------------
(* Requests *)

\* _resolve_targets: the children a bundled decision is for, as they are now.
Loaded(service) == [c \in {b \in Channels : chip[b] \in service.from} |-> chip[c]]

Begin(d, request) ==
    /\ desk[d] = NoRequestYet
    /\ moves < MaxMoves
    /\ desk' = [desk EXCEPT ![d] = request]
    /\ UNCHANGED <<workflow, chip, moves, stages, astray>>

\* The composer's submit and resubmit buttons.
SubmitRequest(d) ==
    \E n \in Submissions : Begin(d, [does |-> n, loaded |-> Loaded(Services[n])])

\* The approval queue: any post of the workspace.
ReviewerRequest(d) ==
    \E n \in Decisions : Begin(d, [does |-> n, loaded |-> Loaded(Services[n])])

\* The bulk buttons: only posts with a child that waits.
BulkRequest(d) ==
    /\ \E c \in Channels : chip[c] \in {"pending_review", "pending_client"}
    /\ \E n \in {"approve", "reject"} : Begin(d, [does |-> n, loaded |-> Loaded(Services[n])])

\* The client portal: only posts with a child that waits for the client.
PortalRequest(d, n) ==
    /\ \E c \in Channels : chip[c] = "pending_client"
    /\ Begin(d, [does |-> n, loaded |-> Loaded(Services[n])])

PortalApprove(d) == PortalRequest(d, "approve")
PortalRequestChanges(d) == PortalRequest(d, "changes")
PortalReject(d) == PortalRequest(d, "reject")

\* The chip menu loads one child and the status asked for.
LoadChip(d) ==
    \E c \in Channels, t \in Lifecycle!Status :
        /\ CanMove(chip[c], t)
        /\ Begin(d, [does |-> "chip", target |-> t, loaded |-> [b \in {c} |-> chip[c]]])

\* The children that move take their new status, whatever they have become.
Save(d, target) ==
    /\ chip' = [c \in Channels |-> IF c \in DOMAIN target THEN target[c] ELSE chip[c]]
    /\ moves' = moves + 1
    /\ desk' = [desk EXCEPT ![d] = NoRequestYet]

Stale(d, c) == chip[c] # desk[d].loaded[c]

\* The children a decision moves, and where to; those it may not move it skips.
Moved(q) ==
    LET to == Services[q.does].to
    IN [c \in {b \in DOMAIN q.loaded : to[q.loaded[b]] # q.loaded[b]} |-> to[q.loaded[c]]]

\* The transaction of a decision.
Decide(d) ==
    LET q == desk[d]
        target == Moved(q)
        afresh == q.does \in Submissions
    IN /\ q.does \in DOMAIN Services
       /\ IF DOMAIN target = {}
            THEN desk' = [desk EXCEPT ![d] = NoRequestYet] /\ UNCHANGED <<chip, moves, stages, astray>>
            ELSE /\ Save(d, target)
                 /\ stages' = [c \in Channels |->
                      IF c \notin DOMAIN target THEN stages[c]
                      ELSE IF afresh THEN 0
                      ELSE IF q.does = "approve" /\ stages[c] < 2 THEN stages[c] + 1 ELSE stages[c]]
                 /\ astray' = [c \in Channels |->
                      IF c \notin DOMAIN target THEN astray[c]
                      ELSE Stale(d, c) \/ (astray[c] /\ ~afresh)]
       /\ UNCHANGED workflow

\* The chip menu's save: no gate, no entry in the log of decisions.
SaveChip(d) ==
    LET q == desk[d] IN
    /\ q.does = "chip"
    /\ Save(d, [c \in DOMAIN q.loaded |-> q.target])
    /\ astray' = [c \in Channels |-> astray[c] \/ c \in DOMAIN q.loaded]
    /\ UNCHANGED <<workflow, stages>>

\* What the schedule button makes of a status: a move, a move by way of draft, or nothing.
ViaDraft(s, t) ==
    IF CanMove(s, t) \/ (CanMove(s, "draft") /\ CanMove("draft", t)) THEN t ELSE s

\* The composer schedules the post: each child is loaded and saved by itself.
ScheduleChild ==
    \E c \in Channels :
        /\ ViaDraft(chip[c], "scheduled") # chip[c]
        /\ chip' = [chip EXCEPT ![c] = "scheduled"]
        /\ astray' = [astray EXCEPT ![c] = TRUE]
        /\ UNCHANGED <<workflow, desk, moves, stages>>

\* schedule_draft and the schedule route, behind the gate.
Gated == workflow \in {"required_internal", "required_internal_and_client"}

ApiSchedule ==
    \E c \in Channels :
        /\ ~Gated
        /\ CanMove(chip[c], "scheduled")
        /\ chip' = [chip EXCEPT ![c] = "scheduled"]
        /\ astray' = [astray EXCEPT ![c] = TRUE]
        /\ UNCHANGED <<workflow, desk, moves, stages>>

\* The engine.
Publish ==
    \E c \in Channels :
        /\ \/ chip[c] = "scheduled" /\ chip' = [chip EXCEPT ![c] = "publishing"]
           \/ /\ chip[c] = "publishing"
              /\ \E t \in {"published", "failed"} : chip' = [chip EXCEPT ![c] = t]
        /\ UNCHANGED <<workflow, desk, moves, stages, astray>>

ApprovalsInit ==
    /\ workflow \in Modes
    /\ chip = [c \in Channels |-> "draft"]
    /\ desk = [d \in Deciders |-> NoRequestYet]
    /\ moves = 0
    /\ stages = [c \in Channels |-> 0]
    /\ astray = [c \in Channels |-> FALSE]

ApprovalsNext ==
    \/ \E d \in Deciders :
         \/ SubmitRequest(d) \/ ReviewerRequest(d) \/ BulkRequest(d)
         \/ PortalApprove(d) \/ PortalRequestChanges(d) \/ PortalReject(d) \/ LoadChip(d)
         \/ Decide(d) \/ SaveChip(d)
    \/ ScheduleChild \/ ApiSchedule \/ Publish

ApprovalsSpec == ApprovalsInit /\ [][ApprovalsNext]_ApprovalVars

-----------------------------------------------------------------------------
\* Chips have statuses of the state machine, whoever assigns them.
ApprovalsTypeOK ==
    /\ chip \in [Channels -> Lifecycle!Status]
    /\ stages \in [Channels -> 0..2]

\* Through the services a post of a two-stage workspace is approved by two
\* approvals after its last submission, whoever submits, decides and resubmits
\* at the same time; only a decision on an outdated child, or the composer's
\* own buttons, shorten the way.
TwoStagesBeforeApproval ==
    \A c \in Channels :
        TwoStage /\ chip[c] = "approved" /\ ~astray[c] => stages[c] >= 2

\* A child follows the state machine, where an approval in two stages passes
\* through "approved" and a schedule through "draft", unless the request that
\* moves it had loaded it before somebody else moved it.
LegalUnlessStale ==
    [][\A c \in Channels : chip'[c] # chip[c] =>
          \/ CanMove(chip[c], chip'[c])
          \/ CanMove(chip[c], "approved") /\ chip'[c] = "pending_client"
          \/ CanMove(chip[c], "draft") /\ chip'[c] = "scheduled"
          \/ \E d \in Deciders : /\ desk'[d] = NoRequestYet /\ desk[d] # NoRequestYet
                                 /\ c \in DOMAIN desk[d].loaded /\ Stale(d, c)]_ApprovalVars

\* "The gate belongs here so EVERY path that promotes a draft to scheduled ...
\* is covered" (composer/services.py): where approval is required, no draft is
\* scheduled.
GateCoversEveryPath ==
    [][Gated => \A c \in Channels : ~(chip[c] = "draft" /\ chip'[c] = "scheduled")]_ApprovalVars

\* Approvals go through their stages, and every other change along the state machine.
ApprovalsTakeTheirCourse ==
    [](ApprovalsTypeOK /\ TwoStagesBeforeApproval) /\ LegalUnlessStale
=============================================================================
