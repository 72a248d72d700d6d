--------------------------- MODULE PostLifecycle ---------------------------
(***************************************************************************)
(* The editorial state machine of BrightBean Studio.  A Post owns no       *)
(* status: every PlatformPost (one row per social account) walks through   *)
(* VALID_TRANSITIONS by itself, and Post.status is derived from its        *)
(* children.  The module is the abstract specification of everything that  *)
(* writes PlatformPost.status, and holds the pure aggregation function of  *)
(* apps/composer/status.py.                                                *)
(***************************************************************************)
EXTENDS Integers, Sequences, FiniteSets

CONSTANT Children          \* the PlatformPost rows

VARIABLE status            \* PlatformPost.status per account, "none" without a row

-----------------------------------------------------------------------------

Status == {"draft", "pending_review", "pending_client", "approved",
           "changes_requested", "rejected", "scheduled", "publishing",
           "published", "failed"}

\* Status -> set of statuses transition_to accepts.
VALID_TRANSITIONS ==
  [s \in Status |->
    CASE s = "draft"             -> {"pending_review", "scheduled", "publishing"}
      [] s = "pending_review"    -> {"approved", "changes_requested", "rejected"}
      [] s = "approved"          -> {"pending_client", "scheduled", "publishing", "draft"}
      [] s = "pending_client"    -> {"approved", "changes_requested", "rejected"}
      [] s = "changes_requested" -> {"pending_review", "draft"}
      [] s = "rejected"          -> {"draft", "pending_review"}
      [] s = "scheduled"         -> {"publishing", "draft"}
      [] s = "publishing"        -> {"published", "failed", "scheduled"}
      [] s = "failed"            -> {"publishing", "draft", "scheduled"}
      [] s = "published"         -> {}]

CanTransition(s, t) == t \in VALID_TRANSITIONS[s]

\* Rows are created in one of these (create_post, _sync_platform_posts).
INITIAL_STATUSES == {"draft", "scheduled"}

\* Mutant: only the row in progress is protected.
ProtectInProgressOnly == {"publishing"}

\* Rows no accidental deletion path may remove.
PROTECTED_STATUSES == {"published", "publishing"}

-----------------------------------------------------------------------------
(* Post.status: the aggregate of a set of child statuses.  The Python       *)
(* function takes an iterable; only its set of distinct values is used.     *)

WORKFLOW_ORDER == <<"draft", "changes_requested", "rejected", "pending_review",
                    "pending_client", "approved", "scheduled", "publishing",
                    "partially_published", "published">>

TERMINAL == {"published", "failed"}

\* Unknown values ("failed" is one) rank after every listed one.
Rank(s) == IF \E i \in DOMAIN WORKFLOW_ORDER : WORKFLOW_ORDER[i] = s
           THEN CHOOSE i \in DOMAIN WORKFLOW_ORDER : WORKFLOW_ORDER[i] = s
           ELSE Len(WORKFLOW_ORDER) + 1

DerivePostStatus(S) ==
  IF S = {} THEN "draft"
  ELSE IF Cardinality(S) = 1 THEN CHOOSE s \in S : TRUE
  ELSE IF S \subseteq TERMINAL THEN "partially_published"
  ELSE CHOOSE s \in S : \A t \in S : Rank(s) <= Rank(t)

Rows == {c \in Children : status[c] # "none"}

PostStatus == DerivePostStatus({status[c] : c \in Rows})

-----------------------------------------------------------------------------

Init == status \in [Children -> INITIAL_STATUSES \union {"none"}]

\* The status the rows R take, all in one statement, from the function target.
Write(R, target) ==
  status' = [c \in Children |-> IF c \in R THEN target[c] ELSE status[c]]

\* One writer's step: some rows move along the state machine, together (the
\* engine claims every due row of a post in one UPDATE).
Transition ==
  \E R \in (SUBSET Rows) \ {{}} : \E target \in [R -> Status] :
    /\ \A c \in R : CanTransition(status[c], target[c])
    /\ Write(R, target)

\* The composer adds an account to the post.
SelectAccount(c) ==
  /\ c \notin Rows
  /\ \E s \in INITIAL_STATUSES : Write({c}, [r \in {c} |-> s])

\* The composer form no longer selects the accounts of R: their rows are
\* deleted, except those whose status protects them.
RemoveDeselected(R) ==
  Write({c \in R \intersect Rows : status[c] \notin PROTECTED_STATUSES},
        [c \in Children |-> "none"])

Next ==
  \/ Transition
  \/ \E c \in Children : SelectAccount(c)
  \/ \E R \in SUBSET Children : RemoveDeselected(R)

Spec == Init /\ [][Next]_status

-----------------------------------------------------------------------------

TypeOK == status \in [Children -> Status \union {"none"}]

\* A published row is history: no transition leaves it ("published": set(),
\* # terminal) and no deselection removes it (PROTECTED_STATUSES).
PublishedIsTerminal ==
  [][\A c \in Children : status[c] = "published" => status'[c] = "published"]_status

\* The aggregate never claims more than the children did: a post is shown as
\* published or partially published only when every child has a publishing
\* outcome and one was published, and as failed only when all of them failed
\* (derive_post_status, the three "all terminal" rules).
AggregateOutcomeIsFinal ==
  /\ PostStatus \in {"published", "partially_published"} =>
       /\ \A c \in Rows : status[c] \in TERMINAL
       /\ \E c \in Rows : status[c] = "published"
  /\ PostStatus = "failed" => \A c \in Rows : status[c] = "failed"

\* A post once shown as (partially) published is never shown as failed or as an
\* untouched draft afterwards: it leaves the two outcomes only for a child that
\* is being worked on again (derive_post_status over every step of the state
\* machine and every composer save).
AggregateReopensOnlyForOpenChild ==
  [][\/ PostStatus \notin {"published", "partially_published"}
     \/ PostStatus' \in {"published", "partially_published"}
     \/ \E c \in Children : status'[c] = PostStatus' /\ status'[c] \notin TERMINAL
    ]_status

\* Outcomes are final: a child's when it is published, a post's as long as no child
\* is worked on again.
OutcomesAreFinal ==
  []AggregateOutcomeIsFinal /\ PublishedIsTerminal /\ AggregateReopensOnlyForOpenChild
=============================================================================
