------------------------------ MODULE Dispatch ------------------------------
(***************************************************************************)
(* What the publishing engine may assume of a provider's publish_post:     *)
(* an attempt either puts one copy of the post on the platform and says    *)
(* so, or puts none there and raises, or puts one there and loses the      *)
(* reply to that very call.  Providers.tla implements this.                *)
(***************************************************************************)
EXTENDS Naturals

VARIABLES
    state,     \* where the attempt is
    copies,    \* history: copies of the post on the platform
    doubtful   \* history: copies whose reply was lost

DispatchVars == <<state, copies, doubtful>>

States == {"idle", "calling", "accepted", "published", "retry", "failed"}

DispatchTypeOK ==
    /\ state \in States
    /\ copies \in Nat
    /\ doubtful \in Nat

DispatchInit ==
    /\ state = "idle"
    /\ copies = 0
    /\ doubtful = 0

Begin ==
    /\ state \in {"idle", "retry"}
    /\ state' = "calling"
    /\ UNCHANGED <<copies, doubtful>>

Accept ==
    /\ state = "calling"
    /\ state' = "accepted"
    /\ copies' = copies + 1
    /\ UNCHANGED doubtful

\* Once a copy is on the platform the attempt can only end well.
Succeed ==
    /\ state = "accepted"
    /\ state' = "published"
    /\ UNCHANGED <<copies, doubtful>>

Refuse ==
    /\ state = "calling"
    /\ state' \in {"retry", "failed"}
    /\ UNCHANGED <<copies, doubtful>>

LoseReply ==
    /\ state = "calling"
    /\ state' \in {"retry", "failed"}
    /\ copies' = copies + 1
    /\ doubtful' = doubtful + 1

DispatchNext == Begin \/ Accept \/ Succeed \/ Refuse \/ LoseReply

DispatchSpec == DispatchInit /\ [][DispatchNext]_DispatchVars

(* An attempt does not go on for ever.                                     *)
AttemptsEnd == state = "calling" ~> state # "calling"

(* The copies on the platform are those whose reply was lost, and one more *)
(* exactly when the attempt has been accepted: what the engine records as  *)
(* published is there, once per lost reply more at most.                   *)
CopiesAreAccounted ==
    copies = doubtful + (IF state \in {"accepted", "published"} THEN 1 ELSE 0)
=============================================================================
