----------------------------- MODULE Governance -----------------------------
(***************************************************************************)
(* The deployment lifecycle (DeploymentService) and the review of          *)
(* overrides and approval requests (GovernanceService).                    *)
(*                                                                         *)
(* Every request has a database session and a transaction of its own: it   *)
(* loads the row without a lock, decides by what it loaded, loads the row  *)
(* again to update it (the first load left a dict, and the session's       *)
(* identity map is weak), sends the columns that change under the row lock *)
(* the UPDATE takes, and commits the row together with its trail.          *)
(* Requests of other workers run between any two of these steps.           *)
(* The UPDATEs of a request that moves through two states happen under one *)
(* lock and are seen together: they are one step here.                     *)
(***************************************************************************)
CONSTANTS
    Sessions,    \* requests that can be under way together
    Deployments,
    Reviews,     \* overrides and approval requests
    Users,
    None

ASSUME RowsAssumption == Deployments \cap Reviews = {}
ASSUME NoneAssumption == None \notin Sessions \cup Deployments \cup Reviews \cup Users

VARIABLES
    state,     \* committed state or status of a row; None before its insert
    reviewer,  \* committed reviewer_id of a review
    submitter, \* submitter_id, requested_by
    trail,     \* committed deployment_transitions
    audit,     \* committed override.reviewed, approval.approved/rejected events
    lock,      \* session that has written the row and not committed
    step,      \* where the request of a session stands
    row,       \* the row it is about
    op,        \* what it is to do with the row
    actor,     \* the reviewer who asks
    seen,      \* the state it was loaded with, by which a transition is validated
    fresh      \* the row as the update loaded it

tables == <<state, reviewer, submitter, trail, audit>>
request == <<step, row, op, actor, seen, fresh>>
vars == <<tables, lock, request>>

Rows == Deployments \cup Reviews

DeploymentState ==
    {"created", "pending_approval", "approved", "activating", "active", "frozen",
     "deactivating", "deactivated", "rolled_back", "failed"}

Decisions == {"approved", "rejected"}
Status == Decisions \cup {"pending"}

ASSUME NoStateAssumption == None \notin DeploymentState \cup Status

DeploymentTransitions ==
    [x \in DeploymentState |->
        CASE x = "created"            -> {"pending_approval", "failed"}
          [] x = "pending_approval"   -> {"approved", "failed"}
          [] x = "approved"           -> {"activating", "failed"}
          [] x = "activating"         -> {"active", "failed"}
          [] x = "active"             -> {"frozen", "deactivating", "rolled_back", "failed"}
          [] x = "frozen"             -> {"active", "deactivating", "rolled_back", "failed"}
          [] x = "deactivating"       -> {"deactivated", "failed"}
          [] OTHER                    -> {}]

Operations ==
    {"submit_for_approval", "approve", "activate", "freeze", "unfreeze", "deactivate", "rollback"}

\* The state an operation moves a deployment to, and the one it leaves it in:
\* activation and deactivation are two transitions.
FirstTarget ==
    [o \in Operations |->
        CASE o = "submit_for_approval" -> "pending_approval"
          [] o = "approve"             -> "approved"
          [] o = "activate"            -> "activating"
          [] o = "freeze"              -> "frozen"
          [] o = "unfreeze"            -> "active"
          [] o = "deactivate"          -> "deactivating"
          [] o = "rollback"            -> "rolled_back"]

\* Mutant: activation ends in a state that is none of the table's.
FinalTargetActivated ==
    [FirstTarget EXCEPT !["activate"] = "activated", !["deactivate"] = "deactivated"]

FinalTarget ==
    [FirstTarget EXCEPT !["activate"] = "active", !["deactivate"] = "deactivated"]

Transition == [from : DeploymentState, to : DeploymentState]
Event == [status : Decisions, by : Users]
Loaded == [state : DeploymentState \cup Status, reviewer : Users \cup {None}]

TypeOK ==
    /\ state \in [Rows -> DeploymentState \cup Status \cup {None}]
    /\ reviewer \in [Reviews -> Users \cup {None}]
    /\ submitter \in [Reviews -> Users \cup {None}]
    /\ trail \in [Deployments -> SUBSET Transition]
    /\ audit \in [Reviews -> SUBSET Event]
    /\ lock \in [Rows -> Sessions \cup {None}]
    /\ step \in [Sessions -> {"idle", "loaded", "updating", "written"}]
    /\ row \in [Sessions -> Rows \cup {None}]
    /\ op \in [Sessions -> Operations \cup Decisions \cup {None}]
    /\ actor \in [Sessions -> Users \cup {None}]
    /\ seen \in [Sessions -> DeploymentState \cup {None}]
    /\ fresh \in [Sessions -> Loaded \cup {None}]

Init ==
    /\ state = [r \in Rows |-> None]
    /\ reviewer = [v \in Reviews |-> None]
    /\ submitter = [v \in Reviews |-> None]
    /\ trail = [d \in Deployments |-> {}]
    /\ audit = [v \in Reviews |-> {}]
    /\ lock = [r \in Rows |-> None]
    /\ step = [s \in Sessions |-> "idle"]
    /\ row = [s \in Sessions |-> None]
    /\ op = [s \in Sessions |-> None]
    /\ actor = [s \in Sessions |-> None]
    /\ seen = [s \in Sessions |-> None]
    /\ fresh = [s \in Sessions |-> None]

-----------------------------------------------------------------------------

\* create_deployment, paper or live: one INSERT.
CreateDeployment(d) ==
    /\ state[d] = None
    /\ state' = [state EXCEPT ![d] = "created"]
    /\ UNCHANGED <<reviewer, submitter, trail, audit, lock, request>>

\* submit_override: one INSERT.  Approval requests are inserted outside the API.
Submit(v, u) ==
    /\ state[v] = None
    /\ state' = [state EXCEPT ![v] = "pending"]
    /\ submitter' = [submitter EXCEPT ![v] = u]
    /\ UNCHANGED <<reviewer, trail, audit, lock, request>>

\* What a SELECT of the row returns.
Record(r) == [state |-> state[r], reviewer |-> IF r \in Reviews THEN reviewer[r] ELSE None]

\* get_by_id, or NotFoundError.  Of a review only the submitter is used, which
\* never changes.
Load(s, r, o, u) ==
    /\ step[s] = "idle" /\ state[r] # None
    /\ step' = [step EXCEPT ![s] = "loaded"]
    /\ row' = [row EXCEPT ![s] = r]
    /\ op' = [op EXCEPT ![s] = o]
    /\ actor' = [actor EXCEPT ![s] = u]
    /\ seen' = [seen EXCEPT ![s] = IF r \in Deployments THEN state[r] ELSE None]
    /\ UNCHANGED <<tables, lock, fresh>>

\* The session is closed, its locks are released.
End(s) ==
    /\ lock' = [r \in Rows |-> IF lock[r] = s THEN None ELSE lock[r]]
    /\ step' = [step EXCEPT ![s] = "idle"]
    /\ row' = [row EXCEPT ![s] = None]
    /\ op' = [op EXCEPT ![s] = None]
    /\ actor' = [actor EXCEPT ![s] = None]
    /\ seen' = [seen EXCEPT ![s] = None]
    /\ fresh' = [fresh EXCEPT ![s] = None]

\* Mutant: the target state is not looked up in the transitions.
MayTransitionAnyhow(s) == row[s] \in Deployments

\* _transition, by the state that was loaded.
MayTransition(s) ==
    /\ row[s] \in Deployments
    /\ FirstTarget[op[s]] \in DeploymentTransitions[seen[s]]

\* Mutant: the reviewer is not compared with the submitter.
MayDecideAnyhow(s) == row[s] \in Reviews

\* Separation of duties.  Nobody asks whether the review is still pending.
MayDecide(s) == row[s] \in Reviews /\ actor[s] # submitter[row[s]]

\* update_state or update_decision loads the row, still without a lock ...
Reload(s) ==
    /\ step[s] = "loaded"
    /\ MayTransition(s) \/ MayDecide(s)
    /\ fresh' = [fresh EXCEPT ![s] = Record(row[s])]
    /\ step' = [step EXCEPT ![s] = "updating"]
    /\ UNCHANGED <<tables, lock, row, op, actor, seen>>

\* ... and flushes it: the UPDATE waits for the row lock.
Write(s) ==
    /\ step[s] = "updating"
    /\ lock[row[s]] = None
    /\ lock' = [lock EXCEPT ![row[s]] = s]
    /\ step' = [step EXCEPT ![s] = "written"]
    /\ UNCHANGED <<tables, row, op, actor, seen, fresh>>

\* StateTransitionError, SeparationOfDutiesError, a failed statement, a
\* statement timeout at the lock or the end of the process: all is rolled back.
Abort(s) ==
    /\ step[s] # "idle"
    /\ End(s)
    /\ UNCHANGED tables

\* Mutant: of an operation that makes two transitions only the last is recorded.
RecordedLast(s) ==
    LET first == FirstTarget[op[s]]
        final == FinalTarget[op[s]] IN
    {[from |-> IF first = final THEN seen[s] ELSE first, to |-> final]}

\* The transitions a request records: the first from the state it loaded.
Recorded(s) ==
    LET first == FirstTarget[op[s]]
        final == FinalTarget[op[s]] IN
    {[from |-> seen[s], to |-> first]}
        \cup (IF first = final THEN {} ELSE {[from |-> first, to |-> final]})

\* update_state and record_transition of every target are committed.  An UPDATE
\* leaves out a state that the row had already when it was loaded for it; the
\* second of two sees the row under the lock and ends where it should.
CommitTransition(s) ==
    /\ step[s] = "written" /\ row[s] \in Deployments
    /\ state' = [state EXCEPT ![row[s]] =
                    IF fresh[s].state = FinalTarget[op[s]] /\ FirstTarget[op[s]] = FinalTarget[op[s]]
                    THEN @ ELSE FinalTarget[op[s]]]
    /\ trail' = [trail EXCEPT ![row[s]] = @ \cup Recorded(s)]
    /\ End(s)
    /\ UNCHANGED <<reviewer, submitter, audit>>

\* update_decision and the audit event are committed.  The UPDATE has only the
\* columns that differ from what was loaded for it: the others keep what a
\* request in between has made of them.
CommitDecision(s) ==
    /\ step[s] = "written" /\ row[s] \in Reviews
    /\ state' = [state EXCEPT ![row[s]] = IF op[s] = fresh[s].state THEN @ ELSE op[s]]
    /\ reviewer' = [reviewer EXCEPT ![row[s]] =
                       IF actor[s] = fresh[s].reviewer THEN @ ELSE actor[s]]
    /\ audit' = [audit EXCEPT ![row[s]] = @ \cup {[status |-> op[s], by |-> actor[s]]}]
    /\ End(s)
    /\ UNCHANGED <<submitter, trail>>

Next ==
    \/ \E d \in Deployments : CreateDeployment(d)
    \/ \E v \in Reviews, u \in Users : Submit(v, u)
    \/ \E s \in Sessions :
          \/ \E d \in Deployments, o \in Operations : Load(s, d, o, None)
          \/ \E v \in Reviews, o \in Decisions, u \in Users : Load(s, v, o, u)
          \/ Reload(s) \/ Write(s) \/ Abort(s) \/ CommitTransition(s) \/ CommitDecision(s)

Spec == Init /\ [][Next]_vars

-----------------------------------------------------------------------------
(* Properties *)

\* States of a deployment that has been started.
Started == {"activating", "active", "frozen", "deactivating", "deactivated", "rolled_back"}

\* A deployment that was ever started has its approval on record, although the
\* service decides by a state that other requests may have changed since, and
\* writes its own over theirs.
StartedWasApproved ==
    \A d \in Deployments :
        state[d] \in Started => [from |-> "pending_approval", to |-> "approved"] \in trail[d]

\* A transition to x is recorded.  An unfreeze does not count: it goes back to
\* a state that the deployment must have had before.
Reached(d, x) ==
    \/ x = "created"
    \/ \E t \in trail[d] : t.to = x /\ t # [from |-> "frozen", to |-> "active"]

\* The history of a deployment explains the state it is in: its transitions are
\* legal, each starts in a state that an earlier one reached, and so is the
\* present state.  A request that decides by a state others have left since
\* branches off the path from created; none leaves it.
TrailIsPath ==
    \A d \in Deployments :
        /\ state[d] # None => Reached(d, state[d])
        /\ \A t \in trail[d] : t.to \in DeploymentTransitions[t.from] /\ Reached(d, t.from)

\* A review has the status that somebody other than its submitter gave it, and
\* names a reviewer other than its submitter who decided it.  (The two need not
\* be the same: a session that changes only one of the columns leaves the other
\* as a concurrent reviewer wrote it.)
DecidedBySecondPerson ==
    \A v \in Reviews :
        state[v] \in Decisions =>
            /\ \E e \in audit[v] : e.status = state[v] /\ e.by # submitter[v]
            /\ \E e \in audit[v] : e.by = reviewer[v] /\ e.by # submitter[v]
=============================================================================
