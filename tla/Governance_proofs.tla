------------------------- MODULE Governance_proofs -------------------------
(***************************************************************************)
(* What the deployment lifecycle and the reviews keep for any number of    *)
(* concurrent requests, rows and users.                                    *)
(***************************************************************************)
EXTENDS Governance, TLAPS

Approval == [from |-> "pending_approval", to |-> "approved"]

\* States and statuses that say a decision has been taken.
Approved == Started \cup {"approved"}

\* What the tables hold, by kind of row.
TableInv ==
    /\ \A d \in Deployments : state[d] \in DeploymentState \cup {None}
    /\ \A v \in Reviews : state[v] \in Status \cup {None}

\* What the variables of a request hold at each step.
RequestInv ==
    \A s \in Sessions :
        step[s] # "idle" =>
            /\ row[s] \in Rows /\ state[row[s]] # None
            /\ row[s] \in Deployments => op[s] \in Operations /\ seen[s] \in DeploymentState
            /\ row[s] \in Reviews => op[s] \in Decisions /\ actor[s] \in Users
            /\ step[s] \in {"updating", "written"} =>
                  /\ MayTransition(s) \/ MayDecide(s)
                  /\ fresh[s] \in Loaded
                  /\ row[s] \in Reviews => fresh[s].state \in Status

\* Whatever state a request has loaded, the trail explains it: the trail only
\* grows, so it still does when the request writes.
ApprovalInv ==
    /\ \A d \in Deployments : state[d] \in Approved => Approval \in trail[d]
    /\ \A s \in Sessions :
          step[s] # "idle" /\ row[s] \in Deployments /\ seen[s] \in Approved =>
              Approval \in trail[row[s]]

\* A review that was decided stays decided, and its columns come from events.
ReviewInv ==
    \A v \in Reviews :
        /\ state[v] = None => audit[v] = {}
        /\ \A e \in audit[v] : e.by # submitter[v]
        /\ state[v] \in Decisions => \E e \in audit[v] : e.status = state[v]
        /\ state[v] \in Decisions <=> reviewer[v] # None
        /\ reviewer[v] # None => \E e \in audit[v] : e.by = reviewer[v]

\* What an update has loaded of a review is no newer than the review.
LoadedInv ==
    \A s \in Sessions :
        step[s] \in {"updating", "written"} /\ row[s] \in Reviews =>
            /\ fresh[s].state \in Decisions => state[row[s]] \in Decisions
            /\ fresh[s].reviewer # None => reviewer[row[s]] # None

BasicInv == TypeOK /\ TableInv /\ RequestInv
Inv == BasicInv /\ ApprovalInv /\ ReviewInv /\ LoadedInv

-----------------------------------------------------------------------------

\* DEPLOYMENT_TRANSITIONS and the operations, state by state.
LEMMA Lookup ==
    /\ \A o \in Operations : /\ FirstTarget[o] \in DeploymentState
                             /\ FinalTarget[o] \in DeploymentState
    /\ \A o \in Operations, x \in DeploymentState :
          FirstTarget[o] \in DeploymentTransitions[x] =>
              /\ FinalTarget[o] \in Started => x \in Approved
              /\ FinalTarget[o] = "approved" => x = "pending_approval" /\ FirstTarget[o] = "approved"
<1>1. \A o \in Operations : /\ FirstTarget[o] \in DeploymentState
                            /\ FinalTarget[o] \in DeploymentState
  BY DEF Operations, FirstTarget, FinalTarget, DeploymentState
<1>2. ASSUME NEW o \in Operations, NEW x \in DeploymentState,
             FirstTarget[o] \in DeploymentTransitions[x]
      PROVE  /\ FinalTarget[o] \in Started => x \in Approved
             /\ FinalTarget[o] = "approved" => x = "pending_approval" /\ FirstTarget[o] = "approved"
  BY <1>2 DEF Operations, FirstTarget, FinalTarget, DeploymentTransitions, DeploymentState,
     Approved, Started
<1> QED
  BY <1>1, <1>2

LEMMA InitInv == Init => Inv
<1> SUFFICES ASSUME Init PROVE Inv
  OBVIOUS
<1>1. TypeOK
  BY DEF Init, TypeOK
<1>2. TableInv /\ RequestInv
  BY DEF Init, TableInv, RequestInv, Rows
<1>3. None \notin Approved /\ None \notin Decisions
  BY NoStateAssumption DEF Approved, Started, Decisions, DeploymentState, Status
<1>4. ApprovalInv /\ ReviewInv /\ LoadedInv
  BY <1>3 DEF Init, ApprovalInv, ReviewInv, LoadedInv, Rows
<1> QED
  BY <1>1, <1>2, <1>4 DEF Inv, BasicInv

-----------------------------------------------------------------------------
(* Requests other than the one that commits *)

\* A step that leaves the tables alone and moves, at most, session s.
LEMMA BasicOfOthers ==
    ASSUME Inv, NEW s \in Sessions, UNCHANGED tables,
           \A q \in Sessions \ {s} :
              /\ step'[q] = step[q] /\ row'[q] = row[q] /\ op'[q] = op[q]
              /\ actor'[q] = actor[q] /\ seen'[q] = seen[q] /\ fresh'[q] = fresh[q],
           step'[s] # "idle" =>
              /\ row'[s] \in Rows /\ state[row'[s]] # None
              /\ row'[s] \in Deployments =>
                    /\ op'[s] \in Operations /\ seen'[s] \in DeploymentState
                    /\ seen'[s] \in Approved => Approval \in trail[row'[s]]
              /\ row'[s] \in Reviews => op'[s] \in Decisions /\ actor'[s] \in Users
              /\ step'[s] \in {"updating", "written"} =>
                    /\ MayTransition(s)' \/ MayDecide(s)'
                    /\ fresh'[s] \in Loaded
                    /\ row'[s] \in Reviews =>
                          /\ fresh'[s].state \in Status
                          /\ fresh'[s].state \in Decisions => state[row'[s]] \in Decisions
                          /\ fresh'[s].reviewer # None => reviewer[row'[s]] # None
    PROVE  TableInv' /\ RequestInv' /\ ApprovalInv' /\ ReviewInv' /\ LoadedInv'
<1> USE DEF Inv, BasicInv, tables
<1>1. TableInv' /\ ReviewInv'
  BY DEF TableInv, ReviewInv
<1>2. ASSUME NEW q \in Sessions, q # s
      PROVE  (MayTransition(q)' <=> MayTransition(q)) /\ (MayDecide(q)' <=> MayDecide(q))
  BY <1>2 DEF MayTransition, MayDecide
<1>3. RequestInv'
  BY <1>2 DEF RequestInv
<1>4. ApprovalInv'
  BY DEF ApprovalInv
<1>5. LoadedInv'
  BY DEF LoadedInv
<1> QED
  BY <1>1, <1>3, <1>4, <1>5

LEMMA LoadKeeps ==
    ASSUME Inv, NEW s \in Sessions, NEW r \in Rows, NEW o, NEW u \in Users \cup {None},
           r \in Deployments => o \in Operations,
           r \in Reviews => o \in Decisions /\ u \in Users,
           Load(s, r, o, u)
    PROVE  Inv'
<1> DEFINE now == IF r \in Deployments THEN state[r] ELSE None
<1>1. state[r] # None /\ now \in DeploymentState \cup {None}
  BY DEF Load, Inv, BasicInv, TableInv
<1>2. /\ step' = [step EXCEPT ![s] = "loaded"] /\ row' = [row EXCEPT ![s] = r]
      /\ op' = [op EXCEPT ![s] = o] /\ actor' = [actor EXCEPT ![s] = u]
      /\ seen' = [seen EXCEPT ![s] = now] /\ UNCHANGED <<tables, lock, fresh>>
  BY DEF Load
<1>3. r \in Deployments => now = state[r]
  OBVIOUS
<1> HIDE DEF now
<1>4. TypeOK'
  BY <1>1, <1>2 DEF Inv, BasicInv, TypeOK, tables, Rows
<1>5. /\ step'[s] = "loaded" /\ row'[s] = r /\ op'[s] = o /\ actor'[s] = u /\ seen'[s] = now
      /\ \A q \in Sessions \ {s} :
            /\ step'[q] = step[q] /\ row'[q] = row[q] /\ op'[q] = op[q]
            /\ actor'[q] = actor[q] /\ seen'[q] = seen[q] /\ fresh'[q] = fresh[q]
  BY <1>2 DEF Inv, BasicInv, TypeOK
<1>6. r \in Deployments => /\ now \in DeploymentState
                           /\ now \in Approved => Approval \in trail[r]
  BY <1>1, <1>3 DEF Inv, BasicInv, TableInv, ApprovalInv
<1> QED
  BY <1>1, <1>2, <1>4, <1>5, <1>6, BasicOfOthers DEF Inv, BasicInv

LEMMA ReloadKeeps ==
    ASSUME Inv, NEW s \in Sessions, Reload(s)
    PROVE  Inv'
<1>0. PICK r \in Rows : row[s] = r /\ state[r] # None /\ step[s] # "idle"
  BY DEF Reload, Inv, BasicInv, RequestInv
<1>1. /\ Record(r) \in Loaded /\ Record(r).state = state[r]
      /\ r \in Reviews => Record(r).reviewer = reviewer[r]
  BY <1>0 DEF Record, Loaded, Inv, BasicInv, TypeOK
<1>2. /\ step' = [step EXCEPT ![s] = "updating"] /\ fresh' = [fresh EXCEPT ![s] = Record(r)]
      /\ UNCHANGED <<tables, lock, row, op, actor, seen>>
  BY <1>0 DEF Reload
<1>3. TypeOK'
  BY <1>1, <1>2 DEF Inv, BasicInv, TypeOK, tables, Rows
<1>4. /\ step'[s] = "updating" /\ fresh'[s] = Record(r)
      /\ \A q \in Sessions \ {s} : step'[q] = step[q] /\ fresh'[q] = fresh[q]
  BY <1>2 DEF Inv, BasicInv, TypeOK
<1>5. MayTransition(s)' \/ MayDecide(s)'
  BY <1>2 DEF Reload, MayTransition, MayDecide, tables
<1>6. r \in Reviews => state[r] \in Status
  BY <1>0 DEF Inv, BasicInv, TableInv
<1> QED
  BY <1>0, <1>1, <1>2, <1>3, <1>4, <1>5, <1>6, BasicOfOthers
  DEF Inv, BasicInv, RequestInv, ApprovalInv

LEMMA WriteKeeps ==
    ASSUME Inv, NEW s \in Sessions, Write(s)
    PROVE  Inv'
<1>1. TypeOK' /\ UNCHANGED tables
  BY DEF Write, Inv, BasicInv, TypeOK, tables, RequestInv
<1>2. /\ step'[s] = "written" /\ row' = row /\ op' = op /\ actor' = actor
      /\ seen' = seen /\ fresh' = fresh
      /\ \A q \in Sessions \ {s} : step'[q] = step[q]
  BY DEF Write, Inv, BasicInv, TypeOK
<1>3. step[s] = "updating"
  BY DEF Write
<1>4. MayTransition(s)' \/ MayDecide(s)'
  BY <1>1, <1>2, <1>3 DEF Inv, BasicInv, RequestInv, MayTransition, MayDecide, tables
<1> QED
  BY <1>1, <1>2, <1>3, <1>4, BasicOfOthers
  DEF Inv, BasicInv, RequestInv, ApprovalInv, LoadedInv

LEMMA EndType ==
    ASSUME TypeOK, NEW s \in Sessions, End(s)
    PROVE  /\ lock' \in [Rows -> Sessions \cup {None}]
           /\ step' \in [Sessions -> {"idle", "loaded", "updating", "written"}]
           /\ row' \in [Sessions -> Rows \cup {None}]
           /\ op' \in [Sessions -> Operations \cup Decisions \cup {None}]
           /\ actor' \in [Sessions -> Users \cup {None}]
           /\ seen' \in [Sessions -> DeploymentState \cup {None}]
           /\ fresh' \in [Sessions -> Loaded \cup {None}]
           /\ step'[s] = "idle"
           /\ \A q \in Sessions \ {s} :
                 /\ step'[q] = step[q] /\ row'[q] = row[q] /\ op'[q] = op[q]
                 /\ actor'[q] = actor[q] /\ seen'[q] = seen[q] /\ fresh'[q] = fresh[q]
BY DEF End, TypeOK

LEMMA AbortKeeps ==
    ASSUME Inv, NEW s \in Sessions, Abort(s)
    PROVE  Inv'
<1>1. TypeOK
  BY DEF Inv, BasicInv
<1>2. TypeOK'
  BY <1>1, EndType DEF Abort, TypeOK, tables
<1> QED
  BY <1>1, <1>2, EndType, BasicOfOthers DEF Abort, Inv, BasicInv

-----------------------------------------------------------------------------
(* Inserts *)

LEMMA CreateKeeps ==
    ASSUME Inv, NEW d \in Deployments, CreateDeployment(d)
    PROVE  Inv'
<1>1. /\ state[d] = None /\ state'[d] = "created" /\ UNCHANGED <<reviewer, submitter, trail, audit, lock, request>>
      /\ \A r \in Rows \ {d} : state'[r] = state[r]
  BY DEF CreateDeployment, Inv, BasicInv, TypeOK, Rows
<1>2. TypeOK'
  BY DEF CreateDeployment, Inv, BasicInv, TypeOK, request, Rows, DeploymentState
<1>3. \A s \in Sessions : step[s] # "idle" => row[s] # d
  BY <1>1 DEF Inv, BasicInv, RequestInv
<1>4. \A v \in Reviews : v \in Rows /\ v # d
  BY RowsAssumption DEF Rows
<1>5. TableInv'
  BY <1>1, <1>4 DEF Inv, BasicInv, TableInv, DeploymentState, Rows
<1>6. \A s \in Sessions : (MayTransition(s)' <=> MayTransition(s)) /\ (MayDecide(s)' <=> MayDecide(s))
  BY <1>1 DEF MayTransition, MayDecide, request
<1>7. RequestInv'
  BY <1>1, <1>3, <1>6 DEF Inv, BasicInv, RequestInv, request
<1>8. ApprovalInv'
  BY <1>1 DEF Inv, BasicInv, ApprovalInv, request, Approved, Started, Rows
<1>9. ReviewInv' /\ LoadedInv'
  BY <1>1, <1>3, <1>4 DEF Inv, BasicInv, ReviewInv, LoadedInv, request
<1> QED
  BY <1>2, <1>5, <1>7, <1>8, <1>9 DEF Inv, BasicInv

LEMMA SubmitKeeps ==
    ASSUME Inv, NEW v \in Reviews, NEW u \in Users, Submit(v, u)
    PROVE  Inv'
<1>1. /\ state[v] = None /\ state'[v] = "pending" /\ UNCHANGED <<reviewer, trail, audit, lock, request>>
      /\ \A r \in Rows \ {v} : state'[r] = state[r]
      /\ \A w \in Reviews \ {v} : submitter'[w] = submitter[w]
  BY DEF Submit, Inv, BasicInv, TypeOK, Rows
<1>2. TypeOK'
  BY DEF Submit, Inv, BasicInv, TypeOK, request, Rows, Status
<1>3. \A s \in Sessions : step[s] # "idle" => row[s] # v
  BY <1>1 DEF Inv, BasicInv, RequestInv
<1>4. \A d \in Deployments : d \in Rows /\ d # v
  BY RowsAssumption DEF Rows
<1>5. TableInv'
  BY <1>1, <1>4 DEF Inv, BasicInv, TableInv, Status, Rows
<1>6. \A s \in Sessions : step[s] # "idle" =>
          (MayTransition(s)' <=> MayTransition(s)) /\ (MayDecide(s)' <=> MayDecide(s))
  BY <1>1, <1>3 DEF MayTransition, MayDecide, request
<1>7. RequestInv'
  BY <1>1, <1>3, <1>6 DEF Inv, BasicInv, RequestInv, request
<1>8. ApprovalInv'
  BY <1>1, <1>4 DEF Inv, BasicInv, ApprovalInv, request
<1>9. ReviewInv'
  <2>1. ASSUME NEW w \in Reviews, w # v PROVE w \in Rows /\ state'[w] = state[w] /\ submitter'[w] = submitter[w]
    BY <1>1, <2>1 DEF Rows
  <2>2. audit[v] = {} /\ reviewer[v] = None
    BY <1>1, NoStateAssumption DEF Inv, ReviewInv, Status
  <2>3. "pending" \notin Decisions /\ "pending" # None
    BY NoStateAssumption DEF Decisions, Status
  <2> QED BY <1>1, <2>1, <2>2, <2>3 DEF Inv, ReviewInv
<1>10. LoadedInv'
  BY <1>1, <1>3 DEF Inv, BasicInv, LoadedInv, RequestInv, request
<1> QED
  BY <1>2, <1>5, <1>7, <1>8, <1>9, <1>10 DEF Inv, BasicInv

-----------------------------------------------------------------------------
(* Commits *)

\* A commit to one row that never empties it and takes nothing from the trail
\* keeps what the other requests have.
LEMMA OthersRequests ==
    ASSUME Inv, NEW s \in Sessions, End(s), submitter' = submitter,
           \A r \in Rows : state[r] # None => state'[r] # None
    PROVE  RequestInv'
<1>1. TypeOK
  BY DEF Inv, BasicInv
<1>2. ASSUME NEW q \in Sessions, q # s
      PROVE  (MayTransition(q)' <=> MayTransition(q)) /\ (MayDecide(q)' <=> MayDecide(q))
  BY <1>1, <1>2, EndType DEF MayTransition, MayDecide
<1> QED
  BY <1>1, <1>2, EndType DEF RequestInv, Inv, BasicInv

LEMMA CommitTransitionKeeps ==
    ASSUME Inv, NEW s \in Sessions, CommitTransition(s)
    PROVE  Inv'
<1>0. PICK D \in Deployments : row[s] = D
  BY DEF CommitTransition
<1>1. /\ TypeOK /\ D \in Rows /\ step[s] = "written" /\ D \notin Reviews
      /\ op[s] \in Operations /\ seen[s] \in DeploymentState
      /\ FirstTarget[op[s]] \in DeploymentTransitions[seen[s]]
  BY <1>0, RowsAssumption
  DEF CommitTransition, Inv, BasicInv, RequestInv, Rows, MayTransition, MayDecide
<1>2. PICK final \in DeploymentState : final = FinalTarget[op[s]]
  BY <1>1, Lookup
<1>3. Recorded(s) \in SUBSET Transition
  BY <1>1, Lookup DEF Recorded, Transition
<1> DEFINE kept == IF fresh[s].state = final /\ FirstTarget[op[s]] = final THEN state[D] ELSE final
<1>4. /\ state' = [state EXCEPT ![D] = kept]
      /\ trail' = [trail EXCEPT ![D] = @ \cup Recorded(s)]
      /\ End(s) /\ UNCHANGED <<reviewer, submitter, audit>>
  BY <1>0, <1>2 DEF CommitTransition
<1>a. kept \in {state[D], final} /\ kept \in DeploymentState
  BY <1>0, <1>1 DEF Inv, BasicInv, RequestInv, TableInv
<1> HIDE DEF kept
<1>5. /\ state'[D] = kept /\ \A r \in Rows \ {D} : state'[r] = state[r]
      /\ trail'[D] = trail[D] \cup Recorded(s)
      /\ \A e \in Deployments \ {D} : trail'[e] = trail[e]
  BY <1>1, <1>4 DEF TypeOK
<1>6. TypeOK'
  <2>1. trail[D] \cup Recorded(s) \in SUBSET Transition
    BY <1>1, <1>3 DEF TypeOK
  <2>2. trail' \in [Deployments -> SUBSET Transition]
    BY <1>1, <1>4, <2>1 DEF TypeOK
  <2> QED BY <1>1, <1>a, <1>4, <2>2, EndType DEF TypeOK
<1>7. TableInv'
  BY <1>1, <1>a, <1>5 DEF Inv, BasicInv, TableInv, Rows
<1>8. RequestInv'
  BY <1>a, <1>4, <1>5, OthersRequests, NoStateAssumption
<1>9. final \in Approved => Approval \in trail'[D]
  <2>1. CASE final = "approved"
    <3>1. seen[s] = "pending_approval" /\ FirstTarget[op[s]] = "approved"
      BY <1>1, <1>2, <2>1, Lookup
    <3>2. Approval \in Recorded(s)
      BY <3>1 DEF Approval, Recorded
    <3> QED BY <1>5, <3>2
  <2>2. CASE final \in Started
    <3>1. seen[s] \in Approved
      BY <1>1, <1>2, <2>2, Lookup
    <3> QED BY <1>0, <1>1, <1>5, <3>1 DEF Inv, ApprovalInv
  <2> QED BY <2>1, <2>2 DEF Approved
<1>10. ApprovalInv'
  <2>1. \A e \in Deployments : e \in Rows /\ trail[e] \subseteq trail'[e]
    BY <1>5 DEF Rows
  <2>2. \A e \in Deployments : state'[e] \in Approved => Approval \in trail'[e]
    BY <1>a, <1>5, <1>9, <2>1 DEF Inv, ApprovalInv
  <2>3. ASSUME NEW q \in Sessions, step'[q] # "idle", row'[q] \in Deployments, seen'[q] \in Approved
        PROVE  Approval \in trail'[row'[q]]
    BY <1>1, <1>4, <2>1, <2>3, EndType DEF Inv, ApprovalInv
  <2> QED BY <2>2, <2>3 DEF ApprovalInv
<1>11. \A v \in Reviews : state'[v] = state[v]
  BY <1>1, <1>5 DEF Rows
<1>12. ReviewInv'
  BY <1>4, <1>11 DEF Inv, ReviewInv
<1>13. LoadedInv'
  BY <1>1, <1>4, <1>11, EndType DEF Inv, LoadedInv
<1> QED
  BY <1>6, <1>7, <1>8, <1>10, <1>12, <1>13 DEF Inv, BasicInv

LEMMA CommitDecisionKeeps ==
    ASSUME Inv, NEW s \in Sessions, CommitDecision(s)
    PROVE  Inv'
<1>0. PICK v \in Reviews, o \in Decisions, u \in Users, x \in Loaded :
          row[s] = v /\ op[s] = o /\ actor[s] = u /\ fresh[s] = x
  BY DEF CommitDecision, Inv, BasicInv, RequestInv, Rows
<1>1. /\ TypeOK /\ v \in Rows /\ v \notin Deployments /\ step[s] = "written"
      /\ u # submitter[v] /\ state[v] # None /\ x.state \in Status
      /\ x.state \in Decisions => state[v] \in Decisions
      /\ x.reviewer # None => reviewer[v] # None
  BY <1>0, RowsAssumption
  DEF CommitDecision, Inv, BasicInv, RequestInv, LoadedInv, Rows, MayTransition, MayDecide
<1> DEFINE status == IF o = x.state THEN state[v] ELSE o
           by == IF u = x.reviewer THEN reviewer[v] ELSE u
           event == [status |-> o, by |-> u]
<1>2. /\ state' = [state EXCEPT ![v] = status] /\ reviewer' = [reviewer EXCEPT ![v] = by]
      /\ audit' = [audit EXCEPT ![v] = @ \cup {event}]
      /\ End(s) /\ UNCHANGED <<submitter, trail>>
  BY <1>0 DEF CommitDecision
<1>3. status \in Decisions /\ by \in Users /\ event \in Event /\ event.status = o /\ event.by = u
  BY <1>1, NoneAssumption DEF Event, TypeOK
<1>4. /\ \E e \in audit[v] \cup {event} : e.status = status
      /\ \E e \in audit[v] \cup {event} : e.by = by
      /\ \A e \in audit[v] \cup {event} : e.by # submitter[v]
  <2>1. \A e \in audit[v] \cup {event} : e.by # submitter[v]
    BY <1>1, <1>3 DEF Inv, ReviewInv
  <2>2. \E e \in audit[v] \cup {event} : e.status = status
    <3>1. CASE o = x.state
      BY <1>1, <3>1 DEF Inv, ReviewInv
    <3>2. CASE o # x.state
      BY <1>3, <3>2
    <3> QED BY <3>1, <3>2
  <2>3. \E e \in audit[v] \cup {event} : e.by = by
    <3>1. CASE u = x.reviewer
      BY <1>1, <3>1, NoneAssumption DEF Inv, ReviewInv
    <3>2. CASE u # x.reviewer
      BY <1>3, <3>2
    <3> QED BY <3>1, <3>2
  <2> QED BY <2>1, <2>2, <2>3
<1> HIDE DEF status, by, event
<1>5. /\ state'[v] = status /\ \A r \in Rows \ {v} : state'[r] = state[r]
      /\ reviewer'[v] = by /\ \A w \in Reviews \ {v} : reviewer'[w] = reviewer[w]
      /\ audit'[v] = audit[v] \cup {event} /\ \A w \in Reviews \ {v} : audit'[w] = audit[w]
  BY <1>1, <1>2 DEF TypeOK
<1>6. TypeOK'
  <2>1. audit[v] \cup {event} \in SUBSET Event
    BY <1>1, <1>3 DEF TypeOK
  <2>2. audit' \in [Reviews -> SUBSET Event]
    BY <1>1, <1>2, <2>1 DEF TypeOK
  <2>3. state' \in [Rows -> DeploymentState \cup Status \cup {None}]
    BY <1>1, <1>2, <1>3 DEF TypeOK, Status
  <2> QED BY <1>1, <1>2, <1>3, <2>2, <2>3, EndType DEF TypeOK
<1>7. TableInv'
  BY <1>1, <1>3, <1>5 DEF Inv, BasicInv, TableInv, Rows, Status
<1>8. RequestInv'
  BY <1>2, <1>3, <1>5, OthersRequests, NoStateAssumption DEF Status
<1>9. ApprovalInv'
  <2>1. \A e \in Deployments : state'[e] = state[e]
    BY <1>1, <1>5 DEF Rows
  <2> QED BY <1>1, <1>2, <2>1, EndType DEF Inv, ApprovalInv
<1>10. ReviewInv'
  <2>1. ASSUME NEW w \in Reviews, w # v
        PROVE  /\ state'[w] = state[w] /\ reviewer'[w] = reviewer[w] /\ audit'[w] = audit[w]
               /\ submitter'[w] = submitter[w]
    BY <1>2, <1>5, <2>1 DEF Rows
  <2>2. status # None /\ by # None
    BY <1>3, NoneAssumption, NoStateAssumption DEF Status
  <2> QED BY <1>2, <1>3, <1>4, <1>5, <2>1, <2>2 DEF Inv, ReviewInv
<1>11. LoadedInv'
  <2>1. \A w \in Reviews : /\ state[w] \in Decisions => state'[w] \in Decisions
                           /\ reviewer[w] # None => reviewer'[w] # None
    BY <1>3, <1>5, NoneAssumption DEF Rows
  <2> QED BY <1>1, <1>2, <2>1, EndType DEF Inv, LoadedInv
<1> QED
  BY <1>6, <1>7, <1>8, <1>9, <1>10, <1>11 DEF Inv, BasicInv

-----------------------------------------------------------------------------

LEMMA StepInv == Inv /\ [Next]_vars => Inv'
<1> SUFFICES ASSUME Inv, [Next]_vars PROVE Inv'
  OBVIOUS
<1>1. CASE UNCHANGED vars
  <2>1. \A s \in Sessions : (MayTransition(s)' <=> MayTransition(s)) /\ (MayDecide(s)' <=> MayDecide(s))
    BY <1>1 DEF vars, tables, request, MayTransition, MayDecide
  <2> QED
    BY <1>1, <2>1 DEF vars, tables, request, Inv, BasicInv, TypeOK, TableInv, RequestInv,
       ApprovalInv, ReviewInv, LoadedInv
<1>2. ASSUME NEW s \in Sessions, NEW d \in Deployments, NEW o \in Operations, Load(s, d, o, None)
      PROVE  Inv'
  BY <1>2, LoadKeeps, RowsAssumption DEF Rows
<1>3. ASSUME NEW s \in Sessions, NEW v \in Reviews, NEW o \in Decisions, NEW u \in Users, Load(s, v, o, u)
      PROVE  Inv'
  BY <1>3, LoadKeeps, RowsAssumption DEF Rows
<1> QED
  BY <1>1, <1>2, <1>3, ReloadKeeps, CreateKeeps, SubmitKeeps, WriteKeeps, AbortKeeps,
     CommitTransitionKeeps, CommitDecisionKeeps DEF Next

\* The variables keep their types: DeploymentService and GovernanceService
\* never write a state, reviewer or trail entry that the tables do not allow.
THEOREM TypeCorrect == Spec => []TypeOK
<1>1. Inv => TypeOK
  BY DEF Inv, BasicInv
<1> QED
  BY <1>1, InitInv, StepInv, PTL DEF Spec

\* However many requests race, DeploymentService starts no deployment without
\* an approval on record.
THEOREM StartedIsApproved == Spec => []StartedWasApproved
<1>1. Inv => StartedWasApproved
  BY DEF Inv, ApprovalInv, StartedWasApproved, Approved, Approval
<1> QED
  BY <1>1, InitInv, StepInv, PTL DEF Spec

\* However many reviewers race, GovernanceService lets nobody decide what they
\* submitted, and no column of a review is anybody's but a reviewer's.
THEOREM DecisionNeedsSecondPerson == Spec => []DecidedBySecondPerson
<1>1. Inv => DecidedBySecondPerson
  BY DEF Inv, ReviewInv, DecidedBySecondPerson
<1> QED
  BY <1>1, InitInv, StepInv, PTL DEF Spec

-----------------------------------------------------------------------------
(* The history of a deployment *)

\* What a request has loaded was reached as well, and stays so: the trail only
\* grows.
HistoryInv ==
    /\ TrailIsPath
    /\ \A s \in Sessions :
          step[s] # "idle" /\ row[s] \in Deployments => Reached(row[s], seen[s])

\* A longer trail has reached what a shorter one has.
LEMMA ReachedStays ==
    ASSUME NEW d \in Deployments, NEW x, Reached(d, x), trail[d] \subseteq trail'[d]
    PROVE  Reached(d, x)'
BY DEF Reached

\* The transitions an operation makes are legal, and both of two are.
LEMMA LegalSteps ==
    ASSUME NEW o \in Operations, NEW x \in DeploymentState,
           FirstTarget[o] \in DeploymentTransitions[x]
    PROVE  /\ FinalTarget[o] # FirstTarget[o] =>
                  FinalTarget[o] \in DeploymentTransitions[FirstTarget[o]]
           /\ FirstTarget[o] # FinalTarget[o] => FirstTarget[o] # "active" /\ FirstTarget[o] # "frozen"
BY DEF Operations, FirstTarget, FinalTarget, DeploymentTransitions, DeploymentState

LEMMA HistoryInit == Init => HistoryInv
BY DEF Init, HistoryInv, TrailIsPath, Reached, Rows

\* A step that leaves the trails alone and moves, at most, session s.
LEMMA HistoryOfOthers ==
    ASSUME HistoryInv, NEW s \in Sessions, trail' = trail,
           \A d \in Deployments : state'[d] = state[d],
           \A q \in Sessions \ {s} : step'[q] = step[q] /\ row'[q] = row[q] /\ seen'[q] = seen[q],
           step'[s] # "idle" /\ row'[s] \in Deployments => Reached(row'[s], seen'[s])
    PROVE  HistoryInv'
<1>1. ASSUME NEW d, NEW x PROVE Reached(d, x)' <=> Reached(d, x)
  BY DEF Reached
<1>2. TrailIsPath'
  BY <1>1 DEF HistoryInv, TrailIsPath
<1> QED
  BY <1>1, <1>2 DEF HistoryInv

\* What a request records begins where the deployment has been.
LEMMA HistoryCommit ==
    ASSUME Inv, HistoryInv, NEW s \in Sessions, CommitTransition(s)
    PROVE  HistoryInv'
<1>0. PICK D \in Deployments : row[s] = D
  BY DEF CommitTransition
<1>a. /\ TypeOK /\ D \in Rows /\ step[s] # "idle" /\ op[s] \in Operations
      /\ seen[s] \in DeploymentState /\ Reached(D, seen[s])
      /\ FirstTarget[op[s]] \in DeploymentTransitions[seen[s]]
  BY <1>0, RowsAssumption
  DEF CommitTransition, Inv, BasicInv, RequestInv, Rows, MayTransition, MayDecide, HistoryInv
<1>b. PICK o \in Operations, x \in DeploymentState : o = op[s] /\ x = seen[s]
  BY <1>a
<1> DEFINE first == FirstTarget[o]
           final == FinalTarget[o]
<1>1. /\ TypeOK /\ D \in Rows /\ step[s] # "idle"
      /\ first \in DeploymentTransitions[x] /\ Reached(D, x)
  BY <1>a, <1>b
<1>2. /\ state'[D] \in {state[D], final} /\ state[D] # None
      /\ \A r \in Rows \ {D} : state'[r] = state[r]
      /\ trail'[D] = trail[D] \cup Recorded(s)
      /\ \A d \in Deployments \ {D} : trail'[d] = trail[d]
      /\ End(s)
  BY <1>0, <1>1, <1>b DEF CommitTransition, TypeOK, Inv, BasicInv, RequestInv
<1>3. \A d \in Deployments : d \in Rows /\ trail[d] \subseteq trail'[d]
  BY <1>2 DEF Rows
<1>4. ASSUME NEW d \in Deployments, NEW y, Reached(d, y) PROVE Reached(d, y)'
  BY <1>3, <1>4, ReachedStays
<1>5. /\ [from |-> x, to |-> first] \in trail'[D]
      /\ first # final => [from |-> first, to |-> final] \in trail'[D]
      /\ \A t \in trail'[D] :
            \/ t \in trail[D] \/ t = [from |-> x, to |-> first]
            \/ (first # final /\ t = [from |-> first, to |-> final])
  BY <1>2, <1>b DEF Recorded
<1>6. /\ first # final => final \in DeploymentTransitions[first]
      /\ first # final => first # "active" /\ first # "frozen"
  BY <1>1, LegalSteps
<1>7. Reached(D, first)'
  <2>1. CASE x = "frozen" /\ first = "active"
    <3>1. PICK t \in trail[D] : t.to = "frozen"
      BY <1>1, <2>1 DEF Reached
    <3>2. t.from \in DeploymentState /\ "frozen" \in DeploymentTransitions[t.from] /\ Reached(D, t.from)
      BY <1>1, <3>1 DEF HistoryInv, TrailIsPath, TypeOK, Transition
    <3>3. t.from = "active"
      BY <3>2 DEF DeploymentTransitions, DeploymentState
    <3> QED BY <1>4, <2>1, <3>2, <3>3
  <2>2. CASE ~(x = "frozen" /\ first = "active")
    <3>1. /\ [from |-> x, to |-> first].to = first
          /\ [from |-> x, to |-> first] # [from |-> "frozen", to |-> "active"]
      <4>1. [from |-> x, to |-> first].from = x /\ [from |-> x, to |-> first].to = first
        OBVIOUS
      <4> QED BY <2>2, <4>1
    <3> QED BY <1>5, <3>1 DEF Reached
  <2> QED BY <2>1, <2>2
<1>8. Reached(D, final)'
  <2>1. CASE first = final
    BY <1>7, <2>1
  <2>2. CASE first # final
    <3>1. [from |-> first, to |-> final].from = first /\ [from |-> first, to |-> final].to = final
      OBVIOUS
    <3>2. [from |-> first, to |-> final] # [from |-> "frozen", to |-> "active"]
      BY <1>6, <2>2, <3>1
    <3> QED BY <1>5, <2>2, <3>1, <3>2 DEF Reached
  <2> QED BY <2>1, <2>2
<1> HIDE DEF first, final
<1>9. ASSUME NEW t \in trail'[D]
      PROVE  t.to \in DeploymentTransitions[t.from] /\ Reached(D, t.from)'
  <2>1. CASE t \in trail[D]
    BY <1>4, <2>1 DEF HistoryInv, TrailIsPath
  <2>2. CASE t = [from |-> x, to |-> first]
    BY <1>1, <1>4, <2>2
  <2>3. CASE first # final /\ t = [from |-> first, to |-> final]
    BY <1>6, <1>7, <2>3
  <2> QED BY <1>5, <2>1, <2>2, <2>3
<1>10. ASSUME NEW d \in Deployments, d # D
       PROVE  /\ state'[d] # None => Reached(d, state[d])'
              /\ \A t \in trail'[d] : t.to \in DeploymentTransitions[t.from] /\ Reached(d, t.from)'
  <2>1. state'[d] = state[d] /\ trail'[d] = trail[d]
    BY <1>2, <1>3, <1>10
  <2>2. ASSUME NEW y PROVE Reached(d, y)' <=> Reached(d, y)
    BY <2>1 DEF Reached
  <2> QED BY <2>1, <2>2 DEF HistoryInv, TrailIsPath
<1>11. TrailIsPath'
  <2>1. ASSUME NEW d \in Deployments
        PROVE  /\ state'[d] # None => Reached(d, state[d])'
               /\ \A t \in trail'[d] : t.to \in DeploymentTransitions[t.from] /\ Reached(d, t.from)'
    <3>1. CASE d = D
      <4>1. \A y : y = state'[D] /\ Reached(D, y)' => Reached(D, state[D])'
        BY DEF Reached
      <4>2. Reached(D, state[D])
        BY <1>2 DEF HistoryInv, TrailIsPath
      <4>3. Reached(D, state[D])'
        BY <1>2, <1>4, <1>8, <4>1, <4>2
      <4> QED BY <1>9, <3>1, <4>3
    <3> QED BY <1>10, <3>1
  <2> QED BY <2>1 DEF TrailIsPath
<1>12. ASSUME NEW q \in Sessions, step'[q] # "idle", row'[q] \in Deployments
       PROVE  Reached(row[q], seen[q])'
  <2>1. step'[q] = step[q] /\ row'[q] = row[q] /\ seen'[q] = seen[q]
    BY <1>1, <1>2, <1>12, EndType
  <2>2. Reached(row[q], seen[q])
    BY <1>12, <2>1 DEF HistoryInv
  <2> QED BY <1>3, <1>12, <2>1, <2>2 DEF Reached
<1> QED
  BY <1>11, <1>12 DEF HistoryInv

LEMMA HistoryNext == Inv /\ HistoryInv /\ [Next]_vars => HistoryInv'
<1> SUFFICES ASSUME Inv, HistoryInv, [Next]_vars PROVE HistoryInv'
  OBVIOUS
<1>0. TypeOK /\ \A d \in Deployments : d \in Rows /\ d \notin Reviews
  BY RowsAssumption DEF Inv, BasicInv, Rows
<1>1. CASE UNCHANGED vars
  <2>1. ASSUME NEW d, NEW y PROVE Reached(d, y)' <=> Reached(d, y)
    BY <1>1 DEF Reached, vars, tables
  <2> QED BY <1>1, <2>1 DEF vars, tables, request, HistoryInv, TrailIsPath
<1>2. ASSUME NEW D \in Deployments, CreateDeployment(D) PROVE HistoryInv'
  <2>1. /\ state'[D] = "created" /\ \A d \in Deployments \ {D} : state'[d] = state[d]
        /\ UNCHANGED <<trail, step, row, seen>>
    BY <1>0, <1>2 DEF CreateDeployment, TypeOK, request
  <2>2. ASSUME NEW d, NEW y PROVE Reached(d, y)' <=> Reached(d, y)
    BY <2>1 DEF Reached
  <2>3. Reached(D, "created")
    BY DEF Reached
  <2> QED BY <2>1, <2>2, <2>3 DEF HistoryInv, TrailIsPath
<1>3. ASSUME NEW v \in Reviews, NEW u \in Users, Submit(v, u) PROVE HistoryInv'
  <2>1. /\ \A d \in Deployments : state'[d] = state[d]
        /\ UNCHANGED <<trail, step, row, seen>>
    BY <1>0, <1>3 DEF Submit, TypeOK, request
  <2>2. ASSUME NEW d, NEW y PROVE Reached(d, y)' <=> Reached(d, y)
    BY <2>1 DEF Reached
  <2> QED BY <2>1, <2>2 DEF HistoryInv, TrailIsPath
<1>4. ASSUME NEW s \in Sessions, NEW r \in Rows, NEW o, NEW u, Load(s, r, o, u) PROVE HistoryInv'
  <2>1. /\ UNCHANGED <<trail, state>> /\ row'[s] = r /\ (r \in Deployments => seen'[s] = state[r]) /\ state[r] # None
        /\ \A q \in Sessions \ {s} : step'[q] = step[q] /\ row'[q] = row[q] /\ seen'[q] = seen[q]
    BY <1>0, <1>4 DEF Load, TypeOK, tables
  <2> QED BY <2>1, HistoryOfOthers DEF HistoryInv, TrailIsPath
<1>5. ASSUME NEW s \in Sessions, Reload(s) \/ Write(s) PROVE HistoryInv'
  <2>1. /\ UNCHANGED <<trail, state, row, seen>> /\ step[s] # "idle"
        /\ \A q \in Sessions \ {s} : step'[q] = step[q]
    BY <1>0, <1>5 DEF Reload, Write, TypeOK, tables
  <2> QED BY <2>1, HistoryOfOthers DEF HistoryInv
<1>6. ASSUME NEW s \in Sessions, Abort(s) \/ CommitDecision(s) PROVE HistoryInv'
  <2>1. End(s) /\ trail' = trail /\ \A d \in Deployments : state'[d] = state[d]
    BY <1>0, <1>6 DEF Abort, CommitDecision, TypeOK, tables
  <2> QED BY <1>0, <2>1, EndType, HistoryOfOthers
<1> QED
  BY <1>1, <1>2, <1>3, <1>4, <1>5, <1>6, HistoryCommit DEF Next, Rows

LEMMA HistoryCorrect == Spec => []HistoryInv
<1>1. Spec => []Inv
  BY InitInv, StepInv, PTL DEF Spec
<1> QED
  BY <1>1, HistoryInit, HistoryNext, PTL DEF Spec

\* However many requests race, what DeploymentService records of a deployment
\* is a history: legal transitions, each from a state reached before, that
\* reach the present state.
THEOREM HistoryIsPath == Spec => []TrailIsPath
<1>1. HistoryInv => TrailIsPath
  BY DEF HistoryInv
<1> QED
  BY <1>1, HistoryCorrect, PTL

\* The recorded transitions lead from created to the present state: a set of
\* states that has created and that no recorded transition leaves has it too.
Connected ==
    \A d \in Deployments, S \in SUBSET DeploymentState :
        /\ state[d] # None /\ "created" \in S
        /\ \A t \in trail[d] : t.from \in S => t.to \in S
        => state[d] \in S

\* Without the unfreezes the legal transitions have no cycle, so that a state
\* reached from reached states only is reached from created.
LEMMA ReachedFromCreated ==
    ASSUME TypeOK, TrailIsPath, NEW d \in Deployments, NEW S \in SUBSET DeploymentState,
           "created" \in S, \A t \in trail[d] : t.from \in S => t.to \in S,
           NEW x \in DeploymentState, Reached(d, x)
    PROVE  x \in S
<1>1. ASSUME NEW y \in DeploymentState, y # "created", Reached(d, y)
      PROVE  \E z \in DeploymentState :
                 /\ Reached(d, z) /\ y \in DeploymentTransitions[z]
                 /\ ~(z = "frozen" /\ y = "active")
                 /\ z \in S => y \in S
  <2>1. PICK t \in trail[d] : t.to = y /\ t # [from |-> "frozen", to |-> "active"]
    BY <1>1 DEF Reached
  <2>2. t \in Transition /\ t.from \in DeploymentState
    BY DEF TypeOK, Transition
  <2>3. t = [from |-> t.from, to |-> t.to]
    BY <2>2 DEF Transition
  <2>4. ~(t.from = "frozen" /\ y = "active")
    BY <2>1, <2>3
  <2>5. Reached(d, t.from) /\ y \in DeploymentTransitions[t.from] /\ (t.from \in S => y \in S)
    BY <2>1 DEF TrailIsPath
  <2> QED BY <2>2, <2>4, <2>5
<1> USE DEF DeploymentTransitions, DeploymentState
<1>2. Reached(d, "pending_approval") => "pending_approval" \in S
  BY <1>1
<1>3. Reached(d, "approved") => "approved" \in S
  BY <1>1, <1>2
<1>4. Reached(d, "activating") => "activating" \in S
  BY <1>1, <1>3
<1>5. Reached(d, "active") => "active" \in S
  BY <1>1, <1>4
<1>6. Reached(d, "frozen") => "frozen" \in S
  BY <1>1, <1>5
<1>7. Reached(d, "deactivating") => "deactivating" \in S
  BY <1>1, <1>5, <1>6
<1>8. Reached(d, "deactivated") => "deactivated" \in S
  BY <1>1, <1>7
<1>9. Reached(d, "rolled_back") => "rolled_back" \in S
  BY <1>1, <1>5, <1>6
<1>10. Reached(d, "failed") => "failed" \in S
  BY <1>1, <1>2, <1>3, <1>4, <1>5, <1>6, <1>7
<1> QED
  BY <1>2, <1>3, <1>4, <1>5, <1>6, <1>7, <1>8, <1>9, <1>10

\* There is a path of recorded transitions from created to the state of every
\* deployment, whatever DeploymentService's requests have overwritten.
THEOREM HistoryConnects == Spec => []Connected
<1>1. Inv /\ HistoryInv => Connected
  <2> SUFFICES ASSUME Inv, HistoryInv, NEW d \in Deployments, NEW S \in SUBSET DeploymentState,
                      state[d] # None, "created" \in S,
                      \A t \in trail[d] : t.from \in S => t.to \in S
               PROVE  state[d] \in S
    BY DEF Connected
  <2>1. TypeOK /\ TrailIsPath /\ state[d] \in DeploymentState /\ Reached(d, state[d])
    BY DEF Inv, BasicInv, TableInv, HistoryInv, TrailIsPath
  <2> QED
    BY <2>1, ReachedFromCreated
<1>2. Spec => []Inv
  BY InitInv, StepInv, PTL DEF Spec
<1> QED
  BY <1>1, <1>2, HistoryCorrect, PTL
=============================================================================
