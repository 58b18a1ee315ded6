------------------------------ MODULE RiskGate ------------------------------
(***************************************************************************)
(* The pre-trade risk gate as submit_live_order uses it: positions and     *)
(* account are fetched from the broker by two calls, kept for two seconds  *)
(* in a cache of the worker, judged by RiskGateService and forgotten once  *)
(* the order is sent.                                                      *)
(*                                                                         *)
(* A worker serves one live request at a time; other workers and the       *)
(* broker act between any two of its steps.  Orders are of one unit of one *)
(* symbol.  The position-size and open-order checks are modelled; order    *)
(* value, concentration and daily loss may refuse any order.  The cache    *)
(* also holds a pending_exposure that nothing reads: it is left out.       *)
(***************************************************************************)
EXTENDS Integers, FiniteSets

CONSTANTS
    Workers,
    Deployments,
    Trades,        \* the deployments and sides that orders are submitted for
    MaxPosition,   \* max_position_size of every deployment
    MaxOpenOrders, \* max_open_orders of every deployment
    MaxOrders,     \* bound: how many orders pass the gate
    None

\* A limit of zero switches its check off.
ASSUME LimitsAssumption ==
    /\ MaxPosition \in Nat \ {0}
    /\ MaxOpenOrders \in Nat \ {0}

ASSUME BoundAssumption == MaxOrders \in Nat
ASSUME WorkersAssumption == IsFiniteSet(Workers)
ASSUME NoneAssumption == None \notin Deployments
ASSUME TradesAssumption == Trades \subseteq Deployments \X {"buy", "sell"}

VARIABLES
    position,   \* the position at the broker
    open,       \* open orders at the broker, by side
    cache,      \* _position_cache of the worker; None when absent or expired
    step,       \* where the worker's submission stands
    deployment, \* the deployment it is for
    side,       \* its side
    held,       \* the positions fetched and not yet cached
    snapshot,   \* what the gate judges with
    broken,     \* workers whose session is inactive after a failed statement
    passed,     \* orders that passed the gate
    most,       \* the most orders of a side that were outstanding at once
    misjudged   \* orders that passed on a snapshot of another deployment

brokerVars == <<position, open>>
requestVars == <<step, deployment, side, held, snapshot>>
history == <<passed, most, misjudged>>
vars == <<brokerVars, cache, requestVars, broken, history>>

Sides == {"buy", "sell"}
\* n units in the direction of a side.
Along(s, n) == IF s = "buy" THEN n ELSE -n

\* Whose positions they are, the position and pending_orders_count.
Snapshots == [of : Deployments, position : Int, pending : Nat]

ASSUME NoSnapshotAssumption == None \notin Snapshots /\ None \notin Int /\ None \notin Sides

TypeOK ==
    /\ position \in [Deployments -> Int]
    /\ open \in [Deployments -> [Sides -> Nat]]
    /\ cache \in [Workers -> Snapshots \cup {None}]
    /\ step \in [Workers -> {"idle", "positions", "account", "judge", "send", "sent"}]
    /\ deployment \in [Workers -> Deployments \cup {None}]
    /\ side \in [Workers -> Sides \cup {None}]
    /\ held \in [Workers -> Int \cup {None}]
    /\ snapshot \in [Workers -> Snapshots \cup {None}]
    /\ broken \in SUBSET Workers
    /\ passed \in 0..MaxOrders
    /\ most \in [Deployments -> [Sides -> Nat]]
    /\ misjudged \in [Deployments -> [Sides -> Nat]]

Init ==
    /\ position = [d \in Deployments |-> 0]
    /\ open = [d \in Deployments |-> [s \in Sides |-> 0]]
    /\ cache = [w \in Workers |-> None]
    /\ step = [w \in Workers |-> "idle"]
    /\ deployment = [w \in Workers |-> None]
    /\ side = [w \in Workers |-> None]
    /\ held = [w \in Workers |-> None]
    /\ snapshot = [w \in Workers |-> None]
    /\ broken = {}
    /\ passed = 0
    /\ most = [d \in Deployments |-> [s \in Sides |-> 0]]
    /\ misjudged = [d \in Deployments |-> [s \in Sides |-> 0]]

\* Workers with an order that passed the gate and has not reached the broker.
Passed(d, s) ==
    {w \in Workers : step[w] = "send" /\ deployment[w] = d /\ side[w] = s}

\* The orders of a deployment and side at the broker or on their way to it.
Outstanding(d, s) == open[d][s] + Cardinality(Passed(d, s))

-----------------------------------------------------------------------------
(* submit_live_order, from step 4 on *)

GoTo(w, s) == step' = [step EXCEPT ![w] = s]

\* The request is over.
Done(w) ==
    /\ GoTo(w, "idle")
    /\ deployment' = [deployment EXCEPT ![w] = None]
    /\ side' = [side EXCEPT ![w] = None]
    /\ held' = [held EXCEPT ![w] = None]
    /\ snapshot' = [snapshot EXCEPT ![w] = None]

\* A fresh cache is used as it is, whatever deployment it was filled for.
Begin(w, d, s) ==
    /\ step[w] = "idle" /\ w \notin broken
    /\ deployment' = [deployment EXCEPT ![w] = d]
    /\ side' = [side EXCEPT ![w] = s]
    /\ snapshot' = [snapshot EXCEPT ![w] = cache[w]]
    /\ GoTo(w, IF cache[w] = None THEN "positions" ELSE "judge")
    /\ UNCHANGED <<brokerVars, cache, held, broken, history>>

\* Mutant: an error of get_positions is swallowed and leaves nothing.
FetchPositionsSwallowed(w) ==
    /\ step[w] = "positions"
    /\ GoTo(w, "account")
    /\ UNCHANGED <<brokerVars, cache, deployment, side, held, snapshot, broken, history>>

\* adapter.get_positions
FetchPositions(w) ==
    /\ step[w] = "positions"
    /\ held' = [held EXCEPT ![w] = position[deployment[w]]]
    /\ GoTo(w, "account")
    /\ UNCHANGED <<brokerVars, cache, deployment, side, snapshot, broken, history>>

\* pending_orders_count of the account snapshot: both live adapters, Alpaca's and
\* Schwab's, fill in a constant, whatever orders are open.
PendingOrdersCount == 0

\* adapter.get_account; the cache is filled.
FetchAccount(w) ==
    /\ step[w] = "account"
    /\ LET now == [of |-> deployment[w], position |-> held[w],
                   pending |-> PendingOrdersCount] IN
          /\ cache' = [cache EXCEPT ![w] = now]
          /\ snapshot' = [snapshot EXCEPT ![w] = now]
    /\ held' = [held EXCEPT ![w] = None]
    /\ GoTo(w, "judge")
    /\ UNCHANGED <<brokerVars, deployment, side, broken, history>>

\* _check_position_size
PositionFits(snap, s) ==
    LET resulting == snap.position + Along(s, 1) IN
    resulting <= MaxPosition /\ -resulting <= MaxPosition

\* _check_open_orders: the order itself is counted too.
OpenOrdersFit(snap) == snap.pending + 1 <= MaxOpenOrders

\* enforce_order and the commit of the pending row.  The worker's session finds
\* limits: set_risk_limits and clear_risk_limits may run at any time.
Pass(w) ==
    /\ step[w] = "judge"
    /\ PositionFits(snapshot[w], side[w])
    /\ OpenOrdersFit(snapshot[w])
    /\ passed < MaxOrders
    /\ snapshot' = [snapshot EXCEPT ![w] = None]
    /\ GoTo(w, "send")
    /\ passed' = passed + 1
    /\ LET outstanding == Outstanding(deployment[w], side[w]) + 1 IN
          most' = [most EXCEPT ![deployment[w]][side[w]] =
                      IF @ < outstanding THEN outstanding ELSE @]
    /\ misjudged' = [misjudged EXCEPT ![deployment[w]][side[w]] =
                        IF snapshot[w].of = deployment[w] THEN @ ELSE @ + 1]
    /\ UNCHANGED <<brokerVars, cache, deployment, side, held, broken>>

\* A check refuses, the deployment has no limits, or a broker query, a risk event
\* or the row fails: the cache stays as it is.
Refuse(w) ==
    /\ step[w] \in {"positions", "account", "judge"}
    /\ Done(w)
    /\ UNCHANGED <<brokerVars, cache, broken, history>>

\* adapter.submit_order: the broker takes the order, whether it answers or not.
Send(w) ==
    /\ step[w] = "send"
    /\ open' = [open EXCEPT ![deployment[w]][side[w]] = @ + 1]
    /\ GoTo(w, "sent")
    /\ UNCHANGED <<position, cache, deployment, side, held, snapshot, broken, history>>

\* The broker refuses the order or never gets it.
SendLost(w) ==
    /\ step[w] = "send"
    /\ GoTo(w, "sent")
    /\ UNCHANGED <<brokerVars, cache, deployment, side, held, snapshot, broken, history>>

\* Mutant: the cache lives on after an order was sent.
InvalidateForgotten(w) ==
    /\ step[w] = "sent"
    /\ Done(w)
    /\ UNCHANGED <<brokerVars, cache, broken, history>>

\* Both answers are recorded and committed before the cache is invalidated.
Invalidate(w) ==
    /\ step[w] = "sent"
    /\ cache' = [cache EXCEPT ![w] = None]
    /\ Done(w)
    /\ UNCHANGED <<brokerVars, broken, history>>

-----------------------------------------------------------------------------

\* The record of the answer fails: the cache outlives the order, but no order
\* of this worker gets past its inactive session.
CommitFails(w) ==
    /\ step[w] = "sent"
    /\ broken' = broken \cup {w}
    /\ Done(w)
    /\ UNCHANGED <<brokerVars, cache, history>>

\* The process dies and starts again.
Crash(w) ==
    /\ cache' = [cache EXCEPT ![w] = None]
    /\ Done(w)
    /\ broken' = broken \ {w}
    /\ UNCHANGED <<brokerVars, history>>

\* _is_position_cache_fresh: the two seconds are over.
Expire(w) ==
    /\ cache[w] # None
    /\ cache' = [cache EXCEPT ![w] = None]
    /\ UNCHANGED <<brokerVars, requestVars, broken, history>>

\* The broker fills an open order.
BrokerFills(d, s) ==
    /\ open[d][s] > 0
    /\ open' = [open EXCEPT ![d][s] = @ - 1]
    /\ position' = [position EXCEPT ![d] = @ + Along(s, 1)]
    /\ UNCHANGED <<cache, requestVars, broken, history>>

\* An open order is cancelled, rejected or expires.
BrokerDrops(d, s) ==
    /\ open[d][s] > 0
    /\ open' = [open EXCEPT ![d][s] = @ - 1]
    /\ UNCHANGED <<position, cache, requestVars, broken, history>>

Next ==
    \/ \E w \in Workers :
          \/ \E trade \in Trades : Begin(w, trade[1], trade[2])
          \/ FetchPositions(w) \/ FetchAccount(w) \/ Pass(w) \/ Refuse(w)
          \/ Send(w) \/ SendLost(w) \/ Invalidate(w) \/ CommitFails(w)
          \/ Crash(w) \/ Expire(w)
    \/ \E d \in Deployments, s \in Sides : BrokerFills(d, s) \/ BrokerDrops(d, s)

Spec == Init /\ [][Next]_vars

-----------------------------------------------------------------------------
(* Properties *)

\* What a position becomes when all orders of one side that passed the gate fill.
Exposure(d, s) == Along(s, position[d]) + open[d][s] + Cardinality(Passed(d, s))

\* What max_position_size really bounds.  However requests, fills, crashes and
\* cache hits interleave, and however long this goes on, a deployment commits
\* itself beyond the limit by no more than the most orders that were ever
\* outstanding at once (a position does not show them), the orders judged by
\* another deployment's positions (the cache of a worker is not told whose they
\* are) and one order of each other worker, which forgets what it fetched once
\* its order is sent.
ExposureBounded ==
    \A d \in Deployments, s \in Sides :
        Exposure(d, s) <= MaxPosition + most[d][s] + misjudged[d][s] + Cardinality(Workers) - 1

-----------------------------------------------------------------------------
(* A claim of the repository that the code does not keep *)

\* libs/contracts/risk.py of max_open_orders: "Maximum open orders per
\* deployment."
OpenOrdersWithinLimit ==
    \A d \in Deployments : open[d]["buy"] + open[d]["sell"] <= MaxOpenOrders
=============================================================================
