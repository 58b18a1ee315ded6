----------------------------- MODULE KillSwitch -----------------------------
(***************************************************************************)
(* KillSwitchService (activation, deactivation, emergency posture) and     *)
(* SqlKillSwitchEventRepository, against the order path that they must     *)
(* stop: the kill-switch check of submit_live_order and the broker call    *)
(* that follows it some database work later.                               *)
(*                                                                         *)
(* Every API worker has one session, which the kill switch shares with the *)
(* live service.  A kill-switch request runs in a thread of its own beside *)
(* the one live request the worker serves.  The service only flushes: a    *)
(* row it wrote is seen in its worker's session and by nobody else until a *)
(* live request of that worker commits the session.                        *)
(***************************************************************************)
EXTENDS Naturals, FiniteSets

CONSTANTS
    Workers,            \* API worker processes
    Orders,             \* orders that clients submit, each once
    Deployments,        \* deployments with a registered adapter
    Targets,            \* <<scope, target_id>> that operators halt
    DeploymentOf,       \* the deployment of an order
    StrategyId,         \* the strategy_id in an order's request
    Symbol,             \* the symbol in an order's request
    DeploymentStrategy, \* the strategy_id of a deployment
    Cancelling,         \* deployments whose emergency posture cancels orders
    MaxRetries,         \* max_retries of _cancel_open_orders
    MaxEvents,          \* bound on the activations of one worker
    None

ASSUME BoundsAssumption == MaxRetries \in Nat \ {0} /\ MaxEvents \in Nat
ASSUME OrdersAssumption == DeploymentOf \in [Orders -> Deployments]
ASSUME PostureAssumption == Cancelling \subseteq Deployments
ASSUME NoneAssumption ==
    None \notin Orders /\ None \notin Deployments /\ None \notin Targets

VARIABLES
    halts,     \* committed event rows that are not deactivated
    added,     \* rows a worker's session has inserted and not committed
    lifted,    \* rows a worker's session has deactivated and not committed
    broken,    \* workers whose session is inactive after a failed statement
    events,    \* how many rows a worker has written
    told,      \* history: rows whose activation was reported, not lifted since
    step,      \* where the worker's kill-switch request stands
    target,    \* the target it activates; None for a posture request
    adapters,  \* adapters it has still to sweep
    adapter,   \* the adapter it is sweeping
    posture,   \* is this pass part of execute_emergency_posture?
    todo,      \* open orders listed and not yet cancelled
    order,     \* the order being cancelled
    attempt,   \* failed attempts at cancelling it
    missed,    \* did a cancellation of this pass fail?
    failed,    \* all_failed_orders of the activation
    counted,   \* orders counted in orders_cancelled
    skipped,   \* history: orders passed over because they were listed without an id
    standing,  \* history: orders open at the affected brokers at its start
    trade,     \* where the worker's live submission stands
    subject,   \* the order it submits
    checked,   \* history: events the worker had written at its check
    status     \* the order at the broker: new, open or closed (terminal)

sessionVars == <<halts, added, lifted, broken, events, told>>
passVars == <<adapter, posture, todo, order, attempt, missed>>
switchVars == <<step, target, adapters, passVars, failed, counted, skipped, standing>>
tradeVars == <<trade, subject, checked>>
vars == <<sessionVars, switchVars, tradeVars, status>>

\* An event row: its target, the worker that wrote it and its number there.
Rows == Targets \X Workers \X (1..MaxEvents)

TypeOK ==
    /\ halts \in SUBSET Rows
    /\ added \in [Workers -> SUBSET Rows]
    /\ lifted \in [Workers -> SUBSET Rows]
    /\ broken \in SUBSET Workers
    /\ events \in [Workers -> 0..MaxEvents]
    /\ told \in SUBSET Rows
    /\ step \in [Workers -> {"idle", "sweep", "cancel", "verify", "save"}]
    /\ target \in [Workers -> Targets \cup {None}]
    /\ adapters \in [Workers -> SUBSET Deployments]
    /\ adapter \in [Workers -> Deployments \cup {None}]
    /\ posture \in [Workers -> BOOLEAN]
    /\ todo \in [Workers -> SUBSET Orders]
    /\ order \in [Workers -> Orders \cup {None}]
    /\ attempt \in [Workers -> 0..MaxRetries]
    /\ missed \in [Workers -> BOOLEAN]
    /\ failed \in [Workers -> SUBSET Orders]
    /\ counted \in [Workers -> SUBSET Orders]
    /\ skipped \in [Workers -> SUBSET Orders]
    /\ standing \in [Workers -> SUBSET Orders]
    /\ trade \in [Workers -> {"idle", "checked", "saved"}]
    /\ subject \in [Workers -> Orders \cup {None}]
    /\ checked \in [Workers -> 0..MaxEvents]
    /\ status \in [Orders -> {"new", "open", "closed"}]

Init ==
    /\ halts = {}
    /\ added = [w \in Workers |-> {}]
    /\ lifted = [w \in Workers |-> {}]
    /\ broken = {}
    /\ events = [w \in Workers |-> 0]
    /\ told = {}
    /\ step = [w \in Workers |-> "idle"]
    /\ target = [w \in Workers |-> None]
    /\ adapters = [w \in Workers |-> {}]
    /\ adapter = [w \in Workers |-> None]
    /\ posture = [w \in Workers |-> FALSE]
    /\ todo = [w \in Workers |-> {}]
    /\ order = [w \in Workers |-> None]
    /\ attempt = [w \in Workers |-> 0]
    /\ missed = [w \in Workers |-> FALSE]
    /\ failed = [w \in Workers |-> {}]
    /\ counted = [w \in Workers |-> {}]
    /\ skipped = [w \in Workers |-> {}]
    /\ standing = [w \in Workers |-> {}]
    /\ trade = [w \in Workers |-> "idle"]
    /\ subject = [w \in Workers |-> None]
    /\ checked = [w \in Workers |-> 0]
    /\ status = [o \in Orders |-> "new"]

-----------------------------------------------------------------------------
(* The event table and the scopes *)

\* The active events a query of w's session finds (get_active).
Active(w) == (halts \cup added[w]) \ lifted[w]

\* The kill switches that is_halted consults for an order.
Consulted(o) ==
    {<<"global", "global">>, <<"strategy", StrategyId[o]>>, <<"symbol", Symbol[o]>>}

\* Mutant: the check reads in a session of its own, the committed rows only.
HaltedCommitted(w, o) == \E row \in halts \ lifted[w] : row[1] \in Consulted(o)

\* is_halted
Halted(w, o) == \E row \in Active(w) : row[1] \in Consulted(o)

\* _scope_affects_adapter: a symbol halt is taken to affect every adapter.
Affected(t) ==
    {d \in Deployments : t[1] = "strategy" => DeploymentStrategy[d] = t[2]}

OpenOrders(d) == {o \in Orders : DeploymentOf[o] = d /\ status[o] = "open"}

Commit(w) ==
    /\ halts' = Active(w)
    /\ added' = [added EXCEPT ![w] = {}]
    /\ lifted' = [lifted EXCEPT ![w] = {}]

-----------------------------------------------------------------------------
(* The order path of LiveExecutionService *)

\* Step 2 of submit_live_order; a halted order is refused and may be retried.
CheckKillSwitch(w, o) ==
    /\ trade[w] = "idle"
    /\ w \notin broken
    /\ status[o] = "new"
    /\ \A v \in Workers : subject[v] # o
    /\ ~Halted(w, o)
    /\ trade' = [trade EXCEPT ![w] = "checked"]
    /\ subject' = [subject EXCEPT ![w] = o]
    /\ checked' = [checked EXCEPT ![w] = events[w]]
    /\ UNCHANGED <<sessionVars, switchVars, status>>

\* Steps 3 to 5: the order row is written and the shared session committed.
CommitOrder(w) ==
    /\ trade[w] = "checked"
    /\ w \notin broken
    /\ Commit(w)
    /\ trade' = [trade EXCEPT ![w] = "saved"]
    /\ UNCHANGED <<broken, events, told, switchVars, subject, checked, status>>

\* Step 6: the broker gets the order, or refuses it.
SubmitOrder(w) ==
    /\ trade[w] = "saved"
    /\ \E s \in {"open", "closed"} : status' = [status EXCEPT ![subject[w]] = s]
    /\ trade' = [trade EXCEPT ![w] = "idle"]
    /\ subject' = [subject EXCEPT ![w] = None]
    /\ UNCHANGED <<sessionVars, switchVars, checked>>

\* Steps 3 to 5 refuse the order, or their session is inactive.
RefuseOrder(w) ==
    /\ trade[w] = "checked"
    /\ trade' = [trade EXCEPT ![w] = "idle"]
    /\ subject' = [subject EXCEPT ![w] = None]
    /\ UNCHANGED <<sessionVars, switchVars, checked, status>>

\* Step 7 of a submission, or cancel_live_order, commits the shared session.
CommitOther(w) ==
    /\ trade[w] = "idle"
    /\ w \notin broken
    /\ added[w] # {} \/ lifted[w] # {}
    /\ Commit(w)
    /\ UNCHANGED <<broken, events, told, switchVars, tradeVars, status>>

-----------------------------------------------------------------------------
(* activate_kill_switch *)

\* A target that is active already is refused (StateTransitionError).
BeginActivation(w, t) ==
    /\ step[w] = "idle"
    /\ w \notin broken
    /\ events[w] < MaxEvents
    /\ \A row \in Active(w) : row[1] # t
    /\ step' = [step EXCEPT ![w] = "sweep"]
    /\ target' = [target EXCEPT ![w] = t]
    /\ adapters' = [adapters EXCEPT ![w] = Affected(t)]
    /\ failed' = [failed EXCEPT ![w] = {}]
    /\ counted' = [counted EXCEPT ![w] = {}]
    /\ skipped' = [skipped EXCEPT ![w] = {}]
    /\ standing' = [standing EXCEPT ![w] = UNION {OpenOrders(d) : d \in Affected(t)}]
    /\ UNCHANGED <<sessionVars, passVars, tradeVars, status>>

\* The request returns or raises.
Finish(w) ==
    /\ step' = [step EXCEPT ![w] = "idle"]
    /\ target' = [target EXCEPT ![w] = None]
    /\ adapters' = [adapters EXCEPT ![w] = {}]
    /\ standing' = [standing EXCEPT ![w] = {}]
    /\ failed' = [failed EXCEPT ![w] = {}]
    /\ counted' = [counted EXCEPT ![w] = {}]
    /\ skipped' = [skipped EXCEPT ![w] = {}]

NoPass(w) ==
    /\ adapter' = [adapter EXCEPT ![w] = None]
    /\ posture' = [posture EXCEPT ![w] = FALSE]
    /\ todo' = [todo EXCEPT ![w] = {}]
    /\ order' = [order EXCEPT ![w] = None]
    /\ attempt' = [attempt EXCEPT ![w] = 0]
    /\ missed' = [missed EXCEPT ![w] = FALSE]

\* The first call of _cancel_open_orders: the adapter lists its open orders.
BeginPass(w, d, isPosture) ==
    /\ step' = [step EXCEPT ![w] = "cancel"]
    /\ adapter' = [adapter EXCEPT ![w] = d]
    /\ posture' = [posture EXCEPT ![w] = isPosture]
    /\ todo' = [todo EXCEPT ![w] = OpenOrders(d)]
    /\ missed' = [missed EXCEPT ![w] = FALSE]
    /\ UNCHANGED <<order, attempt>>

SweepAdapter(w, d) ==
    /\ step[w] = "sweep"
    /\ d \in adapters[w]
    /\ adapters' = [adapters EXCEPT ![w] = @ \ {d}]
    /\ BeginPass(w, d, FALSE)
    /\ UNCHANGED <<sessionVars, target, failed, counted, skipped, standing, tradeVars, status>>

\* list_open_orders, or the deployment lookup of a strategy halt, raises:
\* nothing catches it, the activation is abandoned with no event saved.
SweepFails(w) ==
    /\ step[w] = "sweep"
    /\ adapters[w] # {} \/ target[w][1] = "strategy"
    /\ Finish(w)
    /\ UNCHANGED <<sessionVars, passVars, tradeVars, status>>

\* All adapters are swept.
EndSweep(w) ==
    /\ step[w] = "sweep"
    /\ adapters[w] = {}
    /\ step' = [step EXCEPT ![w] = "save"]
    /\ UNCHANGED <<sessionVars, target, adapters, passVars, failed, counted, skipped, standing,
                   tradeVars, status>>

\* The event is inserted and flushed; the caller is told the halt is active.
SaveEvent(w) ==
    /\ step[w] = "save"
    /\ w \notin broken
    /\ events' = [events EXCEPT ![w] = @ + 1]
    /\ LET row == <<target[w], w, events[w] + 1>> IN
          /\ added' = [added EXCEPT ![w] = @ \cup {row}]
          /\ told' = told \cup {row}
    /\ Finish(w)
    /\ UNCHANGED <<halts, lifted, broken, passVars, tradeVars, status>>

\* The insert raises on an inactive session.
SaveFails(w) ==
    /\ step[w] = "save"
    /\ w \in broken
    /\ Finish(w)
    /\ UNCHANGED <<sessionVars, passVars, tradeVars, status>>

-----------------------------------------------------------------------------
(* _cancel_open_orders *)

\* What the broker may do with a cancel_order call: an open order is closed at
\* once, or the request is only noted.
BrokerCancels(o) ==
    \E s \in {status[o], "closed"} : status' = [status EXCEPT ![o] = s]

TakeOrder(w, o) ==
    /\ step[w] = "cancel"
    /\ order[w] = None
    /\ o \in todo[w]
    /\ order' = [order EXCEPT ![w] = o]
    /\ todo' = [todo EXCEPT ![w] = @ \ {o}]
    /\ attempt' = [attempt EXCEPT ![w] = 0]
    /\ UNCHANGED <<sessionVars, step, target, adapters, adapter, posture, missed,
                   failed, counted, skipped, standing, tradeVars, status>>

\* An order that the broker listed without a broker_order_id is passed over: it
\* is neither cancelled nor put on the failed list.
SkipOrder(w, o) ==
    /\ step[w] = "cancel"
    /\ order[w] = None
    /\ o \in todo[w]
    /\ todo' = [todo EXCEPT ![w] = @ \ {o}]
    /\ skipped' = [skipped EXCEPT ![w] = @ \cup {o}]
    /\ UNCHANGED <<sessionVars, step, target, adapters, adapter, posture, order, attempt,
                   missed, failed, counted, standing, tradeVars, status>>

\* adapter.cancel_order returns.
CancelAccepted(w) ==
    /\ step[w] = "cancel"
    /\ order[w] # None
    /\ BrokerCancels(order[w])
    /\ step' = [step EXCEPT ![w] = "verify"]
    /\ UNCHANGED <<sessionVars, target, adapters, passVars, failed, counted, skipped, standing,
                   tradeVars>>

\* Mutant: the failed list is kept only while it is empty.
OrderFailedForgotten(w) ==
    /\ missed' = [missed EXCEPT ![w] = TRUE]
    /\ failed' = [failed EXCEPT ![w] = IF posture[w] \/ missed[w] \/ @ # {} THEN @ ELSE {order[w]}]
    /\ order' = [order EXCEPT ![w] = None]
    /\ UNCHANGED <<target, adapters, adapter, posture, todo, counted, skipped, standing>>

\* The order goes to the failed list of this pass.
OrderFailed(w) ==
    /\ missed' = [missed EXCEPT ![w] = TRUE]
    /\ failed' = [failed EXCEPT ![w] = IF posture[w] THEN @ ELSE @ \cup {order[w]}]
    /\ order' = [order EXCEPT ![w] = None]
    /\ UNCHANGED <<target, adapters, adapter, posture, todo, counted, skipped, standing>>

\* Mutant: one attempt too many.
CancelTransientOnceMore(w) ==
    /\ step[w] = "cancel"
    /\ order[w] # None
    /\ BrokerCancels(order[w])
    /\ attempt' = [attempt EXCEPT ![w] = @ + 1]
    /\ \/ /\ attempt[w] < MaxRetries
          /\ UNCHANGED <<target, adapters, adapter, posture, todo, order, missed,
                         failed, counted, skipped, standing>>
       \/ /\ attempt[w] = MaxRetries
          /\ OrderFailed(w)
    /\ UNCHANGED <<sessionVars, step, tradeVars>>

\* Mutant: transient errors are retried without counting.
CancelTransientForever(w) ==
    /\ step[w] = "cancel"
    /\ order[w] # None
    /\ BrokerCancels(order[w])
    /\ attempt' = [attempt EXCEPT ![w] = 1 - @]
    /\ UNCHANGED <<sessionVars, step, target, adapters, adapter, posture, todo, order,
                   missed, failed, counted, skipped, standing, tradeVars>>

\* TransientError: another attempt after a back-off, unless it was the last.
\* The broker may have acted on the call.
CancelTransient(w) ==
    /\ step[w] = "cancel"
    /\ order[w] # None
    /\ BrokerCancels(order[w])
    /\ attempt' = [attempt EXCEPT ![w] = @ + 1]
    /\ \/ /\ attempt[w] + 1 < MaxRetries
          /\ UNCHANGED <<target, adapters, adapter, posture, todo, order, missed,
                         failed, counted, skipped, standing>>
       \/ /\ attempt[w] + 1 = MaxRetries
          /\ OrderFailed(w)
    /\ UNCHANGED <<sessionVars, step, tradeVars>>

\* Any other exception is not retried.
CancelFails(w) ==
    /\ step[w] = "cancel"
    /\ order[w] # None
    /\ BrokerCancels(order[w])
    /\ OrderFailed(w)
    /\ UNCHANGED <<sessionVars, step, attempt, tradeVars>>

\* Mutant: an accepted cancellation counts, whatever get_order says.
VerifyOrderTrusted(w) ==
    /\ step[w] = "verify"
    /\ step' = [step EXCEPT ![w] = "cancel"]
    /\ counted' = [counted EXCEPT ![w] = @ \cup {order[w]}]
    /\ order' = [order EXCEPT ![w] = None]
    /\ UNCHANGED <<sessionVars, target, adapters, adapter, posture, todo, attempt, missed,
                   failed, skipped, standing, tradeVars, status>>

\* get_order after an accepted cancellation: only a terminal order counts.
VerifyOrder(w) ==
    /\ step[w] = "verify"
    /\ step' = [step EXCEPT ![w] = "cancel"]
    /\ \/ /\ status[order[w]] = "closed"
          /\ counted' = [counted EXCEPT ![w] = @ \cup {order[w]}]
          /\ order' = [order EXCEPT ![w] = None]
          /\ UNCHANGED <<target, adapters, adapter, posture, todo, missed, failed, skipped,
                         standing>>
       \/ OrderFailed(w)   \* still open, or get_order raised
    /\ UNCHANGED <<sessionVars, attempt, tradeVars, status>>

\* The pass is over.  A sweep that missed an order escalates to the posture of
\* the deployment; execute_emergency_posture cancels again when the posture
\* says so, and whatever it raises is swallowed.
EndPass(w) ==
    /\ step[w] = "cancel"
    /\ order[w] = None
    /\ todo[w] = {}
    /\ \/ /\ missed[w] /\ ~posture[w]
          /\ adapter[w] \in Cancelling
          /\ w \notin broken
          /\ BeginPass(w, adapter[w], TRUE)
          /\ UNCHANGED <<target, adapters, failed, counted, skipped, standing>>
       \/ /\ target[w] # None
          /\ step' = [step EXCEPT ![w] = "sweep"]
          /\ NoPass(w)
          /\ UNCHANGED <<target, adapters, failed, counted, skipped, standing>>
       \/ /\ target[w] = None
          /\ Finish(w)
          /\ NoPass(w)
    /\ UNCHANGED <<sessionVars, tradeVars, status>>

\* execute_emergency_posture, called by an operator.
BeginPosture(w, d) ==
    /\ step[w] = "idle"
    /\ w \notin broken
    /\ d \in Cancelling
    /\ BeginPass(w, d, TRUE)
    /\ UNCHANGED <<sessionVars, target, adapters, failed, counted, skipped, standing,
                   tradeVars, status>>

-----------------------------------------------------------------------------
(* deactivate_kill_switch *)

\* The first active row of the target is stamped; the update waits while
\* another session holds the row.
Deactivate(w, t) ==
    /\ w \notin broken
    /\ \E row \in Active(w) :
          /\ row[1] = t
          /\ \A v \in Workers \ {w} : row \notin lifted[v]
          /\ lifted' = [lifted EXCEPT ![w] = @ \cup {row}]
          /\ told' = told \ {row}
    /\ UNCHANGED <<halts, added, broken, events, switchVars, tradeVars, status>>

-----------------------------------------------------------------------------
(* Failures and the broker *)

\* A statement of w's session fails: what it had flushed is rolled back and
\* nobody calls rollback(), so it raises until the process restarts.
DbError(w) ==
    /\ w \notin broken
    /\ broken' = broken \cup {w}
    /\ added' = [added EXCEPT ![w] = {}]
    /\ lifted' = [lifted EXCEPT ![w] = {}]
    /\ UNCHANGED <<halts, events, told, switchVars, tradeVars, status>>

\* The process dies and starts again with a fresh session.
Crash(w) ==
    /\ broken' = broken \ {w}
    /\ added' = [added EXCEPT ![w] = {}]
    /\ lifted' = [lifted EXCEPT ![w] = {}]
    /\ Finish(w)
    /\ NoPass(w)
    /\ trade' = [trade EXCEPT ![w] = "idle"]
    /\ subject' = [subject EXCEPT ![w] = None]
    /\ UNCHANGED <<halts, events, told, checked, status>>

\* The broker fills, cancels or expires an open order.
BrokerCloses(o) ==
    /\ status[o] = "open"
    /\ status' = [status EXCEPT ![o] = "closed"]
    /\ UNCHANGED <<sessionVars, switchVars, tradeVars>>

-----------------------------------------------------------------------------

\* A kill-switch request goes on.
Proceed(w) ==
    \/ \E d \in Deployments : SweepAdapter(w, d)
    \/ SweepFails(w) \/ EndSweep(w) \/ SaveEvent(w) \/ SaveFails(w)
    \/ \E o \in Orders : TakeOrder(w, o) \/ SkipOrder(w, o)
    \/ CancelAccepted(w) \/ CancelTransient(w) \/ CancelFails(w)
    \/ VerifyOrder(w) \/ EndPass(w)

Trading(w) ==
    \/ \E o \in Orders : CheckKillSwitch(w, o)
    \/ CommitOrder(w) \/ SubmitOrder(w) \/ RefuseOrder(w) \/ CommitOther(w)

Next ==
    \/ \E w \in Workers :
          \/ \E t \in Targets : BeginActivation(w, t) \/ Deactivate(w, t)
          \/ \E d \in Deployments : BeginPosture(w, d)
          \/ Proceed(w) \/ Trading(w) \/ DbError(w) \/ Crash(w)
    \/ \E o \in Orders : BrokerCloses(o)

Spec == Init /\ [][Next]_vars

\* A thread that runs a kill-switch request goes on with it.
FairSpec == Spec /\ \A w \in Workers : WF_vars(Proceed(w))

-----------------------------------------------------------------------------
(* Properties *)

\* An order reaches the broker under a halt its own worker has flushed or
\* committed only if it had passed its check before that halt was saved: one
\* order in flight may slip through, and none that is checked later.
OwnHaltRespected ==
    \A w \in Workers : trade[w] = "saved" =>
        \A row \in Active(w) :
            row[1] \in Consulted(subject[w]) /\ row[2] = w => row[3] > checked[w]

\* orders_cancelled is honest: an order counted by a sweep or a posture is
\* terminal at the broker and stays so.
CountedIsClosed == \A w \in Workers : \A o \in counted[w] : status[o] = "closed"

\* When the halt is about to be recorded, every order that stood open at an
\* affected broker when the activation began is terminal or on its failed
\* list, whatever failed, filled or was retried in between; the exception is an
\* order that the broker listed without an id, which nothing accounts for.
StandingOrdersSwept ==
    \A w \in Workers : step[w] = "save" =>
        \A o \in standing[w] \ skipped[w] : status[o] = "closed" \/ o \in failed[w]

\* Every activation and every posture ends: retries are bounded and an
\* escalation does not escalate again.
RequestsEnd == \A w \in Workers : step[w] # "idle" ~> step[w] = "idle"

-----------------------------------------------------------------------------
(* Claims of the repository that the code does not keep *)

\* kill_switch_service.py: "Even if external calls failed, the halt is
\* recorded durably": an activation that ends in a process that lives, on a
\* session that works, leaves an active event for its target.
HaltRecorded ==
    [][\A w \in Workers :
          /\ step[w] # "idle" /\ target[w] # None
          /\ step'[w] = "idle"
          /\ w \notin broken /\ ~Crash(w)
          => \E row \in Active(w)' : row[1] = target[w]]_vars

\* kill_switch_service.py: the halt goes "to durable storage": no order passes
\* the check of any worker under a halt that was reported active.
HaltEnforced ==
    [][\A w \in Workers, o \in Orders :
          CheckKillSwitch(w, o) => \A row \in told : row[1] \notin Consulted(o)]_vars
=============================================================================
