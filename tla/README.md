# FXLab: a TLA+ verification project

FXLab is a trading platform: a FastAPI service (`services/api`) that compiles
strategies, runs research backtests, and executes live orders through broker
adapters under a risk gate and a kill switch. This directory holds TLA+ models of
the parts where interleaving and failure decide correctness, TLC configurations
that check them on small instances, and TLAPS proofs for every instance.

Paths below are relative to the repository root.

## 1. Inventory

| Component | State | Operations | Hard because | Correct when |
|---|---|---|---|---|
| Live execution (`services/api/services/live_execution_service.py`) | order rows, one session per process, position cache | submit, cancel, sync, queries | several processes, crash between commit and broker call, lost answers | row before broker order; one broker order per client id; the table claims nothing false |
| Order repository (`repositories/sql_order_repository.py`, `sql_transaction_manager.py`) | rows, flush, commit, row version | save, update_status, get, list | row locks, last write wins, sessions inactive after a failed flush | rows and broker ids never lost |
| Orphan recovery (`services/orphaned_order_recovery_service.py`) | snapshot of open rows | recover per deployment or all | its snapshot goes stale; absence at the broker is ambiguous; nobody commits | the table does not depend on its guesses |
| Kill switch (`services/kill_switch_service.py`, `sql_kill_switch_event_repository.py`) | event rows, in the shared session | activate, deactivate, is_halted, emergency posture, verify | long sweep with retries beside running submissions; flush without commit | honest counts; nothing standing is missed; halts are obeyed |
| Research run pool (`services/run_executor_pool.py`, `research_run_service.py`, `sql_research_run_repository.py`) | run rows, tasks, semaphore, threads | submit, execute, cancel with abort | a cancelled task does not stop its thread; unlocked read-validate-write on a session that all share and nobody commits | results before completion; permits accounted; everything ends |
| Circuit breaker (`infrastructure/circuit_breaker.py`, used by `resilient_adapter.py`) | CLOSED/OPEN/HALF_OPEN, counters, opening time; a copy of them in Redis, key by key | execute, reset, load, persist | processes share the copy and write it in pieces; keys expire; Redis fails | no call while open or before the timeout; probes limited; an open breaker is probed |
| Risk gate (`services/risk_gate_service.py`, position cache of the live service) | limits, cached snapshot of positions and account | set, clear, check, enforce; fill, use, invalidate the cache | snapshot of two calls, two seconds old, of whichever deployment came last, judged while other workers send and the broker fills | exposure stays within the limit plus what snapshots cannot show |
| Idempotency middleware (`middleware/idempotency.py`) | keys, cached responses | start, store, replay, expire | concurrent first requests | a key is executed once |
| Drain and lifecycle (`middleware/drain.py`, `infrastructure/lifecycle_manager.py`) | in-flight count, draining flag | enter, leave, drain | shutdown racing requests | none is lost |
| Deployment lifecycle, governance (`services/deployment_service.py`, `governance_service.py` and their repositories) | states, transitions, reviews, audit events | seven transitions, submit, review, approve, reject | decisions by a row loaded without a lock; sessions that update only changed columns | nothing starts unapproved; every decision has a second person |
| Strategy execution engine, loop manager (`services/worker/execution/strategy_execution_engine.py`, `infrastructure/execution_loop_manager.py`, `routes/execution_loop.py`) | state, counters, registry | start, stop, pause, resume, process_bar, register, stop_all | bars in flight while operators, kill switch and shutdown change the state; state read and set in different critical sections | bars and orders accounted for; halts obeyed; terminal states final; errors trip |
| Partial-fill monitor, reconciliation | order rows, reports | scan, repair | write rows from broker snapshots | do not undo newer state |
| Market-data streams, login lockout, token revocation, paper/shadow execution | registries, counters | - | threads, time windows | lower priority |
| Strategy compiler, indicators, backtests, reports, exports | - | pure numerics, read-only queries | - | not modelled |

The parts meet as follows. The routes are coroutines that call blocking services,
so a worker process serves one live request at a time; kill-switch routes run in
the thread pool, beside it. The live service and the kill switch of a process
share ONE long-lived SQLAlchemy session, so a commit of either publishes what
both have flushed. Processes meet in the database (row and unique-key locks) and
at the broker. A submission consults the kill switch (step 2), looks for its
client order id (3), asks the risk gate (4), inserts and commits its row (5),
calls the broker (6) and commits the acknowledgement (7). Broker calls
go through the circuit breaker of their process. Recovery runs in a
session of its own. Deployment and governance requests have a session each. The
execution engine asks the same kill switch per bar and sends its orders to its
broker adapter itself. The run service hands runs to the pool, whose worker threads
write run rows on the session the event loop uses too.

## 2. Modules

### OrderLedger and LiveExecution

`OrderLedger` is what the orders table promises, with no worker, session, request,
crash or recovery in it: a row is entered before its order is placed; an order is
placed once; a row may lag behind its order or be given up as rejected or expired,
but it is never ahead of it (`Behind`), and never forgets the broker's id; success
is confirmed to a caller only once the table has the id. `LiveExecution` is the
code. The refinement mapping (`Ledger`) is direct: the committed `orders`, the
`broker`, and the `acked` submissions; sessions, requests, wire and answers are
hidden. Every commit, whichever session makes it and whatever else it publishes,
must be one `Publish`. A recovery must leave no trace: it guesses that an order
which is not open at the broker never arrived, and a caller that committed it would
break the refinement (this is the mutant of `ImplementsLedger`).

Several `Workers`, each with a live session and a recovery session. `orders` is
the committed table, `pend` what each session has flushed. A worker step is the
code between two interactions with the database or the broker, so every crash
point the code has is between two steps.

| Model | Code |
|---|---|
| `BeginSubmit`, `Refuse`, `Lookup` | `submit_live_order` steps 0-4 |
| `SaveOrder`, `SaveDuplicate` | step 5, `SqlOrderRepository.save`; IntegrityError leaves the session inactive (`broken`) |
| `CommitOrder` | the commit before the broker call |
| `CallSubmit`, `ReceiveAck`, `ReceiveError` | step 6 and its except branch |
| `WriteAck`, `CommitAck`, `WriteReject`, `CommitReject` | step 7 and the rejection |
| `BeginCancel` ... `CommitCancel` | `cancel_live_order` |
| `BeginSync` ... `WriteSync` | `sync_order_status`, which flushes and does not commit |
| `BeginRecovery` ... `EndRecovery` | `recover_orphaned_orders`, and the callers (`main.py:1187`, `routes/live.py:502`), which close the session without a commit |
| `UpdateStatus` | `update_status`: any status over any status, `broker_order_id` only when given |
| `StatementTimeout` | the `statement_timeout` set on every connection in `db.py` |
| `DbError`, `Crash` | a failing statement, the death of a process |
| `BrokerCreate`, `BrokerDrop`, `BrokerAdvance` | the broker (external) |

A row keeps its status and whether it has a `broker_order_id`. Quantities,
prices, time stamps and the order-event log are left out; the pre-trade checks are
one nondeterministic `Refuse`. The broker of the model does NOT deduplicate
client order ids: `AtMostOneBrokerOrder` rests on the code alone.

The broker answers a submission with any status (the adapters map `pending` and
partial fills too) and with or without a `broker_order_id`, which the contract leaves
optional; a submission is `acked` when the row it commits has one. A cancellation
returns the order as it is fetched afterwards, in any status. What the broker has
once shown of an order it does not take back in the model. The adapters' tables of
statuses are coarser: Alpaca's `done_for_day` is read as filled although the order
may trade again the next day; the model has no such order.

Two notes on `update_status`. The ORM loads the row again before it writes (no
object outlives the call that loaded it), so a write merges with the newest
committed row, as `Visible` does; the ORM omits the status column when the row it
loaded has that status already, and the model writes it all the same. And the
recovery passes a `datetime` where `update_status` parses a string: with a broker
that reports `submitted_at` the import raises after status and id are assigned,
is reported as skipped, and reaches the database with the next flush or commit of
the session, which is closed. The model writes at once, and `EndRecovery` rolls it
back.

### KillSwitch

`halts` are the committed active events, `added` and `lifted` what a worker's
session has flushed: `Active(w)` is what a query of `w` sees. An activation
(`BeginActivation`) sweeps the affected adapters (`SweepAdapter`), takes the open
orders of each (`TakeOrder`), passes over one that is listed without a
`broker_order_id` (`SkipOrder`; the code neither cancels it nor reports it as
failed), cancels with retries (`CancelAccepted`,
`CancelTransient`, `CancelFails`), verifies (`VerifyOrder`), escalates to the
emergency posture where an order was missed (`EndPass`) and saves the event LAST
(`SaveEvent`). `SweepFails` is the exception nothing catches. Beside it the
worker's live request checks, commits and sends (`CheckKillSwitch`,
`CommitOrder`, `SubmitOrder`); `CommitOther` is any other commit of the session.
`told`, `standing`, `skipped` and `checked` are history variables the properties
need. `StandingOrdersSwept` speaks of the standing orders that were not skipped: of
the others nothing holds.

Scopes are as in the code: a check consults the global switch and those of the
order's strategy and symbol; a sweep affects every adapter except those of
another strategy. Position flattening is not modelled.

### RunPool

The coroutine of a run (`task`), its thread (`thread`), the semaphore (`free`),
the tracker (`inflight`) and concurrent cancel requests. Coroutines interleave
only at awaits (`LoopFree` keeps them out while one is inside `update_status`);
threads interleave with everything, so `update_status` is two steps, validation
and assignment (`StartRun`/`MarkRunning`, `CompleteRun`/`MarkCompleted`,
`FailRun`/`MarkFailed`, `PersistCancel`/`MarkCancelled`). Cancelling a task
(`AbortTask`, `UnwindTask`) frees its permit and calls off a thread that has not
begun; one that has begun goes on. `ExecuteSynchronously` is the path without
`defer_execution`: it blocks the event loop and is one step.

All of it uses one session (`main.py:1463`) that nobody commits or rolls back. When a
statement or a flush fails (`DbError`), everything flushed since the process began is
gone and the session is unusable: `Assigns` is not possible any more, `MarkRaises` and
`CancelRaises` are the exceptions out of the thread and out of the cancel request.
A request that has aborted the task and then fails to write CANCELLED leaves a thread
that works on, without a permit, for a run nobody marked. `StrayIsCancelled` is
therefore stated for a session that works. The permits, the end of every task and the
end of every cancel request hold all the same. `BeginCancel` and `PersistCancel`
are two steps for every run; for a pending or queued run the code does not await
between them, so the model has a few interleavings more than the code.

### Breaker and CircuitBreaker

`Breaker` is what a process may expect of its breaker, with no Redis in it: calls
are admitted while closed; a threshold of consecutive failures opens; an open
breaker admits a probe only once it has cooled; at most `MaxProbes` probes are out
before a success or failure settles it; a restart may bring it back in any mode.
`CircuitBreaker` is the code: `_load_state_from_redis` and
`_persist_state_to_redis` key by key (`LoadState`, `LoadFailures`, `LoadOpened`,
`WriteState`, `WriteFailures`, `WriteOpened`), failing at any of them
(`LoadFails`, `PersistFails`; a breaker without Redis is one for which they always
do), `Restart` and `KeyExpires` (each key has a time to live of its own). The lock is held for a whole `execute`, so a
process makes one call at a time. `Succeeds`, `FailsTransiently`,
`FailsPermanently` and `FailsOtherwise` are the call's outcomes; the last is the
exception no handler sees, which leaves a half-open breaker with its probe spent.
An opening time is an age up to the timeout. A failure count restored from Redis
may already be at the threshold; counting stops there. `Abstract` is the
refinement mapping: mode, failures and probes are the process's own, `cooled` is
an age that has reached the timeout.

### RiskGate

The steps of `submit_live_order` around the gate: `Begin` uses a fresh cache as it
is, otherwise `FetchPositions` and `FetchAccount` fill it by two broker calls;
`Pass` and `Refuse` are `enforce_order`; `Send`, `SendLost`; `Invalidate` after the
answer is committed, `CommitFails` when it cannot be (the cache survives, but so
does the inactive session that refuses further orders). Orders are single units of
one symbol: `PositionFits` and `OpenOrdersFit` are exact for them, the checks on
order value, concentration and daily loss may refuse anything. `_PositionCache`
also carries a pending exposure that no check reads. The cache is not keyed by
deployment; the model keeps that (`snapshot[w].of`). Limits are constants: a worker
that finds none refuses, and lifted or changed limits bound nothing.

The account of both live adapters says `pending_orders_count = 0` whatever is open
(`alpaca_broker_adapter.py:549`, `schwab_broker_adapter.py:678`):
`PendingOrdersCount` is that constant. (Alpaca's `daily_pnl` is 0 too, line 548, so
that with it the daily-loss check never refuses.) With open orders unlimited, what
the position limit guarantees depends on how many orders were out at once. Two
history variables say so: `most`, the most orders of a deployment and side that were
ever outstanding together, and `misjudged`, those that passed by the positions of
another deployment. `ExposureBounded` is the limit plus both, plus one order per
other worker.

### Governance

A request has a session and a transaction: `Load` reads the row without a lock (and
keeps a dict), `MayTransition` and `MayDecide` decide by it, `Reload` is the second
read that the update itself makes (`fresh`), `Write` waits for the row lock,
`CommitTransition` and `CommitDecision` publish row and trail together; `Abort` rolls
back. Activation and deactivation write two states under one lock and are seen
together. Both commits send the columns that differ from `fresh`, as the ORM does: a
concurrent review may leave the status of one reviewer beside the name of another. No operation requests `failed`. `review_override` has
no route; approval requests are inserted outside the API.

### ExecutionLoop

Threads push bars into engines. A step is a critical section of the engine's lock
or a call outside of it: `ProcessBar` (is it running?), `CheckKillSwitch`,
`PauseHalted`, `EvaluateStrategy`, `EvaluateSignal`, `SubmitOrder`, `CountOrder`,
`CountBar`, `ResetErrors`, and `HandleError`, which assigns FAILED whatever the
state is. Any answer of the adapter is counted as an order submitted, one with status
REJECTED too (`strategy_execution_engine.py:727`); a call that raises is not. Routes are coroutines without an await: `StartLoop`, `StopLoop`,
`PauseLoop`, `ResumeLoop` are one step each. `stop_all` is a snapshot, a look and a
stop per engine, and the clearing of the registry (`StopAll`, `Inspect`,
`StopInspected`, `ClearRegistry`). Histories: bars admitted and dropped, orders that
reached the broker, halts so far and at a thread's check. The manager and the engine
factory are not wired in `main.py`, where the routes answer 503.

## 3. Runs

| Run | Instance | Shows |
|---|---|---|
| `live_orders` | 2 workers, 1 id, recovery, answers of any status, lost replies, crashes, fairness | `TypeOK`, `PersistedBeforeSubmit`, `AtMostOneBrokerOrder`, `AckedHasBrokerId`, `NoFalseClaim`, `RowsKeepIdentity`, `ImplementsLedger` (refinement), `RequestsEnd` (113 534 states) |
| `live_terminal` | 2 workers, 1 id | violation of `TerminalIsFinal` |
| `kill_switch_sweep` | 1 worker, 2 orders at 2 adapters, 3 targets, fairness | `TypeOK`, `CountedIsClosed`, `StandingOrdersSwept`, `OwnHaltRespected`, `RequestsEnd` (396 000 states) |
| `kill_switch_recorded` | 1 worker, 1 order | violation of `HaltRecorded` |
| `kill_switch_enforced` | 2 workers, 1 order | violation of `HaltEnforced` |
| `run_pool` | 2 runs, pool of 1, 2 cancel requests, a session that may fail, fairness | `TypeOK`, `CompletedHasResult`, `PermitsAccounted`, `StrayIsCancelled`, `OnlyCancelRaces`, `TasksEnd`, `CancelsEnd` (87 000 states) |
| `run_pool_cancelled` | 1 run, 1 cancel request | violation of `CancelledIsFinal` |
| `circuit_breaker` | 2 processes, threshold 2, 2 probes, timeout 1, fairness | `TypeOK`, `ImplementsBreaker` (refinement), `OpenIsProbed` (391 000 states) |
| `risk_gate` | 2 workers, 2 deployments, position limit 1, 4 orders | `TypeOK`, `ExposureBounded` (1.8 million states, symmetric) |
| `risk_open_orders` | 1 worker, 1 deployment, limit of 1 open order | violation of `OpenOrdersWithinLimit` |
| `governance` | 2 sessions, 1 deployment or 1 review, 3 users | `TypeOK`, `StartedWasApproved`, `TrailIsPath`, `DecidedBySecondPerson` (107 000 states, symmetric) |
| `execution_loop` | 2 engines (live, shadow) of one deployment, 2 threads, 2 and 1 bars, 2 errors, room for 1 engine, 1 halt each | `TypeOK`, `BarsCountedOnce`, `OrdersReported`, `HaltRespected`, `BreakerTrips`, `StopAllStops`, `TerminalStays` (1.9 million states, symmetric) |

Bounds. Two workers are enough for every race on a row: a race is between one
session that holds or has read it and another. One id is enough for
the invariants, which speak of one row at a time; that a commit publishes other
rows flushed in the same session is covered by the proofs, which have any ids. Two adapters, one of which
escalates (`Cancelling`), and two orders let one cancellation fail while another
succeeds; `MaxRetries = 2` has a retry and a last
attempt (the code has 3, and only the length of the loop depends on it).
`MaxEvents` bounds the activations of a
worker: 2 gives activate, lift, activate again. Two runs in a pool of one
permit make one wait for the other; two cancel requests contend for the pool's
lock. Two breaker processes share one copy; a threshold of 2 separates the first
failure from the last, 2 probes a spent one from a free one. Four orders let two
workers go beyond a position limit of 1 together; one deployment buys and the other
sells (`OppositeTrades`), so that a cache filled for one misjudges the other. Two
sessions are one race on a row; three users are a submitter and two reviewers who
disagree. Deployments and reviews share no row and no lock, so that the constraint
`OneKind` explores behaviours of either kind and not their product. Two engines of one deployment in a
manager with room for one make `register` refuse; two threads and two bars give
concurrent failures up to the limit. The proofs remove these bounds for the safety properties they cover.
`CHECK_DEADLOCK FALSE` is set for the pool only: when all run ids are used and
finished nothing remains to be done.

Fairness. A worker goes on with the request it serves (`WF(Proceed(w))`):
processes and threads are scheduled, broker calls have timeouts (an unanswered
call raises, `ReceiveError`), a flush that waits for a row lock is ended by
`statement_timeout`, and retries are counted. A submission does not stay on the
wire for ever. In the pool the event loop serves every ready coroutine and the
threads run; that a backtest terminates is assumed. For the breaker, time passes,
clients keep calling (without calls it does nothing, by design), and a call, a
write or a read that has begun ends; nothing is assumed of Redis, resets or
restarts. No fairness is assumed of
callers, of crashes, or of the broker's progress on an order.

### What the violations show

1. `live_terminal`. Statuses called terminal are overwritten by an older answer
   of another worker; no caller passes `expected_version`.
2. `kill_switch_recorded`. An adapter that cannot list its orders ends the
   activation with no event, although "the halt is recorded durably" even if
   external calls failed.
3. `kill_switch_enforced`. The event is flushed, not committed. Other processes
   do not see a halt that was reported active.
4. `run_pool_cancelled`. The thread of a cancelled run writes its result, and
   may overwrite CANCELLED.
5. `risk_open_orders`. `max_open_orders` refuses nothing, because the adapters report
   no open orders.

Seen while reading and modelled, without a run of its own:

- The position cache is shared by deployments, although the gate's interface speaks
  of "Current positions for the deployment": nothing bounds `misjudged`.
- A recovery marks an order expired that the broker may have filled, because it
  searches the broker's OPEN orders only. It has no effect today, as nobody commits
  it; with a commit it would write off orders that exist.
- `strategy_execution_engine.py:525` assigns FAILED without `validate_transition`, so
  that a paused engine and a stopped one become failed when a bar in flight raises.
  `libs/contracts/execution_loop.py` (84-85, 121-153) has no such transitions,
  allows none out of STOPPED, and `tests/unit/test_execution_loop_contracts.py:171`
  tests that "PAUSED -> FAILED is not allowed". `HandleError` does what the code
  does. `BreakerTrips` says only that an engine with too many consecutive errors is
  not running, and `TerminalStays` that no terminal engine comes back to life; both
  hold whichever side of the disagreement is put right.
- A sweep passes over an order listed without a `broker_order_id`
  (`kill_switch_service.py:558`), and the activation reports nothing of it.
- A breaker restored from a half-written copy can be open without a time, where
  `_execute_open` asserts there is one; it refuses until it is reset.
- A deployment state called terminal can be left: a request that loaded the row
  before it was deactivated writes its own state over it.
- An engine that `register` refuses keeps running and no route reaches it; one
  registered during `stop_all` is forgotten without being stopped; a failed one
  cannot be removed by the API.
- `stop` of an engine does not wait for the bar in flight, which its interface
  (`libs/contracts/interfaces/execution_loop.py:105`) says it does. An engine in
  LIVE mode sends orders to the broker adapter itself, although the comment at
  `strategy_execution_engine.py:212` says they are delegated to the live service.
- The drain middleware copies the accepting flag when it is built
  (`middleware/drain.py:164`); `stop_accepting` of the shared instance does not
  reach the one that serves requests.

Wiring seen while reading, outside the models: `main.py` builds the live service
with `transaction_manager=None`, in which case submissions raise a configuration
error before the insert, so that the models describe the service as its tests and
documentation wire it; `set_kill_switch_service` has no caller; the recovery
route imports a module that does not exist; the research session is never
committed.

## 4. Proofs

Proofs are for any sets of workers, ids, orders, runs and any bounds, from the
named assumptions of each module: `None` is none of the values it is added to,
`Requests` are the modelled operations, bounds are naturals, functions on orders
have the right domain. Workers (RiskGate) and threads (ExecutionLoop) are assumed
finite, where orders or bars are counted; nothing else is.

- `LiveExecution_proofs`. `TypeCorrect` from `TypeInv`: `TypeOK` with where a
  request has an order (`CidInv`) and an answer (`ReplyInv`). `Persisted` and
  `OneBrokerOrder` from `SubmitInv`. Neither property is inductive: that an id is
  sent once follows from who may be between insert and broker call. `LockInv`: a
  row is flushed by at most one session. `InsertInv`, `SavedInv`: a flushed row
  that is not in the table yet is exactly the insert of a submission between its
  insert and its commit. `UnwrittenInv`: before its row is committed an order is
  neither on the wire nor at the broker. `SendInv`: at most one worker is about to
  send an id, and nobody has sent it before. `WireInv`: what is on the wire is the
  only submission and was never placed. `TodoInv`: recoveries work on durable rows.

  `TableIsTruthful`, `AckedKeepsBrokerId`, `IdentityKept` and `LedgerImplemented`
  rest on `RecordInv`, added to `SubmitInv`. `NoFalseClaim` is not inductive: a
  commit publishes whatever its session has flushed, and that was written from an
  answer received steps ago. `RowInv`: committed and flushed rows are `Truthful`,
  never ahead of the broker, and a flushed row knows at least what the committed one
  does. `AnswerInv`, `ReplyBehindInv`: so is every answer a worker still holds,
  because what the broker has once shown of an order it never takes back
  (`BrokerStep`); a recovery may guess, so its session is exempt, and it is never
  published. `PlacedInv`: an order has a status exactly when it was placed.
  `AckInv`: a submission confirmed with a broker id has it in the table. `TableStep`
  sorts the actions by what they do to a row (flush an insert, overwrite, publish,
  discard, leave alone), so that `RowNext` and `AckNext` treat five cases and not
  thirty actions. The refinement needs the same invariant: `PublishRefines` shows
  that a commit is a `Publish`, `LedgerStep` sorts the other actions into `Place`,
  `Progress` and stutters.
- `KillSwitch_proofs`. `TypeCorrect` from `ShapeInv` (where a request has a
  target, an order, an attempt left and room for its event). `Counted` from `CountInv`: closed orders never open
  again because a submission's order is new (`SubjectInv`), and the orders a pass
  works on have been sent (`ListedInv`). `OwnHalt` from `HaltInv`: between check and commit the
  active rows the worker wrote for its order are later than the check; after the
  commit so are those it has lifted since, which a rollback would bring back.
  `StandingAccounted` from `SweepInv`: while an activation sweeps, an order that
  stood open when it began is closed, on the failed list, passed over for want of a
  broker id, at hand, or still ahead of the sweep (`Ahead`: listed in this pass, or at an adapter not yet taken up). A
  pass of the posture, which adds nothing to the failed list, is not counted on;
  between passes nothing is at hand (`PassInv`).
- `RunPool_proofs`. `CompletedResult` from `RunInv` (a thread past its save has a
  stored result). `StrayRunIsCancelled` from `StrayInv`: an abort is for a run that
  was running, so its thread has begun, and once it has, only the thread and cancel
  requests write the row, as long as the session works. The same invariant gives the action property
  `OnlyCancellationsRace`: between a thread's validation and its assignment the row
  can only have become cancelled, or been lost with the session. `Permits` from `PermitInv`, by the cardinality of the set of
  holders when one enters or leaves; `TypeCorrect` takes the range of `free` from it.
- `CircuitBreaker_proofs`. `TypeCorrect` has the limit on probes in it: a half-open
  breaker that persists its transition has a probe left. `BreakerImplemented`: the
  initial states map to initial states, and every action of `CircuitBreaker` maps to
  one action of `Breaker` or to a stutter (the writes, and loads that change
  nothing).
- `RiskGate_proofs`. `ExposureIsBounded`, for any deployments, workers and limits,
  from `GateInv`. The bound is not inductive: an order passes on a view of the position
  that was taken steps ago. `MostInv`: `most` covers what is outstanding. `GrowInv`:
  once a deployment is exposed to its limit plus `most` plus `misjudged` (`Full`), a
  position fetched from then on is at its limit, so that only workers with an older
  view of it (`MayGrow`) can add to it, and each adds one order and forgets its view
  (`Invalidate`), or stops (`broken`); together they stay below the number of workers.
- `Governance_proofs`. `StartedIsApproved`: a trail is never shortened, and every
  state a session has loaded that lies behind the approval was committed with it.
  `DecisionNeedsSecondPerson`: a review once decided stays decided and its columns come
  from audited events (`ReviewInv`); what an update has reloaded is no newer than the
  row (`LoadedInv`), so that columns it leaves alone are those a second person wrote.
  `HistoryIsPath` from `HistoryInv`: whatever state a session has loaded was reached
  by a recorded transition, and stays so. `HistoryConnects` draws the conclusion: as
  the legal transitions have no cycle but freezing and unfreezing, a trail of this
  kind leads from `created` to the present state. It says so by closed sets of
  states, which needs no induction over paths, and is too expensive for TLC (every
  set of ten states, in every state), so that the run checks `TrailIsPath`.
- `ExecutionLoop_proofs`. Two layers. `BasicInv` (shape, where threads stand,
  `HaltRespected`, `BreakerInv`, `StopAllStops`) gives the three theorems of its
  parts (`BreakerInv` strengthens `BreakerTrips`: an engine at the limit is failed,
  and nothing resumes it) and, as an action property, `TerminalIsAbsorbing`. `AccountInv` keeps per
  engine the account of bars and orders with the number of threads at each place;
  `BarsAreCountedOnce` and `OrdersAreReported` are read off it, and `TypeCorrect`
  takes the bounds of the counters from it.

Only model-checked: the liveness properties (`RequestsEnd` of both modules,
`TasksEnd`, `CancelsEnd`, `OpenIsProbed`), which are out of the prover's reach. Every
invariant, action property and refinement of a passing run is a theorem.

## 5. Not modelled

Numeric code (indicators, compiler, backtests, P&L), reports, exports and views,
which are most of the repository's lines, have no protocol to check and compute with
decimals and floating-point series that TLC cannot enumerate. `build.py` and the
files under `files/` are the project's build driver. Authentication, streams and
paper execution are of lower priority. The rest is in the plan.

## 6. Plan

Done: the order path with its abstract ledger, the kill switch's sweep, the run pool, the circuit breaker
with its abstract specification, the risk gate, governance, the execution engine.

1. `Idempotency` and `Drain`: a key is executed once per window; shutdown against
   requests in flight, with the copied flag.
2. Kill switch: position flattening (two postures close one position twice) and
   `verify_halt`, which reports adapters it could not ask as verified.
3. The partial-fill monitor and reconciliation composed with `LiveExecution`: the
   monitor writes `cancelled` once the broker has only taken note of the request.
   Neither is started by `main.py` today.
4. The engine's transitions to FAILED that its contract forbids, as a run of their own.
5. The pool's claim that a failure marks the run FAILED (`SaveFails` does not).
