--------------------------- MODULE ExecutionLoop ---------------------------
(***************************************************************************)
(* StrategyExecutionEngine (one engine per deployment), its registry       *)
(* ExecutionLoopManager and the /execution/loops routes.  Threads of the   *)
(* bar streams push bars into an engine while operators start, pause,      *)
(* resume and stop it and a shutdown runs stop_all.  Each step of          *)
(* process_bar is one critical section of the engine's lock or one call    *)
(* made outside of it; a route has no await and is one step.  The candle   *)
(* buffer, the signal counters and the times, which only the diagnostics   *)
(* and the strategy read, are left out.                                    *)
(***************************************************************************)
EXTENDS Naturals, FiniteSets

CONSTANTS
    Loops,                \* engines the factory makes, each started once
    Threads,              \* threads that push bars
    Deployments,
    DeploymentOf,         \* the deployment_id of an engine's configuration
    ExecutionMode,        \* its execution_mode
    LiveService,          \* was a live_execution_service injected?
    MaxConsecutiveErrors, \* max_consecutive_errors
    MaxConcurrent,        \* max_concurrent of the manager
    MaxBars,              \* bound on the bars each engine admits
    MaxHalts,             \* bound on the halts of one engine's target
    None

ASSUME LimitsAssumption ==
    /\ MaxConsecutiveErrors \in Nat \ {0}
    /\ MaxConcurrent \in Nat \ {0}
    /\ MaxBars \in [Loops -> Nat] /\ MaxHalts \in Nat
ASSUME ConfigAssumption ==
    /\ DeploymentOf \in [Loops -> Deployments]
    /\ ExecutionMode \in [Loops -> {"shadow", "paper", "live"}]
    /\ LiveService \in BOOLEAN
ASSUME FiniteAssumption == IsFiniteSet(Threads)
ASSUME NoneAssumption == None \notin Loops

VARIABLES
    state,         \* _state of an engine
    bars,          \* _bars_processed
    submitted,     \* _orders_submitted
    errors,        \* _errors
    consecutive,   \* _consecutive_errors
    at,            \* where a thread stands in process_bar
    loop,          \* the engine whose bar it processes
    registry,      \* _loops of the manager
    stopper,       \* where stop_all stands
    todo,          \* engines of its snapshot it has still to stop
    target,        \* the engine it found not yet terminal
    swept,         \* engines in its results
    halted,        \* does is_halted answer True for the engine?
    halts,         \* history: halts so far
    seen,          \* history: halts at a thread's kill-switch check
    admitted,      \* history: bars that found the engine running
    skipped,       \* history: bars dropped by the kill switch
    received       \* history: orders that reached the broker

counters == <<bars, submitted, errors, consecutive>>
threadVars == <<at, loop, seen>>
managerVars == <<registry, stopper, todo, target, swept>>
switchVars == <<halted, halts>>
historyVars == <<admitted, skipped, received>>
vars == <<state, counters, threadVars, managerVars, switchVars, historyVars>>

LoopState == {"initializing", "running", "paused", "cooldown", "stopped", "failed"}

Terminal == {"stopped", "failed"}

\* Mutant: a paused engine may only be resumed.
TransitionsNoStopFromPaused ==
    [s \in LoopState |->
        CASE s = "initializing" -> {"running", "failed", "stopped"}
          [] s = "running"      -> {"paused", "cooldown", "stopped", "failed"}
          [] s = "paused"       -> {"running"}
          [] s = "cooldown"     -> {"running", "failed", "stopped"}
          [] OTHER              -> {}]

\* VALID_TRANSITIONS
VALID_TRANSITIONS ==
    [s \in LoopState |->
        CASE s = "initializing" -> {"running", "failed", "stopped"}
          [] s = "running"      -> {"paused", "cooldown", "stopped", "failed"}
          [] s = "paused"       -> {"running", "stopped"}
          [] s = "cooldown"     -> {"running", "failed", "stopped"}
          [] OTHER              -> {}]

Steps == {"idle", "gate", "halted", "pipeline", "signal", "submit", "answered",
          "count", "error", "done"}

TypeOK ==
    /\ state \in [Loops -> LoopState]
    /\ \A c \in {bars, submitted, errors,
                 consecutive, admitted, skipped, received} :
          c \in [Loops -> Nat] /\ \A l \in Loops : c[l] <= MaxBars[l]
    /\ at \in [Threads -> Steps]
    /\ loop \in [Threads -> Loops \cup {None}]
    /\ seen \in [Threads -> 0..MaxHalts]
    /\ registry \in [Deployments -> Loops \cup {None}]
    /\ stopper \in {"idle", "stopping"}
    /\ todo \in SUBSET Loops
    /\ target \in Loops \cup {None}
    /\ swept \in SUBSET Loops
    /\ halted \in [Loops -> BOOLEAN]
    /\ halts \in [Loops -> 0..MaxHalts]

Init ==
    /\ state = [l \in Loops |-> "initializing"]
    /\ bars = [l \in Loops |-> 0]
    /\ submitted = [l \in Loops |-> 0]
    /\ errors = [l \in Loops |-> 0]
    /\ consecutive = [l \in Loops |-> 0]
    /\ at = [t \in Threads |-> "idle"]
    /\ loop = [t \in Threads |-> None]
    /\ seen = [t \in Threads |-> 0]
    /\ registry = [d \in Deployments |-> None]
    /\ stopper = "idle"
    /\ todo = {}
    /\ target = None
    /\ swept = {}
    /\ halted = [l \in Loops |-> FALSE]
    /\ halts = [l \in Loops |-> 0]
    /\ admitted = [l \in Loops |-> 0]
    /\ skipped = [l \in Loops |-> 0]
    /\ received = [l \in Loops |-> 0]

Inc(counter, l) == [counter EXCEPT ![l] = @ + 1]

-----------------------------------------------------------------------------
(* Routes and registry *)

\* validate_transition and the assignment, under the engine's lock.
Transit(l, s) ==
    /\ s \in VALID_TRANSITIONS[state[l]]
    /\ state' = [state EXCEPT ![l] = s]

\* start, which refuses LIVE without the persisting service, stop, pause, resume
Start(l) ==
    /\ ExecutionMode[l] = "live" => LiveService
    /\ Transit(l, "running")

Stop(l) == Transit(l, "stopped")
Pause(l) == Transit(l, "paused")
Resume(l) == Transit(l, "running")

Registered == {d \in Deployments : registry[d] # None}

\* register refuses a second engine for a deployment and one too many.
MayRegister(l) ==
    registry[DeploymentOf[l]] = None /\ Cardinality(Registered) < MaxConcurrent

Unregister(d) == registry' = [registry EXCEPT ![d] = None]

\* POST: the engine the factory made runs before it is registered, and keeps
\* running when register refuses it.
StartLoop(l) ==
    /\ state[l] = "initializing"
    /\ Start(l)
    /\ registry' = IF MayRegister(l)
                   THEN [registry EXCEPT ![DeploymentOf[l]] = l] ELSE registry
    /\ UNCHANGED <<counters, threadVars, stopper, todo, target, swept,
                   switchVars, historyVars>>

\* DELETE: unregister follows a stop that succeeded, so a failed engine stays
\* in the registry.
StopLoop(d) ==
    /\ registry[d] # None
    /\ Stop(registry[d])
    /\ Unregister(d)
    /\ UNCHANGED <<counters, threadVars, stopper, todo, target, swept,
                   switchVars, historyVars>>

PauseLoop(d) ==
    /\ registry[d] # None
    /\ Pause(registry[d])
    /\ UNCHANGED <<counters, threadVars, managerVars, switchVars, historyVars>>

ResumeLoop(d) ==
    /\ registry[d] # None
    /\ Resume(registry[d])
    /\ UNCHANGED <<counters, threadVars, managerVars, switchVars, historyVars>>

\* stop_all takes its snapshot under the manager's lock ...
StopAll ==
    /\ stopper = "idle"
    /\ stopper' = "stopping"
    /\ todo' = {registry[d] : d \in Registered}
    /\ UNCHANGED <<state, counters, threadVars, registry, target, swept, switchVars,
                   historyVars>>

\* ... reads each engine's state ...
Inspect(l) ==
    /\ stopper = "stopping" /\ target = None /\ l \in todo
    /\ todo' = todo \ {l}
    /\ IF state[l] \in Terminal
       THEN swept' = swept \cup {l} /\ target' = None
       ELSE swept' = swept /\ target' = l
    /\ UNCHANGED <<state, counters, threadVars, registry, stopper, switchVars,
                   historyVars>>

\* ... stops it in another critical section, where it may have become terminal
\* since (the exception is recorded as its result) ...
StopInspected ==
    /\ target # None
    /\ \/ Stop(target)
       \/ "stopped" \notin VALID_TRANSITIONS[state[target]] /\ UNCHANGED state
    /\ swept' = swept \cup {target}
    /\ target' = None
    /\ UNCHANGED <<counters, threadVars, registry, stopper, todo, switchVars,
                   historyVars>>

\* ... and clears the registry, whatever was registered meanwhile.
ClearRegistry ==
    /\ stopper = "stopping" /\ todo = {} /\ target = None
    /\ registry' = [d \in Deployments |-> None]
    /\ stopper' = "idle"
    /\ swept' = {}
    /\ UNCHANGED <<state, counters, threadVars, todo, target, switchVars,
                   historyVars>>

-----------------------------------------------------------------------------
(* The kill switch the engine asks, as far as is_halted shows it *)

Halt(l) ==
    /\ ~halted[l] /\ halts[l] < MaxHalts
    /\ halted' = [halted EXCEPT ![l] = TRUE]
    /\ halts' = Inc(halts, l)
    /\ UNCHANGED <<state, counters, threadVars, managerVars, historyVars>>

Lift(l) ==
    /\ halted[l]
    /\ halted' = [halted EXCEPT ![l] = FALSE]
    /\ UNCHANGED <<state, counters, threadVars, managerVars, halts, historyVars>>

-----------------------------------------------------------------------------
(* process_bar *)

Move(t, from, to) ==
    /\ at[t] = from
    /\ at' = [at EXCEPT ![t] = to]

\* The thread returns from process_bar.
Return(t, from) ==
    /\ Move(t, from, "idle")
    /\ loop' = [loop EXCEPT ![t] = None]
    /\ seen' = [seen EXCEPT ![t] = 0]

\* A bar is admitted if the engine is running.
ProcessBar(t, l) ==
    /\ Move(t, "idle", "gate")
    /\ state[l] = "running" /\ admitted[l] < MaxBars[l]
    /\ loop' = [loop EXCEPT ![t] = l]
    /\ admitted' = Inc(admitted, l)
    /\ UNCHANGED <<state, counters, seen, managerVars, switchVars, skipped, received>>

\* Mutant: a kill switch that cannot be read lets the bar through.
CheckKillSwitchOpen(t) ==
    /\ at[t] = "gate"
    /\ seen' = [seen EXCEPT ![t] = halts[loop[t]]]
    /\ \/ halted[loop[t]] /\ Move(t, "gate", "halted")
       \/ Move(t, "gate", "pipeline")
    /\ UNCHANGED <<state, counters, loop, managerVars, switchVars, historyVars>>

\* is_halted, asked without the lock: an exception counts as halted.
CheckKillSwitch(t) ==
    /\ at[t] = "gate"
    /\ seen' = [seen EXCEPT ![t] = halts[loop[t]]]
    /\ \/ Move(t, "gate", "halted")
       \/ ~halted[loop[t]] /\ Move(t, "gate", "pipeline")
    /\ UNCHANGED <<state, counters, loop, managerVars, switchVars, historyVars>>

\* Mutant: the state read at the start of process_bar is still trusted.
PauseHaltedAnyhow(t) ==
    /\ Return(t, "halted")
    /\ state' = [state EXCEPT ![loop[t]] = "paused"]
    /\ skipped' = Inc(skipped, loop[t])
    /\ UNCHANGED <<counters, managerVars, switchVars, admitted, received>>

\* A halted bar is dropped; the engine pauses if it is still running.
PauseHalted(t) ==
    /\ Return(t, "halted")
    /\ state' = [state EXCEPT ![loop[t]] = IF @ = "running" THEN "paused" ELSE @]
    /\ skipped' = Inc(skipped, loop[t])
    /\ UNCHANGED <<counters, managerVars, switchVars, admitted, received>>

\* Mutant: a bar the freshness gate rejects is counted and goes on.
EvaluateStrategyFallsThrough(t) ==
    /\ \/ Move(t, "pipeline", "count") /\ bars' = Inc(bars, loop[t])
       \/ Move(t, "pipeline", "error") /\ UNCHANGED bars
       \/ Move(t, "pipeline", "signal") /\ UNCHANGED bars
    /\ UNCHANGED <<state, submitted, errors, consecutive, loop, seen, managerVars,
                   switchVars, historyVars>>

\* Buffer, freshness gate, indicators, position and strategy: a stale bar and
\* one without a signal go on to be counted, an exception to the handler.
EvaluateStrategy(t) ==
    /\ \/ Move(t, "pipeline", "count")
       \/ Move(t, "pipeline", "error")
       \/ Move(t, "pipeline", "signal")
    /\ UNCHANGED <<state, counters, loop, seen, managerVars, switchVars, historyVars>>

\* save_signal, evaluate and save_evaluation, any of which may raise; an
\* approved signal is submitted unless the mode is SHADOW.
EvaluateSignal(t) ==
    /\ \/ Move(t, "signal", "error")
       \/ Move(t, "signal", "count")
       \/ /\ Move(t, "signal", "submit")
          /\ ExecutionMode[loop[t]] # "shadow"
    /\ UNCHANGED <<state, counters, loop, seen, managerVars, switchVars, historyVars>>

\* submit_order of the broker adapter: the broker gets the order and answers,
\* with whatever status (REJECTED, too, is an answer), or it gets the order
\* and the answer is lost, or the call raises before.
SubmitOrder(t) ==
    /\ \/ Move(t, "submit", "answered") /\ received' = Inc(received, loop[t])
       \/ Move(t, "submit", "error") /\ received' = Inc(received, loop[t])
       \/ Move(t, "submit", "error") /\ UNCHANGED received
    /\ UNCHANGED <<state, counters, loop, seen, managerVars, switchVars,
                   admitted, skipped>>

CountOrder(t) ==
    /\ Move(t, "answered", "count")
    /\ submitted' = Inc(submitted, loop[t])
    /\ UNCHANGED <<state, bars, errors, consecutive, loop, seen, managerVars,
                   switchVars, historyVars>>

CountBar(t) ==
    /\ Move(t, "count", "done")
    /\ bars' = Inc(bars, loop[t])
    /\ UNCHANGED <<state, submitted, errors, consecutive, loop, seen, managerVars,
                   switchVars, historyVars>>

\* The bar went through: the errors are no longer consecutive.
ResetErrors(t) ==
    /\ Return(t, "done")
    /\ consecutive' = [consecutive EXCEPT ![loop[t]] = 0]
    /\ UNCHANGED <<state, bars, submitted, errors, managerVars, switchVars, historyVars>>

\* Mutant: a bar that failed is not a processed bar.
HandleErrorUncounted(t) ==
    LET l == loop[t] IN
    /\ Return(t, "error")
    /\ errors' = Inc(errors, l)
    /\ consecutive' = Inc(consecutive, l)
    /\ state' = [state EXCEPT ![l] =
            IF consecutive[l] + 1 >= MaxConsecutiveErrors THEN "failed" ELSE @]
    /\ UNCHANGED <<bars, submitted, managerVars, switchVars, historyVars>>

\* Mutant: the errors are compared with the limit before this one is counted.
HandleErrorLate(t) ==
    LET l == loop[t] IN
    /\ Return(t, "error")
    /\ errors' = Inc(errors, l)
    /\ consecutive' = Inc(consecutive, l)
    /\ bars' = Inc(bars, l)
    /\ state' = [state EXCEPT ![l] =
            IF consecutive[l] >= MaxConsecutiveErrors THEN "failed" ELSE @]
    /\ UNCHANGED <<submitted, managerVars, switchVars, historyVars>>

\* Mutant: the bar counts as an error only when it trips the breaker.
HandleErrorSilently(t) ==
    LET l == loop[t] IN
    /\ Return(t, "error")
    /\ errors' = IF consecutive[l] + 1 >= MaxConsecutiveErrors
                 THEN Inc(errors, l) ELSE errors
    /\ consecutive' = Inc(consecutive, l)
    /\ bars' = Inc(bars, l)
    /\ state' = [state EXCEPT ![l] =
            IF consecutive[l] + 1 >= MaxConsecutiveErrors THEN "failed" ELSE @]
    /\ UNCHANGED <<submitted, managerVars, switchVars, historyVars>>

\* The handler of the pipeline's exceptions: it fails the engine whatever
\* state the engine is in by then, and asks no validate_transition, so that a
\* paused or stopped engine fails as well, against VALID_TRANSITIONS.
HandleError(t) ==
    LET l == loop[t] IN
    /\ Return(t, "error")
    /\ errors' = Inc(errors, l)
    /\ consecutive' = Inc(consecutive, l)
    /\ bars' = Inc(bars, l)
    /\ state' = [state EXCEPT ![l] =
            IF consecutive[l] + 1 >= MaxConsecutiveErrors THEN "failed" ELSE @]
    /\ UNCHANGED <<submitted, managerVars, switchVars, historyVars>>

-----------------------------------------------------------------------------

Step(t) ==
    \/ CheckKillSwitch(t)
    \/ PauseHalted(t)
    \/ EvaluateStrategy(t)
    \/ EvaluateSignal(t)
    \/ SubmitOrder(t)
    \/ CountOrder(t)
    \/ CountBar(t)
    \/ ResetErrors(t)
    \/ HandleError(t)

Next ==
    \/ \E l \in Loops : StartLoop(l) \/ Inspect(l) \/ Halt(l) \/ Lift(l)
    \/ \E d \in Deployments : StopLoop(d) \/ PauseLoop(d) \/ ResumeLoop(d)
    \/ StopAll
    \/ StopInspected
    \/ ClearRegistry
    \/ \E t \in Threads, l \in Loops : ProcessBar(t, l)
    \/ \E t \in Threads : Step(t)

Spec == Init /\ [][Next]_vars

-----------------------------------------------------------------------------
(* Properties *)

\* The threads that stand at one of the places in a bar of engine l.
InBar(l, places) == {t \in Threads : loop[t] = l /\ at[t] \in places}

\* Every bar an engine admitted is accounted for once: in bars_processed, as
\* dropped by the kill switch, or on its way, whichever exception ended it.
BarsCountedOnce ==
    \A l \in Loops :
        admitted[l] = bars[l] + skipped[l]
            + Cardinality(InBar(l, Steps \ {"idle", "done"}))

\* orders_submitted never reports an order that did not reach the broker, and
\* an order it leaves out is matched by an error or is about to be reported.
\* (An order that the broker answers with status REJECTED is reported.)
OrdersReported ==
    \A l \in Loops :
        /\ submitted[l] <= received[l]
        /\ received[l] <= submitted[l] + errors[l]
               + Cardinality(InBar(l, {"answered", "error"}))

\* A bar goes through the pipeline under a standing halt only if it had
\* passed its kill-switch check before that halt.
HaltRespected ==
    \A t \in Threads :
        at[t] \notin {"idle", "gate", "halted", "done"} /\ halted[loop[t]]
            => seen[t] < halts[loop[t]]

\* No engine runs, and so none admits a bar, after max_consecutive_errors
\* errors in a row: not when bars of several threads fail and succeed between
\* each other's updates, nor when the engine is paused while its last failing
\* bar is on the way and an operator resumes it.
BreakerTrips ==
    \A l \in Loops : consecutive[l] >= MaxConsecutiveErrors => state[l] # "running"

\* Every engine stop_all has in its results is stopped or failed, whatever bars
\* and operators did between its look at the engine and its call of stop.
StopAllStops == \A l \in swept : state[l] \in Terminal

\* A stopped or failed engine never runs again: no bar, halt or operator
\* brings it back to another state.
TerminalStays ==
    [][\A l \in Loops : state[l] \in Terminal => state'[l] \in Terminal]_vars
=============================================================================
