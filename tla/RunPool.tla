------------------------------ MODULE RunPool ------------------------------
(***************************************************************************)
(* Deferred research runs: RunExecutorPool (asyncio tasks bounded by a     *)
(* semaphore), RunExecutionWorker (the thread a task hands its run to),    *)
(* ResearchRunService.cancel_run_with_abort and the status machine of      *)
(* SqlResearchRunRepository.                                               *)
(*                                                                         *)
(* Coroutines interleave only where they await.  A worker thread runs      *)
(* beside the event loop on the same session, and update_status reads the  *)
(* row's status, validates the transition and then assigns it: the two     *)
(* halves of an update_status are two steps.                               *)
(*                                                                         *)
(* That session lives as long as the process and is never committed or     *)
(* rolled back by anybody: a statement that fails loses every row written  *)
(* through it, and each later use of it raises.                            *)
(***************************************************************************)
EXTENDS Naturals, FiniteSets

CONSTANTS
    Runs,          \* run ids, a fresh one per submission
    Cancellers,    \* concurrent POST /runs/{id}/cancel requests
    MaxConcurrent, \* max_concurrent_runs of the pool
    None

ASSUME PoolAssumption == MaxConcurrent \in Nat \ {0}

VARIABLES
    status,   \* the row's status; None before the run is created
    result,   \* runs whose result is stored
    broken,   \* a statement of the session has failed
    inflight, \* the pool's tracker of tasks, by run id
    free,     \* permits left in the semaphore
    task,     \* the asyncio task of a run
    thread,   \* the worker thread of a run
    cancel,   \* where a cancel request stands
    run       \* the run it is about

rowVars == <<status, result, broken>>
poolVars == <<inflight, free, task>>
cancelVars == <<cancel, run>>
vars == <<rowVars, poolVars, thread, cancelVars>>

Terminal == {"completed", "failed", "cancelled"}
Statuses == {"pending", "queued", "running"} \cup Terminal

ASSUME NoneAssumption == None \notin Runs /\ None \notin Statuses

\* VALID_STATUS_TRANSITIONS
Transitions ==
    {<<"pending", "queued">>, <<"pending", "cancelled">>,
     <<"queued", "running">>, <<"queued", "cancelled">>,
     <<"running", "completed">>, <<"running", "failed">>, <<"running", "cancelled">>}

TypeOK ==
    /\ status \in [Runs -> Statuses \cup {None}]
    /\ result \in SUBSET Runs
    /\ broken \in BOOLEAN
    /\ inflight \in SUBSET Runs
    /\ free \in 0..MaxConcurrent
    /\ task \in [Runs -> {"none", "waiting", "holding", "aborted", "done"}]
    /\ thread \in [Runs -> {"none", "submitted", "starting", "executing", "saving", "saved",
                            "completing", "failed", "failing", "ended"}]
    /\ cancel \in [Cancellers -> {"idle", "abort", "await", "persist", "write"}]
    /\ run \in [Cancellers -> Runs \cup {None}]

Init ==
    /\ status = [r \in Runs |-> None]
    /\ result = {}
    /\ broken = FALSE
    /\ inflight = {}
    /\ free = MaxConcurrent
    /\ task = [r \in Runs |-> "none"]
    /\ thread = [r \in Runs |-> "none"]
    /\ cancel = [k \in Cancellers |-> "idle"]
    /\ run = [k \in Cancellers |-> None]

-----------------------------------------------------------------------------
(* The repository: the two halves of update_status, and their failure *)

\* The transition to s is validated against the status read now; of a broken
\* session nothing is read.
Validates(r, s) == <<status[r], s>> \in Transitions

Assigns(r, s) ==
    /\ ~broken
    /\ status' = [status EXCEPT ![r] = s]
    /\ UNCHANGED broken

\* A statement or a flush raises SQLAlchemyError: its transaction, which holds
\* all that was flushed since the process began, is rolled back.
DbError ==
    /\ ~broken
    /\ broken' = TRUE
    /\ status' = [r \in Runs |-> None]
    /\ result' = {}
    /\ UNCHANGED <<poolVars, thread, cancelVars>>

-----------------------------------------------------------------------------
(* Submission and the pool's tasks *)

\* submit_run creates the row; the transition to queued may fail, and without
\* a pool or an executor a queued run is left to its caller.
CreateRun(r) ==
    /\ status[r] = None
    /\ \E s \in {"pending", "queued"} : Assigns(r, s)
    /\ UNCHANGED <<result, poolVars, thread, cancelVars>>

\* submit_from_ir without defer_execution runs the backtest on the event loop.
\* The row stays where an exception finds it, except that a failing IR loader
\* or executor marks it failed.
ExecuteSynchronously(r) ==
    /\ status[r] = None
    /\ \/ \E s \in {"queued", "running", "failed"} : Assigns(r, s) /\ UNCHANGED result
       \/ \E s \in {"running", "completed"} : Assigns(r, s) /\ result' = result \cup {r}
    /\ UNCHANGED <<poolVars, thread, cancelVars>>

\* submit_run, submit_from_ir with defer_execution, and RunExecutorPool.submit
\* in one stretch of the event loop.
Submit(r) ==
    /\ status[r] = None
    /\ Assigns(r, "queued")
    /\ inflight' = inflight \cup {r}
    /\ task' = [task EXCEPT ![r] = "waiting"]
    /\ UNCHANGED <<result, free, thread, cancelVars>>

\* _run: the task gets a permit and hands the run to the thread pool.
AcquireSlot(r) ==
    /\ task[r] = "waiting"
    /\ free > 0
    /\ free' = free - 1
    /\ task' = [task EXCEPT ![r] = "holding"]
    /\ thread' = [thread EXCEPT ![r] = "submitted"]
    /\ UNCHANGED <<rowVars, inflight, cancelVars>>

\* Mutant: the permit is released by a handler and again by the with block.
EndTaskReleasesTwice(r) ==
    /\ task[r] = "holding"
    /\ thread[r] = "ended"
    /\ free' = free + 2
    /\ task' = [task EXCEPT ![r] = "done"]
    /\ UNCHANGED <<rowVars, inflight, thread, cancelVars>>

\* The thread returned or raised: the permit is released.
EndTask(r) ==
    /\ task[r] = "holding"
    /\ thread[r] = "ended"
    /\ free' = free + 1
    /\ task' = [task EXCEPT ![r] = "done"]
    /\ UNCHANGED <<rowVars, inflight, thread, cancelVars>>

\* Mutant: the permit of an aborted task is not released.
UnwindTaskKeepsPermit(r) ==
    /\ task[r] = "aborted"
    /\ thread' = [thread EXCEPT ![r] = IF @ = "submitted" THEN "ended" ELSE @]
    /\ task' = [task EXCEPT ![r] = "done"]
    /\ UNCHANGED <<rowVars, inflight, free, cancelVars>>

\* CancelledError unwinds _run: it leaves the semaphore, whose permit it had
\* if a thread was handed the run.  A thread not yet begun is called off; one
\* that runs goes on.
UnwindTask(r) ==
    /\ task[r] = "aborted"
    /\ free' = IF thread[r] = "none" THEN free ELSE free + 1
    /\ thread' = [thread EXCEPT ![r] = IF @ = "submitted" THEN "ended" ELSE @]
    /\ task' = [task EXCEPT ![r] = "done"]
    /\ UNCHANGED <<rowVars, inflight, cancelVars>>

\* Mutant: only a task that succeeded is taken out of the tracker.
ForgetTaskOnSuccess(r) ==
    /\ task[r] = "done"
    /\ r \in inflight
    /\ status[r] = "completed"
    /\ inflight' = inflight \ {r}
    /\ UNCHANGED <<rowVars, free, task, thread, cancelVars>>

\* _on_done
ForgetTask(r) ==
    /\ task[r] = "done"
    /\ r \in inflight
    /\ inflight' = inflight \ {r}
    /\ UNCHANGED <<rowVars, free, task, thread, cancelVars>>

-----------------------------------------------------------------------------
(* RunExecutionWorker.execute, in its thread *)

GoesTo(r, s) == thread' = [thread EXCEPT ![r] = s]

\* Validation for running; an invalid transition is raised out of the thread.
StartRun(r) ==
    /\ thread[r] = "submitted"
    /\ GoesTo(r, IF Validates(r, "running") THEN "starting" ELSE "ended")
    /\ UNCHANGED <<rowVars, poolVars, cancelVars>>

MarkRunning(r) ==
    /\ thread[r] = "starting"
    /\ Assigns(r, "running")
    /\ GoesTo(r, "executing")
    /\ UNCHANGED <<result, poolVars, cancelVars>>

\* Mutant: the run is completed before its result is stored.
ExecuteCompletesFirst(r) ==
    /\ thread[r] = "executing"
    /\ \E s \in {"saved", "failed", "ended"} : GoesTo(r, s)
    /\ UNCHANGED <<rowVars, poolVars, cancelVars>>

\* The IR is loaded and the backtest run, or one of them raises (to be marked
\* failed), or the request cannot be built (raised as it is).
Execute(r) ==
    /\ thread[r] = "executing"
    /\ \E s \in {"saving", "failed", "ended"} : GoesTo(r, s)
    /\ UNCHANGED <<rowVars, poolVars, cancelVars>>

\* save_result, which does not look at the status.
SaveResult(r) ==
    /\ thread[r] = "saving"
    /\ ~broken
    /\ result' = result \cup {r}
    /\ GoesTo(r, "saved")
    /\ UNCHANGED <<status, broken, poolVars, cancelVars>>

\* save_result raises: nothing marks the run failed.
SaveFails(r) ==
    /\ thread[r] = "saving"
    /\ GoesTo(r, "ended")
    /\ UNCHANGED <<rowVars, poolVars, cancelVars>>

CompleteRun(r) ==
    /\ thread[r] = "saved"
    /\ GoesTo(r, IF Validates(r, "completed") THEN "completing" ELSE "ended")
    /\ UNCHANGED <<rowVars, poolVars, cancelVars>>

\* Mutant: what fails after the run was completed is marked failed, by the
\* status that was validated before.
MarkCompletedThenFailed(r) ==
    /\ thread[r] = "completing"
    /\ Assigns(r, "completed")
    /\ \E s \in {"ended", "failing"} : GoesTo(r, s)
    /\ UNCHANGED <<result, poolVars, cancelVars>>

MarkCompleted(r) ==
    /\ thread[r] = "completing"
    /\ Assigns(r, "completed")
    /\ GoesTo(r, "ended")
    /\ UNCHANGED <<result, poolVars, cancelVars>>

\* _mark_failed, which swallows an invalid transition.
FailRun(r) ==
    /\ thread[r] = "failed"
    /\ GoesTo(r, IF Validates(r, "failed") THEN "failing" ELSE "ended")
    /\ UNCHANGED <<rowVars, poolVars, cancelVars>>

MarkFailed(r) ==
    /\ thread[r] = "failing"
    /\ Assigns(r, "failed")
    /\ GoesTo(r, "ended")
    /\ UNCHANGED <<result, poolVars, cancelVars>>

\* The assignment of a validated status raises, out of the thread.
MarkRaises(r) ==
    /\ thread[r] \in {"starting", "completing", "failing"}
    /\ broken
    /\ GoesTo(r, "ended")
    /\ UNCHANGED <<rowVars, poolVars, cancelVars>>

-----------------------------------------------------------------------------
(* cancel_run_with_abort *)

CancelGoesTo(k, s) == cancel' = [cancel EXCEPT ![k] = s]

Return(k) ==
    /\ CancelGoesTo(k, "idle")
    /\ run' = [run EXCEPT ![k] = None]

\* A running run is aborted first; one that is pending or queued is not
\* looked up in the pool (cancel_run does the same, and refuses a running
\* one).  A terminal run is left alone.
BeginCancel(k, r) ==
    /\ cancel[k] = "idle"
    /\ status[r] \in {"pending", "queued", "running"}
    /\ CancelGoesTo(k, IF status[r] = "running" THEN "abort" ELSE "persist")
    /\ run' = [run EXCEPT ![k] = r]
    /\ UNCHANGED <<rowVars, poolVars, thread>>

\* RunExecutorPool.cancel_run under its lock: the task is taken out of the
\* tracker and, unless it is done, cancelled.
AbortTask(k) ==
    /\ cancel[k] = "abort"
    /\ \A j \in Cancellers : cancel[j] # "await"
    /\ run[k] \in inflight
    /\ inflight' = inflight \ {run[k]}
    /\ \/ /\ task[run[k]] = "done"
          /\ CancelGoesTo(k, "persist")
          /\ UNCHANGED task
       \/ /\ task[run[k]] # "done"
          /\ task' = [task EXCEPT ![run[k]] = "aborted"]
          /\ CancelGoesTo(k, "await")
    /\ UNCHANGED <<rowVars, free, thread, run>>

\* The task has left the tracker: the row is read again, or cannot be.
AbortMisses(k) ==
    /\ cancel[k] = "abort"
    /\ \A j \in Cancellers : cancel[j] # "await"
    /\ run[k] \notin inflight
    /\ \/ (broken \/ status[run[k]] \in Terminal) /\ Return(k)
       \/ /\ ~broken /\ status[run[k]] \notin Terminal
          /\ CancelGoesTo(k, "persist")
          /\ UNCHANGED run
    /\ UNCHANGED <<rowVars, poolVars, thread>>

\* Mutant: the request waits for the worker to settle the row.
AwaitTaskSettled(k) ==
    /\ cancel[k] = "await"
    /\ task[run[k]] = "done"
    /\ status[run[k]] \in Terminal
    /\ CancelGoesTo(k, "persist")
    /\ UNCHANGED <<rowVars, poolVars, thread, run>>

\* Mutant: a request that aborted the task is content with that.
AwaitTaskForgets(k) ==
    /\ cancel[k] = "await"
    /\ task[run[k]] = "done"
    /\ Return(k)
    /\ UNCHANGED <<rowVars, poolVars, thread>>

\* await task
AwaitTask(k) ==
    /\ cancel[k] = "await"
    /\ task[run[k]] = "done"
    /\ CancelGoesTo(k, "persist")
    /\ UNCHANGED <<rowVars, poolVars, thread, run>>

\* Validation for cancelled; an invalid transition is raised to the caller.
PersistCancel(k) ==
    /\ cancel[k] = "persist"
    /\ \/ Validates(run[k], "cancelled") /\ CancelGoesTo(k, "write") /\ UNCHANGED run
       \/ ~Validates(run[k], "cancelled") /\ Return(k)
    /\ UNCHANGED <<rowVars, poolVars, thread>>

MarkCancelled(k) ==
    /\ cancel[k] = "write"
    /\ Assigns(run[k], "cancelled")
    /\ Return(k)
    /\ UNCHANGED <<result, poolVars, thread>>

\* The flush raises to the caller, although the task may have been aborted.
CancelRaises(k) ==
    /\ cancel[k] = "write"
    /\ broken
    /\ Return(k)
    /\ UNCHANGED <<rowVars, poolVars, thread>>

-----------------------------------------------------------------------------

\* update_status does not await: while a coroutine is between its two halves
\* no other coroutine runs, threads do.
LoopFree == \A k \in Cancellers : cancel[k] # "write"

Working(r) ==
    \/ StartRun(r) \/ MarkRunning(r) \/ Execute(r) \/ SaveResult(r) \/ SaveFails(r)
    \/ CompleteRun(r) \/ MarkCompleted(r) \/ FailRun(r) \/ MarkFailed(r)
    \/ MarkRaises(r)

Pooling(r) ==
    LoopFree /\ (AcquireSlot(r) \/ EndTask(r) \/ UnwindTask(r) \/ ForgetTask(r))

Cancelling(k) ==
    \/ MarkCancelled(k) \/ CancelRaises(k)
    \/ LoopFree /\ (AbortTask(k) \/ AbortMisses(k) \/ AwaitTask(k) \/ PersistCancel(k))

Next ==
    \/ \E r \in Runs :
          \/ Working(r) \/ Pooling(r)
          \/ LoopFree /\ (CreateRun(r) \/ ExecuteSynchronously(r) \/ Submit(r))
          \/ LoopFree /\ \E k \in Cancellers : BeginCancel(k, r)
    \/ \E k \in Cancellers : Cancelling(k)
    \/ DbError

Spec == Init /\ [][Next]_vars

\* Threads run, and the event loop serves every coroutine that is ready.
FairSpec ==
    /\ Spec
    /\ \A r \in Runs : WF_vars(Working(r)) /\ WF_vars(Pooling(r))
    /\ \A k \in Cancellers : WF_vars(Cancelling(k))

-----------------------------------------------------------------------------
(* Properties *)

\* A run that reads completed has a stored result, however cancellations and
\* the worker interleave (save_result before the transition).
CompletedHasResult == \A r \in Runs : status[r] = "completed" => r \in result

\* The tasks inside the semaphore: those that have handed over their run.
Holders == {r \in Runs : task[r] \in {"holding", "aborted"} /\ thread[r] # "none"}

\* No permit is lost or returned twice, by a task that ends or is cancelled
\* while its thread runs on.
PermitsAccounted == free + Cardinality(Holders) = MaxConcurrent

\* A thread that goes on without a task, and so without a permit, works for a
\* run that is cancelled or that a cancel request is about to mark so: no other
\* executor runs beyond max_concurrent_runs.  Once the session has failed that
\* is lost: the request has aborted the task and raises, and the thread works
\* on for a run that nobody marked.
StrayIsCancelled ==
    \A r \in Runs :
        task[r] = "done" /\ thread[r] \notin {"none", "ended"} =>
            \/ broken
            \/ status[r] = "cancelled"
            \/ \E k \in Cancellers : run[k] = r /\ cancel[k] \in {"await", "persist", "write"}

\* Validating and assigning a status in two steps, without a lock, breaks
\* VALID_STATUS_TRANSITIONS only where a cancellation races the worker: every
\* other change of a row is a transition of the table or its loss, so that an
\* outcome is never exchanged for another and no run starts twice.
OnlyCancelRaces ==
    [][\A r \in Runs :
          LET was == status[r]
              is  == status'[r] IN
          \/ is = was \/ was = None \/ <<was, is>> \in Transitions
          \/ "cancelled" \in {was, is}
          \/ broken' /\ is = None]_vars

\* Every accepted run leaves the pool's tracker and its task ends.
TasksEnd ==
    \A r \in Runs : task[r] = "waiting" ~> (task[r] = "done" /\ r \notin inflight)

\* Every cancel request returns: waiting for the pool's lock, for an aborted
\* task, or losing the race with the worker.
CancelsEnd == \A k \in Cancellers : cancel[k] # "idle" ~> cancel[k] = "idle"

-----------------------------------------------------------------------------
(* A claim of the repository that the code does not keep *)

\* research_run_service.py: the task is aborted "before persisting CANCELLED so
\* the worker cannot race the status write": nothing is written to a row that
\* is cancelled (while the session works).
CancelledIsFinal ==
    [][~broken' => \A r \in Runs : status[r] = "cancelled" =>
          status'[r] = "cancelled" /\ (r \in result' => r \in result)]_vars
=============================================================================
