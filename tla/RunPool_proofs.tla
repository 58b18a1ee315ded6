--------------------------- MODULE RunPool_proofs ---------------------------
(***************************************************************************)
(* Proofs about the run pool, for any runs, cancel requests and size.      *)
(***************************************************************************)
EXTENDS RunPool, FiniteSetTheorems, TLAPS

\* The actions, one by one, of a run and of a cancel request.
RunStep(r) ==
    \/ CreateRun(r) \/ ExecuteSynchronously(r) \/ Submit(r)
    \/ AcquireSlot(r) \/ EndTask(r) \/ UnwindTask(r) \/ ForgetTask(r)
    \/ StartRun(r) \/ MarkRunning(r) \/ Execute(r) \/ SaveResult(r) \/ SaveFails(r)
    \/ CompleteRun(r) \/ MarkCompleted(r) \/ FailRun(r) \/ MarkFailed(r) \/ MarkRaises(r)

CancelStep(k) ==
    \/ \E r \in Runs : BeginCancel(k, r)
    \/ AbortTask(k) \/ AbortMisses(k) \/ AwaitTask(k) \/ PersistCancel(k)
    \/ MarkCancelled(k) \/ CancelRaises(k)

LEMMA Steps ==
    ASSUME Next
    PROVE  \/ \E r \in Runs : RunStep(r)
           \/ \E k \in Cancellers : CancelStep(k)
           \/ DbError
BY DEF Next, RunStep, CancelStep, Working, Pooling, Cancelling

\* A request under way has a run, a task has a row, and a thread has a task.
PcInv ==
    /\ \A k \in Cancellers : cancel[k] # "idle" => run[k] \in Runs
    /\ \A r \in Runs :
          /\ ~broken /\ status[r] = None => task[r] = "none"
          /\ r \in inflight => task[r] # "none"
          /\ task[r] \in {"none", "waiting"} => thread[r] = "none"
          /\ task[r] = "holding" => thread[r] # "none"

\* A stored result precedes the last transition, and is taken back only with
\* the rows.
ResultInv ==
    \A r \in Runs :
        /\ status[r] = "completed" => r \in result
        /\ ~broken /\ thread[r] \in {"saved", "completing"} => r \in result

\* The part of the type invariant that no counting is needed for.
ShapeOK ==
    /\ status \in [Runs -> Statuses \cup {None}]
    /\ result \in SUBSET Runs
    /\ broken \in BOOLEAN
    /\ inflight \in SUBSET Runs
    /\ task \in [Runs -> {"none", "waiting", "holding", "aborted", "done"}]
    /\ thread \in [Runs -> {"none", "submitted", "starting", "executing", "saving", "saved",
                            "completing", "failed", "failing", "ended"}]
    /\ cancel \in [Cancellers -> {"idle", "abort", "await", "persist", "write"}]
    /\ run \in [Cancellers -> Runs \cup {None}]

RunInv == ShapeOK /\ PcInv /\ ResultInv

LEMMA RunInit == Init => RunInv
<1> SUFFICES ASSUME Init PROVE RunInv
    OBVIOUS
<1>1. broken \in BOOLEAN
    BY DEF Init
<1> QED BY <1>1, NoneAssumption DEF Init, RunInv, ShapeOK, PcInv, ResultInv, Statuses, Terminal

LEMMA RunNext == RunInv /\ [Next]_vars => RunInv'
<1> SUFFICES ASSUME RunInv, [Next]_vars
             PROVE  RunInv'
    OBVIOUS
<1> USE NoneAssumption DEF RunInv, ShapeOK, PcInv, ResultInv, Statuses, Terminal,
        rowVars, poolVars, cancelVars
<1>1. ASSUME NEW r \in Runs, RunStep(r)
      PROVE  RunInv'
  <2>1. CASE CreateRun(r)
      BY <2>1 DEF CreateRun, Assigns
  <2>2. CASE Submit(r)
      BY <2>2 DEF Submit, Assigns
  <2>3. CASE AcquireSlot(r)
      BY <2>3 DEF AcquireSlot
  <2>4. CASE EndTask(r)
      BY <2>4 DEF EndTask
  <2>5. CASE UnwindTask(r)
      BY <2>5 DEF UnwindTask
  <2>6. CASE ForgetTask(r)
      BY <2>6 DEF ForgetTask
  <2>7. CASE StartRun(r)
      BY <2>7 DEF StartRun, GoesTo
  <2>8. CASE MarkRunning(r)
      BY <2>8 DEF MarkRunning, GoesTo, Assigns
  <2>9. CASE Execute(r)
      BY <2>9 DEF Execute, GoesTo
  <2>10. CASE SaveResult(r)
      BY <2>10 DEF SaveResult, GoesTo
  <2>11. CASE SaveFails(r)
      BY <2>11 DEF SaveFails, GoesTo
  <2>12. CASE CompleteRun(r)
      BY <2>12 DEF CompleteRun, GoesTo
  <2>13. CASE MarkCompleted(r)
      BY <2>13 DEF MarkCompleted, GoesTo, Assigns
  <2>14. CASE FailRun(r)
      BY <2>14 DEF FailRun, GoesTo
  <2>15. CASE MarkFailed(r)
      BY <2>15 DEF MarkFailed, GoesTo, Assigns
  <2>16. CASE ExecuteSynchronously(r)
      BY <2>16 DEF ExecuteSynchronously, Assigns
  <2>17. CASE MarkRaises(r)
      BY <2>17 DEF MarkRaises, GoesTo
  <2> QED
      BY <1>1, <2>1, <2>2, <2>3, <2>4, <2>5, <2>6, <2>7, <2>8, <2>9, <2>10, <2>11,
         <2>12, <2>13, <2>14, <2>15, <2>16, <2>17 DEF RunStep
<1>2. ASSUME NEW k \in Cancellers, CancelStep(k)
      PROVE  RunInv'
  <2>1. ASSUME NEW r \in Runs, BeginCancel(k, r)
        PROVE  RunInv'
      BY <2>1 DEF BeginCancel, CancelGoesTo
  <2>2. CASE AbortTask(k)
      BY <2>2 DEF AbortTask, CancelGoesTo
  <2>3. CASE AbortMisses(k)
      BY <2>3 DEF AbortMisses, CancelGoesTo, Return
  <2>4. CASE AwaitTask(k)
      BY <2>4 DEF AwaitTask, CancelGoesTo
  <2>5. CASE PersistCancel(k)
      BY <2>5 DEF PersistCancel, CancelGoesTo, Return
  <2>6. CASE MarkCancelled(k)
      BY <2>6 DEF MarkCancelled, CancelGoesTo, Return, Assigns
  <2>7. CASE CancelRaises(k)
      BY <2>7 DEF CancelRaises, CancelGoesTo, Return
  <2> QED
      BY <1>2, <2>1, <2>2, <2>3, <2>4, <2>5, <2>6, <2>7 DEF CancelStep
<1>3. CASE DbError
    BY <1>3 DEF DbError
<1>4. CASE UNCHANGED vars
    BY <1>4 DEF vars
<1> QED BY <1>1, <1>2, <1>3, <1>4, Steps

LEMMA RunCorrect == Spec => []RunInv
BY RunInit, RunNext, PTL DEF Spec

\* Whatever is cancelled and whichever thread is late, a run that reads
\* completed has its result (RunExecutionWorker.execute, step 4).
THEOREM CompletedResult == Spec => []CompletedHasResult
<1>1. RunInv => CompletedHasResult
    BY DEF RunInv, ResultInv, CompletedHasResult
<1> QED BY RunCorrect, <1>1, PTL
-----------------------------------------------------------------------------

\* Where a thread is once its row has become running.
Begun == {"executing", "saving", "saved", "completing", "failed", "failing"}

\* While the session works, only the run's own thread, once begun, and cancel
\* requests write its row; a task is aborted for a run that was running, so
\* that its thread has begun.
StrayInv ==
    /\ ~broken => \A r \in Runs :
          /\ task[r] = "waiting" \/ thread[r] \in {"submitted", "starting"}
                => status[r] \in {"queued", "cancelled"}
          /\ thread[r] \in Begun => status[r] \in {"running", "cancelled"}
    /\ broken => \A r \in Runs : status[r] = None
    /\ \A r \in Runs :
          /\ task[r] = "done" => thread[r] \in Begun \cup {"ended"}
          /\ task[r] = "aborted" =>
                /\ thread[r] \in Begun \cup {"ended"}
                /\ \E k \in Cancellers : run[k] = r /\ cancel[k] = "await"
    /\ \A k \in Cancellers :
          /\ ~broken /\ cancel[k] # "idle" => status[run[k]] # None
          /\ cancel[k] = "abort" =>
                task[run[k]] = "none" \/ thread[run[k]] \in Begun \cup {"ended"}
    /\ StrayIsCancelled

LEMMA StrayInit == Init => StrayInv
BY DEF Init, StrayInv, StrayIsCancelled, Begun

LEMMA StrayNext == RunInv /\ StrayInv /\ [Next]_vars => StrayInv'
<1> SUFFICES ASSUME RunInv, StrayInv, [Next]_vars
             PROVE  StrayInv'
    OBVIOUS
<1> USE NoneAssumption DEF RunInv, ShapeOK, PcInv, StrayInv, StrayIsCancelled, Begun,
        Statuses, Terminal, rowVars, poolVars, cancelVars
<1>1. ASSUME NEW r \in Runs, RunStep(r)
      PROVE  StrayInv'
  <2>1. CASE CreateRun(r)
      BY <2>1 DEF CreateRun, Assigns
  <2>2. CASE ExecuteSynchronously(r)
      BY <2>2 DEF ExecuteSynchronously, Assigns
  <2>3. CASE Submit(r)
      BY <2>3 DEF Submit, Assigns
  <2>4. CASE AcquireSlot(r)
      BY <2>4 DEF AcquireSlot
  <2>5. CASE EndTask(r)
      BY <2>5 DEF EndTask
  <2>6. CASE UnwindTask(r)
      BY <2>6 DEF UnwindTask
  <2>7. CASE ForgetTask(r)
      BY <2>7 DEF ForgetTask
  <2>8. CASE StartRun(r)
      BY <2>8 DEF StartRun, GoesTo, Validates
  <2>9. CASE MarkRunning(r)
      BY <2>9 DEF MarkRunning, GoesTo, Assigns
  <2>10. CASE Execute(r)
      BY <2>10 DEF Execute, GoesTo
  <2>11. CASE SaveResult(r)
      BY <2>11 DEF SaveResult, GoesTo
  <2>12. CASE SaveFails(r)
      BY <2>12 DEF SaveFails, GoesTo
  <2>13. CASE CompleteRun(r)
      BY <2>13 DEF CompleteRun, GoesTo, Validates
  <2>14. CASE MarkCompleted(r)
      BY <2>14 DEF MarkCompleted, GoesTo, Assigns
  <2>15. CASE FailRun(r)
      BY <2>15 DEF FailRun, GoesTo, Validates
  <2>16. CASE MarkFailed(r)
      BY <2>16 DEF MarkFailed, GoesTo, Assigns
  <2>17. CASE MarkRaises(r)
      BY <2>17 DEF MarkRaises, GoesTo
  <2> QED
      BY <1>1, <2>1, <2>2, <2>3, <2>4, <2>5, <2>6, <2>7, <2>8, <2>9, <2>10, <2>11,
         <2>12, <2>13, <2>14, <2>15, <2>16, <2>17 DEF RunStep
<1>2. ASSUME NEW k \in Cancellers, CancelStep(k)
      PROVE  StrayInv'
  <2>1. ASSUME NEW r \in Runs, BeginCancel(k, r)
        PROVE  StrayInv'
      BY <2>1 DEF BeginCancel, CancelGoesTo
  <2>2. CASE AbortTask(k)
      BY <2>2 DEF AbortTask, CancelGoesTo
  <2>3. CASE AbortMisses(k)
      BY <2>3 DEF AbortMisses, CancelGoesTo, Return
  <2>4. CASE AwaitTask(k)
      BY <2>4 DEF AwaitTask, CancelGoesTo
  <2>5. CASE PersistCancel(k)
      BY <2>5 DEF PersistCancel, CancelGoesTo, Return, Validates, Transitions
  <2>6. CASE MarkCancelled(k)
      BY <2>6 DEF MarkCancelled, CancelGoesTo, Return, Assigns
  <2>7. CASE CancelRaises(k)
      BY <2>7 DEF CancelRaises, CancelGoesTo, Return
  <2> QED
      BY <1>2, <2>1, <2>2, <2>3, <2>4, <2>5, <2>6, <2>7 DEF CancelStep
<1>3. CASE DbError
    BY <1>3 DEF DbError
<1>4. CASE UNCHANGED vars
    BY <1>4 DEF vars
<1> QED BY <1>1, <1>2, <1>3, <1>4, Steps

\* However the pool, its threads and cancel requests interleave, a thread
\* without a permit works for a cancelled run, or the session has failed
\* (cancel_run of RunExecutorPool aborts the task and leaves the thread;
\* update_status may raise after that).
THEOREM StrayRunIsCancelled == Spec => []StrayIsCancelled
<1>1. StrayInv => StrayIsCancelled
    BY DEF StrayInv
<1> QED BY RunCorrect, StrayInit, StrayNext, <1>1, PTL DEF Spec

\* A step of a run's task or thread changes only its own row, and by the table
\* unless a cancel request wrote the row since the status was validated.
LEMMA RaceRunStep ==
    ASSUME RunInv, StrayInv, NEW r \in Runs, RunStep(r), NEW q \in Runs
    PROVE  \/ status'[q] = status[q] \/ status[q] = None
           \/ "cancelled" \in {status[q], status'[q]}
           \/ <<status[q], status'[q]>> \in Transitions
<1> USE DEF RunInv, ShapeOK, StrayInv, Begun, rowVars, poolVars, cancelVars, Transitions
<1>1. CASE CreateRun(r) \/ ExecuteSynchronously(r) \/ Submit(r)
    BY <1>1 DEF CreateRun, ExecuteSynchronously, Submit, Assigns
<1>2. CASE AcquireSlot(r) \/ EndTask(r) \/ UnwindTask(r) \/ ForgetTask(r) \/ StartRun(r)
           \/ Execute(r) \/ SaveResult(r) \/ SaveFails(r) \/ CompleteRun(r) \/ FailRun(r)
           \/ MarkRaises(r)
    BY <1>2 DEF AcquireSlot, EndTask, UnwindTask, ForgetTask, StartRun, Execute, SaveResult,
                SaveFails, CompleteRun, FailRun, MarkRaises
<1>3. CASE MarkRunning(r)
    BY <1>3 DEF MarkRunning, Assigns
<1>4. CASE MarkCompleted(r)
    BY <1>4 DEF MarkCompleted, Assigns
<1>5. CASE MarkFailed(r)
    BY <1>5 DEF MarkFailed, Assigns
<1> QED BY <1>1, <1>2, <1>3, <1>4, <1>5 DEF RunStep

\* update_status validates and assigns without a lock; only a cancellation that
\* comes between the two makes a change that VALID_STATUS_TRANSITIONS forbids.
THEOREM OnlyCancellationsRace == Spec => OnlyCancelRaces
<1>1. RunInv /\ StrayInv /\ [Next]_vars =>
        [\A r \in Runs :
            LET was == status[r]
                is  == status'[r] IN
            \/ is = was \/ was = None \/ <<was, is>> \in Transitions
            \/ "cancelled" \in {was, is}
            \/ broken' /\ is = None]_vars
  <2> SUFFICES ASSUME RunInv, StrayInv, Next, NEW q \in Runs
               PROVE  \/ status'[q] = status[q] \/ status[q] = None
                      \/ <<status[q], status'[q]>> \in Transitions
                      \/ "cancelled" \in {status[q], status'[q]}
                      \/ broken' /\ status'[q] = None
      OBVIOUS
  <2>1. ASSUME NEW k \in Cancellers, CancelStep(k)
        PROVE  status'[q] = status[q] \/ status'[q] = "cancelled"
    <3>1. status' = status \/ Assigns(run[k], "cancelled")
        BY <2>1 DEF CancelStep, BeginCancel, AbortTask, AbortMisses, AwaitTask, PersistCancel,
                    MarkCancelled, CancelRaises, rowVars
    <3> QED BY <3>1 DEF Assigns, RunInv, ShapeOK
  <2>2. CASE DbError
      BY <2>2 DEF DbError
  <2> QED BY <2>1, <2>2, Steps, RaceRunStep
<1>2. Spec => []StrayInv
    BY RunCorrect, StrayInit, StrayNext, PTL DEF Spec
<1> QED BY RunCorrect, <1>1, <1>2, PTL DEF Spec, OnlyCancelRaces
-----------------------------------------------------------------------------

\* Every permit is either free or held by one task.
PermitInv == IsFiniteSet(Holders) /\ free \in Nat /\ PermitsAccounted

LEMMA PermitInit == Init => PermitInv
<1> SUFFICES ASSUME Init PROVE PermitInv
    OBVIOUS
<1>1. Holders = {}
    BY DEF Init, Holders
<1>2. IsFiniteSet(Holders) /\ Cardinality(Holders) = 0
    BY <1>1, FS_EmptySet
<1> QED BY <1>2, PoolAssumption DEF Init, PermitInv, PermitsAccounted

\* A task that enters the semaphore, leaves it, or does neither.
LEMMA Enters ==
    ASSUME PermitInv, NEW r, r \notin Holders, Holders' = Holders \cup {r},
           free > 0, free' = free - 1
    PROVE  PermitInv'
<1>1. IsFiniteSet(Holders') /\ Cardinality(Holders') = Cardinality(Holders) + 1
    BY FS_AddElement DEF PermitInv
<1>2. Cardinality(Holders) \in Nat
    BY FS_CardinalityType DEF PermitInv
<1> QED BY <1>1, <1>2, PoolAssumption DEF PermitInv, PermitsAccounted

LEMMA Leaves ==
    ASSUME PermitInv, NEW r, r \in Holders, Holders' = Holders \ {r}, free' = free + 1
    PROVE  PermitInv'
<1>1. IsFiniteSet(Holders') /\ Cardinality(Holders') = Cardinality(Holders) - 1
    BY FS_RemoveElement DEF PermitInv
<1>2. Cardinality(Holders) \in Nat
    BY FS_CardinalityType DEF PermitInv
<1> QED BY <1>1, <1>2, PoolAssumption DEF PermitInv, PermitsAccounted

LEMMA Stays ==
    ASSUME PermitInv, Holders' = Holders, free' = free
    PROVE  PermitInv'
BY DEF PermitInv, PermitsAccounted

LEMMA PermitNext == RunInv /\ PermitInv /\ [Next]_vars => PermitInv'
<1> SUFFICES ASSUME RunInv, PermitInv, [Next]_vars
             PROVE  PermitInv'
    OBVIOUS
<1> USE DEF RunInv, ShapeOK, PcInv, rowVars, poolVars, cancelVars
<1>1. ASSUME NEW r \in Runs, RunStep(r)
      PROVE  PermitInv'
  <2>1. CASE AcquireSlot(r)
    <3>1. r \notin Holders /\ Holders' = Holders \cup {r}
        BY <2>1 DEF AcquireSlot, Holders
    <3> QED BY <2>1, <3>1, Enters DEF AcquireSlot
  <2>2. CASE EndTask(r)
    <3>1. r \in Holders /\ Holders' = Holders \ {r}
        BY <2>2 DEF EndTask, Holders
    <3> QED BY <2>2, <3>1, Leaves DEF EndTask
  <2>3. CASE UnwindTask(r) /\ thread[r] = "none"
    <3>1. Holders' = Holders
        BY <2>3 DEF UnwindTask, Holders
    <3> QED BY <2>3, <3>1, Stays DEF UnwindTask
  <2>4. CASE UnwindTask(r) /\ thread[r] # "none"
    <3>1. r \in Holders /\ Holders' = Holders \ {r}
        BY <2>4 DEF UnwindTask, Holders
    <3> QED BY <2>4, <3>1, Leaves DEF UnwindTask
  <2>5. CASE CreateRun(r) \/ ExecuteSynchronously(r) \/ ForgetTask(r)
    <3>1. Holders' = Holders /\ free' = free
        BY <2>5 DEF CreateRun, ExecuteSynchronously, ForgetTask, Holders
    <3> QED BY <3>1, Stays
  <2>6. CASE Submit(r)
    <3>1. Holders' = Holders /\ free' = free
        BY <2>6 DEF Submit, Assigns, Holders
    <3> QED BY <3>1, Stays
  <2>7. CASE StartRun(r) \/ MarkRunning(r) \/ Execute(r) \/ SaveResult(r) \/ SaveFails(r)
             \/ CompleteRun(r) \/ MarkCompleted(r) \/ FailRun(r) \/ MarkFailed(r) \/ MarkRaises(r)
    <3>1. task' = task /\ free' = free
        BY <2>7 DEF StartRun, MarkRunning, Execute, SaveResult, SaveFails,
                    CompleteRun, MarkCompleted, FailRun, MarkFailed, MarkRaises
    <3>2. \A q \in Runs : thread'[q] = "none" <=> thread[q] = "none"
        BY <2>7 DEF StartRun, MarkRunning, Execute, SaveResult, SaveFails,
                    CompleteRun, MarkCompleted, FailRun, MarkFailed, MarkRaises, GoesTo
    <3>3. Holders' = Holders
        BY <3>1, <3>2 DEF Holders
    <3> QED BY <3>1, <3>3, Stays
  <2> QED
      BY <1>1, <2>1, <2>2, <2>3, <2>4, <2>5, <2>6, <2>7 DEF RunStep
<1>2. ASSUME NEW k \in Cancellers, CancelStep(k)
      PROVE  PermitInv'
  <2>1. CASE AbortTask(k)
    <3>1. run[k] \in Runs
        BY <2>1 DEF AbortTask
    <3>2. task[run[k]] \in {"none", "waiting", "holding", "aborted", "done"}
        BY <3>1
    <3>3. Holders' = Holders /\ free' = free
        BY <2>1, <3>1, <3>2 DEF AbortTask, Holders
    <3> QED BY <3>3, Stays
  <2>2. CASE ~AbortTask(k)
    <3>1. task' = task /\ thread' = thread /\ free' = free
        BY <1>2, <2>2 DEF CancelStep, BeginCancel, AbortMisses, AwaitTask, PersistCancel,
                          MarkCancelled, CancelRaises
    <3> QED BY <3>1, Stays DEF Holders
  <2> QED BY <2>1, <2>2
<1>3. CASE DbError
    BY <1>3, Stays DEF DbError, Holders
<1>4. CASE UNCHANGED vars
    BY <1>4, Stays DEF vars, Holders
<1> QED BY <1>1, <1>2, <1>3, <1>4, Steps

LEMMA PermitCorrect == Spec => []PermitInv
BY RunCorrect, PermitInit, PermitNext, PTL DEF Spec

\* The semaphore never loses or gains a permit, however tasks end and are
\* cancelled (_run and cancel_run of RunExecutorPool).
THEOREM Permits == Spec => []PermitsAccounted
<1>1. PermitInv => PermitsAccounted
    BY DEF PermitInv
<1> QED BY PermitCorrect, <1>1, PTL

\* The pool's state is well formed; that free stays within the pool's size
\* needs the accounting of the permits.
THEOREM TypeCorrect == Spec => []TypeOK
<1>1. RunInv /\ PermitInv => TypeOK
  <2> SUFFICES ASSUME RunInv, PermitInv PROVE TypeOK
      OBVIOUS
  <2>1. Cardinality(Holders) \in Nat
      BY FS_CardinalityType DEF PermitInv
  <2>2. free \in 0..MaxConcurrent
      BY <2>1, PoolAssumption DEF PermitInv, PermitsAccounted
  <2> QED BY <2>2 DEF RunInv, ShapeOK, TypeOK
<1> QED BY RunCorrect, PermitCorrect, <1>1, PTL
=============================================================================
