------------------------ MODULE ExecutionLoop_proofs ------------------------
(***************************************************************************)
(* Proofs about the execution engines and their manager, for any engines,  *)
(* threads, deployments and limits.                                        *)
(***************************************************************************)
EXTENDS ExecutionLoop, FiniteSetTheorems, TLAPS

\* The part of the type invariant that no counting is needed for.
ShapeOK ==
    /\ state \in [Loops -> LoopState]
    /\ bars \in [Loops -> Nat] /\ submitted \in [Loops -> Nat]
    /\ errors \in [Loops -> Nat] /\ consecutive \in [Loops -> Nat]
    /\ admitted \in [Loops -> Nat] /\ skipped \in [Loops -> Nat]
    /\ received \in [Loops -> Nat]
    /\ at \in [Threads -> Steps]
    /\ loop \in [Threads -> Loops \cup {None}]
    /\ seen \in [Threads -> 0..MaxHalts]
    /\ registry \in [Deployments -> Loops \cup {None}]
    /\ stopper \in {"idle", "stopping"}
    /\ todo \in SUBSET Loops
    /\ target \in Loops \cup {None}
    /\ swept \in SUBSET Loops
    /\ halted \in [Loops -> BOOLEAN]
    /\ halts \in [Loops -> 0..MaxHalts]

\* A thread has an engine exactly while it processes a bar, and its check saw
\* at most the halts there have been.
ThreadInv ==
    \A t \in Threads :
        /\ at[t] = "idle" <=> loop[t] = None
        /\ at[t] # "idle" => seen[t] <= halts[loop[t]]
        /\ at[t] \in {"idle", "gate"} => seen[t] = 0

\* The breaker's limit leaves an engine failed, from which nothing resumes it.
BreakerInv ==
    \A l \in Loops : consecutive[l] >= MaxConsecutiveErrors => state[l] = "failed"

BasicInv == ShapeOK /\ ThreadInv /\ HaltRespected /\ BreakerInv /\ StopAllStops

\* The ways a thread, an operator, the shutdown and the kill switch act.
LEMMA StepCases ==
    ASSUME Next
    PROVE  \/ \E l \in Loops : StartLoop(l) \/ Inspect(l) \/ Halt(l) \/ Lift(l)
           \/ \E d \in Deployments : StopLoop(d) \/ PauseLoop(d) \/ ResumeLoop(d)
           \/ StopAll \/ StopInspected \/ ClearRegistry
           \/ \E t \in Threads :
                 \/ \E l \in Loops : ProcessBar(t, l)
                 \/ CheckKillSwitch(t) \/ PauseHalted(t) \/ EvaluateStrategy(t)
                 \/ EvaluateSignal(t) \/ SubmitOrder(t) \/ CountOrder(t)
                 \/ CountBar(t) \/ ResetErrors(t) \/ HandleError(t)
BY DEF Next, Step

\* What the table of transitions allows.
LEMMA Transitions ==
    ASSUME NEW s \in LoopState
    PROVE  /\ VALID_TRANSITIONS[s] \subseteq LoopState
           /\ s \in Terminal => VALID_TRANSITIONS[s] = {}
           /\ s \notin Terminal => "stopped" \in VALID_TRANSITIONS[s]
BY DEF VALID_TRANSITIONS, LoopState, Terminal

LEMMA BasicInit == Init => BasicInv
BY NoneAssumption, LimitsAssumption
   DEF Init, BasicInv, ShapeOK, ThreadInv, HaltRespected, BreakerInv,
       StopAllStops, LoopState, Steps

\* A transition of the table's keeps what is known of the engines.
LEMMA TransitKeeps ==
    ASSUME BasicInv, NEW l \in Loops, NEW s, Transit(l, s)
    PROVE  /\ state' \in [Loops -> LoopState]
           /\ state[l] \notin Terminal
           /\ \A k \in Loops : state[k] \in Terminal => state'[k] = state[k]
           /\ state'[l] = s
<1>1. state[l] \in LoopState
    BY DEF BasicInv, ShapeOK
<1>2. s \in LoopState /\ state[l] \notin Terminal
    BY <1>1, Transitions DEF Transit
<1> QED
    BY <1>2 DEF Transit, BasicInv, ShapeOK

LEMMA BasicNext == BasicInv /\ [Next]_vars => BasicInv'
<1> SUFFICES ASSUME BasicInv, [Next]_vars
             PROVE  BasicInv'
    OBVIOUS
<1> USE LimitsAssumption, NoneAssumption, ConfigAssumption
        DEF BasicInv, ShapeOK, ThreadInv, HaltRespected, BreakerInv, StopAllStops,
            counters, threadVars, managerVars, switchVars, historyVars, Inc
<1>1. ASSUME NEW l \in Loops, StartLoop(l)
      PROVE  BasicInv'
    BY <1>1, TransitKeeps DEF StartLoop, Start, Terminal
<1>2. ASSUME NEW l \in Loops, Inspect(l)
      PROVE  BasicInv'
    BY <1>2 DEF Inspect
<1>3. ASSUME NEW l \in Loops, Halt(l)
      PROVE  BasicInv'
    BY <1>3 DEF Halt
<1>4. ASSUME NEW l \in Loops, Lift(l)
      PROVE  BasicInv'
    BY <1>4 DEF Lift
<1>5. ASSUME NEW d \in Deployments, StopLoop(d)
      PROVE  BasicInv'
  <2>1. registry[d] \in Loops
      BY <1>5 DEF StopLoop
  <2> QED
      BY <1>5, <2>1, TransitKeeps DEF StopLoop, Stop, Unregister, Terminal
<1>6. ASSUME NEW d \in Deployments, PauseLoop(d)
      PROVE  BasicInv'
  <2>1. registry[d] \in Loops
      BY <1>6 DEF PauseLoop
  <2> QED
      BY <1>6, <2>1, TransitKeeps DEF PauseLoop, Pause, Terminal
<1>7. ASSUME NEW d \in Deployments, ResumeLoop(d)
      PROVE  BasicInv'
  <2>1. registry[d] \in Loops
      BY <1>7 DEF ResumeLoop
  <2> QED
      BY <1>7, <2>1, TransitKeeps DEF ResumeLoop, Resume, Terminal
<1>8. CASE StopAll
    BY <1>8 DEF StopAll, Registered
<1>9. CASE StopInspected
  <2>1. target \in Loops /\ state[target] \in LoopState
      BY <1>9 DEF StopInspected
  <2>2. CASE Stop(target)
      BY <1>9, <2>1, <2>2, TransitKeeps DEF StopInspected, Stop, Terminal
  <2>3. CASE "stopped" \notin VALID_TRANSITIONS[state[target]] /\ UNCHANGED state
    <3>1. state[target] \in Terminal
        BY <2>1, <2>3, Transitions
    <3> QED
        BY <1>9, <2>1, <2>3, <3>1 DEF StopInspected
  <2> QED
      BY <1>9, <2>2, <2>3 DEF StopInspected
<1>10. CASE ClearRegistry
    BY <1>10 DEF ClearRegistry
<1>11. ASSUME NEW t \in Threads, NEW l \in Loops, ProcessBar(t, l)
       PROVE  BasicInv'
    BY <1>11 DEF ProcessBar, Move, Steps
<1>12. ASSUME NEW t \in Threads, CheckKillSwitch(t)
       PROVE  BasicInv'
    BY <1>12 DEF CheckKillSwitch, Move, Steps
<1>13. ASSUME NEW t \in Threads, PauseHalted(t)
       PROVE  BasicInv'
    BY <1>13 DEF PauseHalted, Return, Move, Steps, Terminal, LoopState
<1>14. ASSUME NEW t \in Threads, EvaluateStrategy(t)
       PROVE  BasicInv'
    BY <1>14 DEF EvaluateStrategy, Move, Steps
<1>15. ASSUME NEW t \in Threads, EvaluateSignal(t)
       PROVE  BasicInv'
    BY <1>15 DEF EvaluateSignal, Move, Steps
<1>16. ASSUME NEW t \in Threads, SubmitOrder(t)
       PROVE  BasicInv'
    BY <1>16 DEF SubmitOrder, Move, Steps
<1>17. ASSUME NEW t \in Threads, CountOrder(t)
       PROVE  BasicInv'
    BY <1>17 DEF CountOrder, Move, Steps
<1>18. ASSUME NEW t \in Threads, CountBar(t)
       PROVE  BasicInv'
    BY <1>18 DEF CountBar, Move, Steps
<1>19. ASSUME NEW t \in Threads, ResetErrors(t)
       PROVE  BasicInv'
    BY <1>19 DEF ResetErrors, Return, Move, Steps
<1>20. ASSUME NEW t \in Threads, HandleError(t)
       PROVE  BasicInv'
    BY <1>20 DEF HandleError, Return, Move, Steps, Terminal, LoopState
<1>21. CASE UNCHANGED vars
    BY <1>21 DEF vars
<1> QED
    BY <1>1, <1>2, <1>3, <1>4, <1>5, <1>6, <1>7, <1>8, <1>9, <1>10, <1>11, <1>12,
       <1>13, <1>14, <1>15, <1>16, <1>17, <1>18, <1>19, <1>20, <1>21, StepCases

-----------------------------------------------------------------------------
(* Accounting of bars and orders *)

\* Bars that may still place an order, and bars not yet counted.
Early == {"gate", "halted", "pipeline", "signal", "submit"}
Uncounted == Steps \ {"idle", "done"}

Busy(l, P) == Cardinality(InBar(l, P))

\* The account of an engine: BarsCountedOnce and OrdersReported, and the bounds
\* on the counters that make them inductive.
Account(l) ==
    /\ admitted[l] <= MaxBars[l]
    /\ admitted[l] = bars[l] + skipped[l] + Busy(l, Uncounted)
    /\ received[l] + skipped[l] + Busy(l, Early) <= admitted[l]
    /\ submitted[l] + Busy(l, {"answered"}) <= received[l]
    /\ received[l] <= submitted[l] + errors[l] + Busy(l, {"answered", "error"})
    /\ errors[l] <= bars[l]
    /\ consecutive[l] <= errors[l]

AccountInv == \A l \in Loops : Account(l)

\* 1 if the condition holds and 0 otherwise.
One(c) == IF c THEN 1 ELSE 0

\* A change of one member changes the size of a finite set by one.
LEMMA SizeStep ==
    ASSUME NEW S, NEW R, NEW x, IsFiniteSet(S),
           \A y : y # x => (y \in S <=> y \in R)
    PROVE  /\ Cardinality(S) \in Nat /\ Cardinality(R) \in Nat
           /\ Cardinality(R) + One(x \in S) = Cardinality(S) + One(x \in R)
<1>1. CASE x \in S /\ x \notin R
  <2>1. R = S \ {x}
      BY <1>1
  <2>2. IsFiniteSet(R) /\ Cardinality(R) = Cardinality(S) - 1
      BY <1>1, <2>1, FS_RemoveElement
  <2>3. Cardinality(S) \in Nat /\ Cardinality(R) \in Nat
      BY <2>2, FS_CardinalityType
  <2> QED
      BY <1>1, <2>2, <2>3 DEF One
<1>2. CASE x \notin S /\ x \in R
  <2>1. R = S \cup {x}
      BY <1>2
  <2> QED
      BY <1>2, <2>1, FS_AddElement, FS_CardinalityType DEF One
<1>3. CASE x \in S <=> x \in R
  <2>1. R = S
      BY <1>3
  <2> QED
      BY <1>3, <2>1, FS_CardinalityType DEF One
<1> QED
    BY <1>1, <1>2, <1>3

\* How the number of threads at some places of an engine's bars changes when
\* one thread moves, and the four such numbers in an engine's account.
Shift(P, t, to, m, l) ==
    /\ Busy(l, P) \in Nat
    /\ Busy(l, P)' \in Nat
    /\ Busy(l, P)' + One(loop[t] = l /\ at[t] \in P)
          = Busy(l, P) + One(m = l /\ to \in P)

Counts(t, to, m, l) ==
    /\ Shift(Uncounted, t, to, m, l)
    /\ Shift(Early, t, to, m, l)
    /\ Shift({"answered"}, t, to, m, l)
    /\ Shift({"answered", "error"}, t, to, m, l)

Moves(t, to, m) == at' = [at EXCEPT ![t] = to] /\ loop' = [loop EXCEPT ![t] = m]

LEMMA Moved ==
    ASSUME ShapeOK, NEW t \in Threads, NEW to, NEW m, NEW l \in Loops, NEW P,
           Moves(t, to, m)
    PROVE  Shift(P, t, to, m, l)
<1>1. IsFiniteSet(InBar(l, P))
    BY FiniteAssumption, FS_Subset DEF InBar
<1>2. \A y : y # t => (y \in InBar(l, P) <=> y \in InBar(l, P)')
    BY DEF InBar, ShapeOK, Moves
<1>3. t \in InBar(l, P) <=> loop[t] = l /\ at[t] \in P
    BY DEF InBar
<1>4. t \in InBar(l, P)' <=> m = l /\ to \in P
    BY DEF InBar, ShapeOK, Moves
<1>5. /\ Busy(l, P) \in Nat /\ Busy(l, P)' \in Nat
      /\ Busy(l, P)' + One(t \in InBar(l, P)) = Busy(l, P) + One(t \in InBar(l, P)')
    BY <1>1, <1>2, SizeStep DEF Busy
<1> QED
    BY <1>3, <1>4, <1>5 DEF One, Shift

LEMMA AllMoved ==
    ASSUME ShapeOK, NEW t \in Threads, NEW to, NEW m, NEW l \in Loops, Moves(t, to, m)
    PROVE  Counts(t, to, m, l)
BY Moved DEF Counts

LEMMA AccountInit == Init => AccountInv
<1> SUFFICES ASSUME Init
             PROVE  AccountInv
    OBVIOUS
<1>1. ASSUME NEW l \in Loops, NEW P
      PROVE  Busy(l, P) = 0
  <2>1. InBar(l, P) = {}
      BY NoneAssumption DEF Init, InBar
  <2> QED
      BY <2>1, FS_EmptySet DEF Busy
<1> QED
    BY <1>1, LimitsAssumption DEF Init, AccountInv, Account

\* What is not a step of a thread in a bar leaves the accounts alone.
LEMMA AccountKept ==
    ASSUME AccountInv, UNCHANGED <<counters, at, loop, historyVars>>
    PROVE  AccountInv'
BY DEF AccountInv, Account, Busy, InBar, counters, historyVars

\* The counters of an engine are as they were.
Same(l) ==
    /\ bars'[l] = bars[l] /\ submitted'[l] = submitted[l]
    /\ errors'[l] = errors[l] /\ consecutive'[l] = consecutive[l]
    /\ admitted'[l] = admitted[l] /\ skipped'[l] = skipped[l]
    /\ received'[l] = received[l]

\* A step in a bar of one engine leaves the accounts of the others alone.
LEMMA OneAccount ==
    ASSUME BasicInv, AccountInv, NEW t \in Threads, NEW to, NEW m, NEW l \in Loops,
           Moves(t, to, m), loop[t] \in {l, None}, m \in {l, None},
           \A k \in Loops \ {l} : Same(k),
           Account(l)'
    PROVE  AccountInv'
<1> SUFFICES ASSUME NEW k \in Loops, k # l
             PROVE  Account(k)'
    BY DEF AccountInv
<1>1. Counts(t, to, m, k)
    BY AllMoved DEF BasicInv
<1>2. loop[t] # k /\ m # k
    BY NoneAssumption
<1>3. /\ Busy(k, Uncounted)' = Busy(k, Uncounted)
      /\ Busy(k, Early)' = Busy(k, Early)
      /\ Busy(k, {"answered"})' = Busy(k, {"answered"})
      /\ Busy(k, {"answered", "error"})' = Busy(k, {"answered", "error"})
    BY <1>1, <1>2 DEF Counts, Shift, One
<1>4. Same(k) /\ Account(k)
    BY DEF AccountInv
<1> QED
    BY <1>3, <1>4 DEF Same, Account

LEMMA AccountNext == BasicInv /\ AccountInv /\ [Next]_vars => AccountInv'
<1> SUFFICES ASSUME BasicInv, AccountInv, [Next]_vars
             PROVE  AccountInv'
    OBVIOUS
<1> USE DEF counters, threadVars, managerVars, switchVars, historyVars
<1>a. ASSUME NEW t \in Threads, at[t] # "idle"
      PROVE  loop[t] \in Loops
    BY <1>a DEF BasicInv, ShapeOK, ThreadInv
<1>b. ASSUME NEW l \in Loops
      PROVE  /\ Account(l) /\ MaxBars[l] \in Nat
             /\ bars[l] \in Nat /\ submitted[l] \in Nat /\ errors[l] \in Nat
             /\ consecutive[l] \in Nat /\ admitted[l] \in Nat /\ skipped[l] \in Nat
             /\ received[l] \in Nat
    BY LimitsAssumption DEF BasicInv, ShapeOK, AccountInv
<1>1. ASSUME NEW t \in Threads, NEW l \in Loops, ProcessBar(t, l)
      PROVE  AccountInv'
  <2>1. at[t] = "idle" /\ loop[t] = None /\ Moves(t, "gate", l) /\ admitted[l] < MaxBars[l]
      BY <1>1 DEF ProcessBar, Move, Moves, BasicInv, ThreadInv
  <2>2. /\ bars'[l] = bars[l] /\ submitted'[l] = submitted[l]
        /\ errors'[l] = errors[l] /\ consecutive'[l] = consecutive[l]
        /\ admitted'[l] = admitted[l] + 1 /\ skipped'[l] = skipped[l]
        /\ received'[l] = received[l]
        /\ \A k \in Loops \ {l} : Same(k)
      BY <1>1 DEF ProcessBar, Move, Inc, Same, BasicInv, ShapeOK
  <2>3. Counts(t, "gate", l, l)
      BY <2>1, AllMoved DEF BasicInv
  <2>4. /\ Busy(l, Uncounted)' = Busy(l, Uncounted) + 1 /\ Busy(l, Uncounted) \in Nat
        /\ Busy(l, Early)' = Busy(l, Early) + 1 /\ Busy(l, Early) \in Nat
        /\ Busy(l, {"answered"})' = Busy(l, {"answered"}) /\ Busy(l, {"answered"}) \in Nat
        /\ Busy(l, {"answered", "error"})' = Busy(l, {"answered", "error"}) /\ Busy(l, {"answered", "error"}) \in Nat
      BY <2>1, <2>3, NoneAssumption
         DEF Counts, Shift, One, Steps, Early, Uncounted
  <2>5. Account(l)'
      BY <1>b, <2>1, <2>2, <2>4 DEF Account
  <2> QED
      BY <2>1, <2>2, <2>5, OneAccount
<1>2. ASSUME NEW t \in Threads, PauseHalted(t)
      PROVE  AccountInv'
  <2>0. PICK l \in Loops : loop[t] = l
      BY <1>2, <1>a DEF PauseHalted, Return, Move
  <2>1. at[t] = "halted" /\ Moves(t, "idle", None)
      BY <1>2, <2>0 DEF PauseHalted, Return, Move, Moves, BasicInv, ShapeOK
  <2>2. /\ bars'[l] = bars[l] /\ submitted'[l] = submitted[l]
        /\ errors'[l] = errors[l] /\ consecutive'[l] = consecutive[l]
        /\ admitted'[l] = admitted[l] /\ skipped'[l] = skipped[l] + 1
        /\ received'[l] = received[l]
        /\ \A k \in Loops \ {l} : Same(k)
      BY <1>2, <2>0 DEF PauseHalted, Return, Move, Inc, Same, BasicInv, ShapeOK
  <2>3. Counts(t, "idle", None, l)
      BY <2>1, AllMoved DEF BasicInv
  <2>4. /\ Busy(l, Uncounted)' = Busy(l, Uncounted) - 1 /\ Busy(l, Uncounted) \in Nat
        /\ Busy(l, Early)' = Busy(l, Early) - 1 /\ Busy(l, Early) \in Nat
        /\ Busy(l, {"answered"})' = Busy(l, {"answered"}) /\ Busy(l, {"answered"}) \in Nat
        /\ Busy(l, {"answered", "error"})' = Busy(l, {"answered", "error"}) /\ Busy(l, {"answered", "error"}) \in Nat
      BY <2>0, <2>1, <2>3, NoneAssumption
         DEF Counts, Shift, One, Steps, Early, Uncounted
  <2>5. Account(l)'
    <3>1. /\ Account(l) /\ MaxBars[l] \in Nat
          /\ bars[l] \in Nat /\ submitted[l] \in Nat /\ errors[l] \in Nat
          /\ consecutive[l] \in Nat /\ admitted[l] \in Nat /\ skipped[l] \in Nat
          /\ received[l] \in Nat
        BY <1>b
    <3>2. Busy(l, Uncounted)' \in Int /\ Busy(l, Early)' \in Int
        BY <2>4
    <3> QED
        BY <2>2, <2>4, <3>1, <3>2 DEF Account
  <2> QED
      BY <2>0, <2>1, <2>2, <2>5, OneAccount
<1>3. ASSUME NEW t \in Threads, CountOrder(t)
      PROVE  AccountInv'
  <2>0. PICK l \in Loops : loop[t] = l
      BY <1>3, <1>a DEF CountOrder, Move
  <2>1. at[t] = "answered" /\ Moves(t, "count", l)
      BY <1>3, <2>0 DEF CountOrder, Move, Moves, BasicInv, ShapeOK
  <2>2. /\ bars'[l] = bars[l] /\ submitted'[l] = submitted[l] + 1
        /\ errors'[l] = errors[l] /\ consecutive'[l] = consecutive[l]
        /\ admitted'[l] = admitted[l] /\ skipped'[l] = skipped[l]
        /\ received'[l] = received[l]
        /\ \A k \in Loops \ {l} : Same(k)
      BY <1>3, <2>0 DEF CountOrder, Move, Inc, Same, BasicInv, ShapeOK
  <2>3. Counts(t, "count", l, l)
      BY <2>1, AllMoved DEF BasicInv
  <2>4. /\ Busy(l, Uncounted)' = Busy(l, Uncounted) /\ Busy(l, Uncounted) \in Nat
        /\ Busy(l, Early)' = Busy(l, Early) /\ Busy(l, Early) \in Nat
        /\ Busy(l, {"answered"})' = Busy(l, {"answered"}) - 1 /\ Busy(l, {"answered"}) \in Nat
        /\ Busy(l, {"answered", "error"})' = Busy(l, {"answered", "error"}) - 1 /\ Busy(l, {"answered", "error"}) \in Nat
      BY <2>0, <2>1, <2>3, NoneAssumption
         DEF Counts, Shift, One, Steps, Early, Uncounted
  <2>5. Account(l)'
      BY <1>b, <2>1, <2>2, <2>4 DEF Account
  <2> QED
      BY <2>0, <2>1, <2>2, <2>5, OneAccount
<1>4. ASSUME NEW t \in Threads, CountBar(t)
      PROVE  AccountInv'
  <2>0. PICK l \in Loops : loop[t] = l
      BY <1>4, <1>a DEF CountBar, Move
  <2>1. at[t] = "count" /\ Moves(t, "done", l)
      BY <1>4, <2>0 DEF CountBar, Move, Moves, BasicInv, ShapeOK
  <2>2. /\ bars'[l] = bars[l] + 1 /\ submitted'[l] = submitted[l]
        /\ errors'[l] = errors[l] /\ consecutive'[l] = consecutive[l]
        /\ admitted'[l] = admitted[l] /\ skipped'[l] = skipped[l]
        /\ received'[l] = received[l]
        /\ \A k \in Loops \ {l} : Same(k)
      BY <1>4, <2>0 DEF CountBar, Move, Inc, Same, BasicInv, ShapeOK
  <2>3. Counts(t, "done", l, l)
      BY <2>1, AllMoved DEF BasicInv
  <2>4. /\ Busy(l, Uncounted)' = Busy(l, Uncounted) - 1 /\ Busy(l, Uncounted) \in Nat
        /\ Busy(l, Early)' = Busy(l, Early) /\ Busy(l, Early) \in Nat
        /\ Busy(l, {"answered"})' = Busy(l, {"answered"}) /\ Busy(l, {"answered"}) \in Nat
        /\ Busy(l, {"answered", "error"})' = Busy(l, {"answered", "error"}) /\ Busy(l, {"answered", "error"}) \in Nat
      BY <2>0, <2>1, <2>3, NoneAssumption
         DEF Counts, Shift, One, Steps, Early, Uncounted
  <2>5. Account(l)'
      BY <1>b, <2>1, <2>2, <2>4 DEF Account
  <2> QED
      BY <2>0, <2>1, <2>2, <2>5, OneAccount
<1>5. ASSUME NEW t \in Threads, ResetErrors(t)
      PROVE  AccountInv'
  <2>0. PICK l \in Loops : loop[t] = l
      BY <1>5, <1>a DEF ResetErrors, Return, Move
  <2>1. at[t] = "done" /\ Moves(t, "idle", None)
      BY <1>5, <2>0 DEF ResetErrors, Return, Move, Moves, BasicInv, ShapeOK
  <2>2. /\ bars'[l] = bars[l] /\ submitted'[l] = submitted[l]
        /\ errors'[l] = errors[l] /\ consecutive'[l] = 0
        /\ admitted'[l] = admitted[l] /\ skipped'[l] = skipped[l]
        /\ received'[l] = received[l]
        /\ \A k \in Loops \ {l} : Same(k)
      BY <1>5, <2>0 DEF ResetErrors, Return, Move, Inc, Same, BasicInv, ShapeOK
  <2>3. Counts(t, "idle", None, l)
      BY <2>1, AllMoved DEF BasicInv
  <2>4. /\ Busy(l, Uncounted)' = Busy(l, Uncounted) /\ Busy(l, Uncounted) \in Nat
        /\ Busy(l, Early)' = Busy(l, Early) /\ Busy(l, Early) \in Nat
        /\ Busy(l, {"answered"})' = Busy(l, {"answered"}) /\ Busy(l, {"answered"}) \in Nat
        /\ Busy(l, {"answered", "error"})' = Busy(l, {"answered", "error"}) /\ Busy(l, {"answered", "error"}) \in Nat
      BY <2>0, <2>1, <2>3, NoneAssumption
         DEF Counts, Shift, One, Steps, Early, Uncounted
  <2>5. Account(l)'
      BY <1>b, <2>1, <2>2, <2>4 DEF Account
  <2> QED
      BY <2>0, <2>1, <2>2, <2>5, OneAccount
<1>6. ASSUME NEW t \in Threads, HandleError(t)
      PROVE  AccountInv'
  <2>0. PICK l \in Loops : loop[t] = l
      BY <1>6, <1>a DEF HandleError, Return, Move
  <2>1. at[t] = "error" /\ Moves(t, "idle", None)
      BY <1>6, <2>0 DEF HandleError, Return, Move, Moves, BasicInv, ShapeOK
  <2>2. /\ bars'[l] = bars[l] + 1 /\ submitted'[l] = submitted[l]
        /\ errors'[l] = errors[l] + 1 /\ consecutive'[l] = consecutive[l] + 1
        /\ admitted'[l] = admitted[l] /\ skipped'[l] = skipped[l]
        /\ received'[l] = received[l]
        /\ \A k \in Loops \ {l} : Same(k)
      BY <1>6, <2>0 DEF HandleError, Return, Move, Inc, Same, BasicInv, ShapeOK
  <2>3. Counts(t, "idle", None, l)
      BY <2>1, AllMoved DEF BasicInv
  <2>4. /\ Busy(l, Uncounted)' = Busy(l, Uncounted) - 1 /\ Busy(l, Uncounted) \in Nat
        /\ Busy(l, Early)' = Busy(l, Early) /\ Busy(l, Early) \in Nat
        /\ Busy(l, {"answered"})' = Busy(l, {"answered"}) /\ Busy(l, {"answered"}) \in Nat
        /\ Busy(l, {"answered", "error"})' = Busy(l, {"answered", "error"}) - 1 /\ Busy(l, {"answered", "error"}) \in Nat
      BY <2>0, <2>1, <2>3, NoneAssumption
         DEF Counts, Shift, One, Steps, Early, Uncounted
  <2>5. Account(l)'
    <3>1. /\ Account(l) /\ MaxBars[l] \in Nat
          /\ bars[l] \in Nat /\ submitted[l] \in Nat /\ errors[l] \in Nat
          /\ consecutive[l] \in Nat /\ admitted[l] \in Nat /\ skipped[l] \in Nat
          /\ received[l] \in Nat
        BY <1>b
    <3>2. Busy(l, Uncounted)' \in Int /\ Busy(l, Early)' \in Int
        BY <2>4
    <3> QED
        BY <2>2, <2>4, <3>1, <3>2 DEF Account
  <2> QED
      BY <2>0, <2>1, <2>2, <2>5, OneAccount
<1>7. ASSUME NEW t \in Threads, CheckKillSwitch(t) \/ EvaluateStrategy(t) \/ EvaluateSignal(t)
      PROVE  AccountInv'
  <2>0. PICK l \in Loops, to \in Steps : loop[t] = l /\ at'[t] = to
      BY <1>7, <1>a DEF CheckKillSwitch, EvaluateStrategy, EvaluateSignal, Move, Steps, BasicInv, ShapeOK
  <2>1. /\ at[t] \in {"gate", "pipeline", "signal"} /\ Moves(t, to, l)
        /\ to \in {"halted", "pipeline", "count", "error", "signal", "submit"}
      BY <1>7, <2>0 DEF CheckKillSwitch, EvaluateStrategy, EvaluateSignal, Move, Moves,
                       BasicInv, ShapeOK
  <2>2. \A k \in Loops : Same(k)
      BY <1>7 DEF CheckKillSwitch, EvaluateStrategy, EvaluateSignal, Same
  <2>3. Counts(t, to, l, l)
      BY <2>1, AllMoved DEF BasicInv
  <2>4. /\ Busy(l, Uncounted)' = Busy(l, Uncounted) /\ Busy(l, Uncounted) \in Nat
        /\ Busy(l, Early)' <= Busy(l, Early)
        /\ Busy(l, {"answered"})' = Busy(l, {"answered"})
        /\ Busy(l, {"answered", "error"})' >= Busy(l, {"answered", "error"})
        /\ Busy(l, Early)' \in Nat /\ Busy(l, {"answered", "error"})' \in Nat
        /\ Busy(l, Early) \in Nat /\ Busy(l, {"answered", "error"}) \in Nat
      BY <2>0, <2>1, <2>3 DEF Counts, Shift, One, Steps, Early, Uncounted
  <2>5. Account(l)'
      BY <1>b, <2>1, <2>2, <2>4 DEF Account, Same
  <2> QED
      BY <2>0, <2>1, <2>2, <2>5, OneAccount
<1>8. ASSUME NEW t \in Threads, SubmitOrder(t)
      PROVE  AccountInv'
  <2>0. PICK l \in Loops, to \in Steps : loop[t] = l /\ at'[t] = to
      BY <1>8, <1>a DEF SubmitOrder, Move, Steps, BasicInv, ShapeOK
  <2>1. /\ at[t] = "submit" /\ Moves(t, to, l)
        /\ to \in {"answered", "error"}
        /\ \/ received'[l] = received[l] + 1
           \/ received'[l] = received[l] /\ to = "error"
      BY <1>8, <2>0 DEF SubmitOrder, Move, Moves, Inc, BasicInv, ShapeOK
  <2>2. /\ bars'[l] = bars[l] /\ submitted'[l] = submitted[l]
        /\ errors'[l] = errors[l] /\ consecutive'[l] = consecutive[l]
        /\ admitted'[l] = admitted[l] /\ skipped'[l] = skipped[l]
        /\ \A k \in Loops \ {l} : Same(k)
      BY <1>8, <2>0 DEF SubmitOrder, Same, Inc, BasicInv, ShapeOK
  <2>3. Counts(t, to, l, l)
      BY <2>1, AllMoved DEF BasicInv
  <2>4. /\ Busy(l, Uncounted)' = Busy(l, Uncounted) /\ Busy(l, Uncounted) \in Nat
        /\ Busy(l, Early)' = Busy(l, Early) - 1 /\ Busy(l, Early) \in Nat
        /\ Busy(l, {"answered"})' = Busy(l, {"answered"}) + One(to = "answered")
        /\ Busy(l, {"answered", "error"})' = Busy(l, {"answered", "error"}) + 1
        /\ Busy(l, {"answered"}) \in Nat /\ Busy(l, {"answered", "error"}) \in Nat
      BY <2>0, <2>1, <2>3 DEF Counts, Shift, One, Steps, Early, Uncounted
  <2>5. Account(l)'
      BY <1>b, <2>1, <2>2, <2>4 DEF Account, One
  <2> QED
      BY <2>0, <2>1, <2>2, <2>5, OneAccount
<1>9. CASE UNCHANGED <<counters, at, loop, historyVars>>
    BY <1>9, AccountKept
<1>10. ASSUME NEW l \in Loops, StartLoop(l) \/ Inspect(l) \/ Halt(l) \/ Lift(l)
      PROVE  AccountInv'
    BY <1>9, <1>10 DEF StartLoop, Inspect, Halt, Lift
<1>11. ASSUME NEW d \in Deployments, StopLoop(d) \/ PauseLoop(d) \/ ResumeLoop(d)
      PROVE  AccountInv'
    BY <1>9, <1>11 DEF StopLoop, PauseLoop, ResumeLoop
<1>12. CASE StopAll \/ StopInspected \/ ClearRegistry
    BY <1>9, <1>12 DEF StopAll, StopInspected, ClearRegistry
<1>13. CASE UNCHANGED vars
    BY <1>9, <1>13 DEF vars
<1> QED
    BY <1>1, <1>2, <1>3, <1>4, <1>5, <1>6, <1>7, <1>8, <1>10, <1>11, <1>12, <1>13, StepCases

-----------------------------------------------------------------------------
(* Theorems *)

LEMMA EngineInv == Spec => [](BasicInv /\ AccountInv)
<1>1. Init => BasicInv /\ AccountInv
    BY BasicInit, AccountInit
<1>2. BasicInv /\ AccountInv /\ [Next]_vars => (BasicInv /\ AccountInv)'
    BY BasicNext, AccountNext
<1> QED
    BY <1>1, <1>2, PTL DEF Spec

LEMMA CountsAreNat ==
    ASSUME NEW l, NEW P
    PROVE  Busy(l, P) \in Nat
<1>1. IsFiniteSet(InBar(l, P))
    BY FiniteAssumption, FS_Subset DEF InBar
<1> QED
    BY <1>1, FS_CardinalityType DEF Busy

\* Every variable keeps its type, and no counter of an engine exceeds the bars
\* it admitted: none is counted twice.
THEOREM TypeCorrect == Spec => []TypeOK
<1>1. BasicInv /\ AccountInv => TypeOK
  <2> SUFFICES ASSUME BasicInv, AccountInv
               PROVE  TypeOK
      OBVIOUS
  <2>1. ASSUME NEW l \in Loops
        PROVE  /\ bars[l] <= MaxBars[l] /\ submitted[l] <= MaxBars[l]
               /\ errors[l] <= MaxBars[l] /\ consecutive[l] <= MaxBars[l]
               /\ admitted[l] <= MaxBars[l] /\ skipped[l] <= MaxBars[l]
               /\ received[l] <= MaxBars[l]
    <3> DEFINE u == Busy(l, Uncounted)
               e == Busy(l, Early)
               p == Busy(l, {"answered"})
    <3>1. u \in Nat /\ e \in Nat /\ p \in Nat
        BY CountsAreNat
    <3>2. /\ admitted[l] <= MaxBars[l]
          /\ admitted[l] = bars[l] + skipped[l] + u
          /\ received[l] + skipped[l] + e <= admitted[l]
          /\ submitted[l] + p <= received[l]
          /\ errors[l] <= bars[l]
          /\ consecutive[l] <= errors[l]
        BY DEF AccountInv, Account
    <3>3. /\ MaxBars[l] \in Nat /\ bars[l] \in Nat /\ submitted[l] \in Nat
          /\ errors[l] \in Nat /\ consecutive[l] \in Nat /\ admitted[l] \in Nat
          /\ skipped[l] \in Nat /\ received[l] \in Nat
        BY LimitsAssumption DEF BasicInv, ShapeOK
    <3> HIDE DEF u, e, p
    <3> QED
        BY <3>1, <3>2, <3>3
  <2> QED
      BY <2>1 DEF TypeOK, BasicInv, ShapeOK
<1> QED
    BY <1>1, EngineInv, PTL

\* process_bar counts every admitted bar exactly once.
THEOREM BarsAreCountedOnce == Spec => []BarsCountedOnce
<1>1. AccountInv => BarsCountedOnce
    BY DEF AccountInv, Account, Busy, BarsCountedOnce, Uncounted
<1> QED
    BY <1>1, EngineInv, PTL

\* orders_submitted is honest up to the errors the engine reports.
THEOREM OrdersAreReported == Spec => []OrdersReported
<1>1. BasicInv /\ AccountInv => OrdersReported
  <2> SUFFICES ASSUME BasicInv, AccountInv, NEW l \in Loops
               PROVE  /\ submitted[l] <= received[l]
                      /\ received[l] <= submitted[l] + errors[l]
                             + Cardinality(InBar(l, {"answered", "error"}))
      BY DEF OrdersReported
  <2>1. Busy(l, {"answered"}) \in Nat
      BY CountsAreNat
  <2>2. Busy(l, {"answered", "error"}) = Cardinality(InBar(l, {"answered", "error"}))
      BY DEF Busy
  <2> QED
      BY <2>1, <2>2 DEF AccountInv, Account, BasicInv, ShapeOK
<1> QED
    BY <1>1, EngineInv, PTL

\* A bar in the pipeline under a halt was checked before that halt.
THEOREM HaltIsRespected == Spec => []HaltRespected
BY EngineInv, PTL DEF BasicInv

\* No engine runs after max_consecutive_errors errors in a row, whatever bars,
\* halts and operators do meanwhile (the handler in process_bar).
THEOREM BreakerAlwaysTrips == Spec => []BreakerTrips
<1>1. BasicInv => BreakerTrips
    BY DEF BasicInv, BreakerInv, BreakerTrips
<1> QED BY EngineInv, <1>1, PTL

\* stop_all leaves every engine of its results stopped or failed.
THEOREM StopAllIsEffective == Spec => []StopAllStops
BY EngineInv, PTL DEF BasicInv

\* No step brings a stopped or failed engine back.
THEOREM TerminalIsAbsorbing == Spec => TerminalStays
<1> DEFINE Stays == \A l \in Loops : state[l] \in Terminal => state'[l] \in Terminal
<1>1. BasicInv /\ [Next]_vars => [Stays]_vars
  <2> SUFFICES ASSUME BasicInv, Next
               PROVE  Stays
      OBVIOUS
  <2>1. ASSUME NEW k \in Loops, NEW s, Transit(k, s)
        PROVE  Stays
      BY <2>1, TransitKeeps
  <2>2. CASE UNCHANGED state
      BY <2>2
  <2>3. ASSUME NEW l \in Loops, StartLoop(l) \/ Inspect(l) \/ Halt(l) \/ Lift(l)
        PROVE  Stays
      BY <2>1, <2>2, <2>3 DEF StartLoop, Start, Inspect, Halt, Lift
  <2>4. ASSUME NEW d \in Deployments, StopLoop(d) \/ PauseLoop(d) \/ ResumeLoop(d)
        PROVE  Stays
    <3>1. registry[d] \in Loops
        BY <2>4 DEF BasicInv, ShapeOK, StopLoop, PauseLoop, ResumeLoop
    <3> QED
        BY <2>1, <2>4, <3>1 DEF StopLoop, Stop, PauseLoop, Pause, ResumeLoop, Resume
  <2>5. CASE StopAll \/ ClearRegistry
      BY <2>2, <2>5 DEF StopAll, ClearRegistry
  <2>6. CASE StopInspected
    <3>1. target \in Loops
        BY <2>6 DEF BasicInv, ShapeOK, StopInspected
    <3> QED
        BY <2>1, <2>2, <2>6, <3>1 DEF StopInspected, Stop
  <2>7. ASSUME NEW t \in Threads, PauseHalted(t) \/ HandleError(t)
        PROVE  Stays
      BY <2>7 DEF PauseHalted, HandleError, BasicInv, ShapeOK, Terminal
  <2>8. ASSUME NEW t \in Threads,
               \/ \E l \in Loops : ProcessBar(t, l)
               \/ CheckKillSwitch(t) \/ EvaluateStrategy(t) \/ EvaluateSignal(t)
               \/ SubmitOrder(t) \/ CountOrder(t) \/ CountBar(t) \/ ResetErrors(t)
        PROVE  Stays
      BY <2>2, <2>8
         DEF ProcessBar, CheckKillSwitch, EvaluateStrategy, EvaluateSignal,
             SubmitOrder, CountOrder, CountBar, ResetErrors
  <2> QED
      BY <2>3, <2>4, <2>5, <2>6, <2>7, <2>8, StepCases
<1> QED
    BY <1>1, EngineInv, PTL DEF Spec, TerminalStays
=============================================================================
