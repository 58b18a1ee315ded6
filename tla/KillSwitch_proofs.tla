------------------------- MODULE KillSwitch_proofs -------------------------
(***************************************************************************)
(* Proofs about the kill switch, for any workers, orders and scopes.       *)
(***************************************************************************)
EXTENDS KillSwitch, TLAPS

\* What a request under way holds: an activation has a target and room for
\* its event, a verification an order, an order an attempt left.
StepInv ==
    \A w \in Workers :
        /\ step[w] = "idle" => target[w] = None
        /\ step[w] \in {"sweep", "save"} => target[w] # None
        /\ step[w] # "idle" /\ target[w] # None => events[w] < MaxEvents
        /\ step[w] = "verify" => order[w] # None
        /\ order[w] # None => attempt[w] < MaxRetries
        /\ trade[w] # "idle" => subject[w] # None

ShapeInv == TypeOK /\ StepInv

LEMMA ShapeInit == Init => ShapeInv
BY BoundsAssumption, NoneAssumption DEF Init, ShapeInv, TypeOK, StepInv

LEMMA ShapeNext == ShapeInv /\ [Next]_vars => ShapeInv'
<1> SUFFICES ASSUME ShapeInv, [Next]_vars
             PROVE  ShapeInv'
    OBVIOUS
<1> USE BoundsAssumption, OrdersAssumption, NoneAssumption
        DEF ShapeInv, TypeOK, StepInv, sessionVars, passVars, switchVars, tradeVars
<1>1. ASSUME NEW w \in Workers, NEW o \in Orders, CheckKillSwitch(w, o)
      PROVE  ShapeInv'
    BY <1>1 DEF CheckKillSwitch
<1>2. ASSUME NEW w \in Workers, CommitOrder(w)
      PROVE  ShapeInv'
    BY <1>2 DEF CommitOrder, Commit, Active
<1>3. ASSUME NEW w \in Workers, SubmitOrder(w)
      PROVE  ShapeInv'
    BY <1>3 DEF SubmitOrder
<1>4. ASSUME NEW w \in Workers, RefuseOrder(w)
      PROVE  ShapeInv'
    BY <1>4 DEF RefuseOrder
<1>5. ASSUME NEW w \in Workers, CommitOther(w)
      PROVE  ShapeInv'
    BY <1>5 DEF CommitOther, Commit, Active
<1>6. ASSUME NEW w \in Workers, NEW t \in Targets, BeginActivation(w, t)
      PROVE  ShapeInv'
    BY <1>6 DEF BeginActivation, Affected, OpenOrders
<1>7. ASSUME NEW w \in Workers, NEW d \in Deployments, SweepAdapter(w, d)
      PROVE  ShapeInv'
    BY <1>7 DEF SweepAdapter, BeginPass, OpenOrders
<1>8. ASSUME NEW w \in Workers, SweepFails(w)
      PROVE  ShapeInv'
    BY <1>8 DEF SweepFails, Finish
<1>9. ASSUME NEW w \in Workers, EndSweep(w)
      PROVE  ShapeInv'
    BY <1>9 DEF EndSweep
<1>10. ASSUME NEW w \in Workers, SaveEvent(w)
      PROVE  ShapeInv'
    BY <1>10 DEF SaveEvent, Finish, Rows
<1>11. ASSUME NEW w \in Workers, SaveFails(w)
      PROVE  ShapeInv'
    BY <1>11 DEF SaveFails, Finish
<1>12. ASSUME NEW w \in Workers, NEW o \in Orders, TakeOrder(w, o) \/ SkipOrder(w, o)
      PROVE  ShapeInv'
  <2>1. CASE TakeOrder(w, o)
      BY <2>1 DEF TakeOrder
  <2>2. CASE SkipOrder(w, o)
      BY <2>2 DEF SkipOrder
  <2> QED BY <1>12, <2>1, <2>2
<1>13. ASSUME NEW w \in Workers, CancelAccepted(w)
      PROVE  ShapeInv'
    BY <1>13 DEF CancelAccepted, BrokerCancels
<1>14. ASSUME NEW w \in Workers, CancelTransient(w)
      PROVE  ShapeInv'
  <2>1. CASE attempt[w] + 1 < MaxRetries
      BY <1>14, <2>1, SMTT(30) DEF CancelTransient, BrokerCancels
  <2>2. CASE attempt[w] + 1 = MaxRetries
    <3>1. OrderFailed(w) /\ UNCHANGED <<sessionVars, step, tradeVars>>
        BY <1>14, <2>2 DEF CancelTransient
    <3>2. PICK s \in {status[order[w]], "closed"} : status' = [status EXCEPT ![order[w]] = s]
        BY <1>14 DEF CancelTransient, BrokerCancels
    <3>3. step[w] = "cancel" /\ order[w] \in Orders /\ attempt' = [attempt EXCEPT ![w] = @ + 1]
        BY <1>14 DEF CancelTransient
    <3>4. StepInv'
        BY <2>2, <3>1, <3>3 DEF OrderFailed
    <3>5. attempt' \in [Workers -> 0..MaxRetries]
        BY <2>2, <3>3
    <3>6. TypeOK'
        BY <3>1, <3>2, <3>3, <3>5 DEF OrderFailed
    <3> QED BY <3>4, <3>6
  <2> QED BY <1>14, <2>1, <2>2 DEF CancelTransient
<1>15. ASSUME NEW w \in Workers, CancelFails(w)
      PROVE  ShapeInv'
    BY <1>15, SMTT(30) DEF CancelFails, BrokerCancels, OrderFailed
<1>16. ASSUME NEW w \in Workers, VerifyOrder(w)
      PROVE  ShapeInv'
  <2>1. CASE OrderFailed(w)
      BY <1>16, <2>1 DEF VerifyOrder, OrderFailed
  <2>2. CASE /\ status[order[w]] = "closed"
             /\ counted' = [counted EXCEPT ![w] = @ \cup {order[w]}]
             /\ order' = [order EXCEPT ![w] = None]
             /\ UNCHANGED <<target, adapters, adapter, posture, todo, missed, failed, skipped,
                            standing>>
    <3>1. order[w] \in Orders /\ step' = [step EXCEPT ![w] = "cancel"]
        BY <1>16 DEF VerifyOrder
    <3>2. UNCHANGED <<sessionVars, attempt, tradeVars, status>>
        BY <1>16 DEF VerifyOrder
    <3> QED BY <2>2, <3>1, <3>2
  <2> QED BY <1>16, <2>1, <2>2 DEF VerifyOrder
<1>17. ASSUME NEW w \in Workers, EndPass(w)
      PROVE  ShapeInv'
  <2>1. CASE /\ adapter[w] \in Cancelling
             /\ BeginPass(w, adapter[w], TRUE)
             /\ UNCHANGED <<target, adapters, failed, counted, skipped, standing>>
      BY <1>17, <2>1, PostureAssumption DEF EndPass, BeginPass, OpenOrders
  <2>2. CASE /\ target[w] # None
             /\ step' = [step EXCEPT ![w] = "sweep"]
             /\ NoPass(w)
             /\ UNCHANGED <<target, adapters, failed, counted, skipped, standing>>
    <3>1. UNCHANGED <<sessionVars, tradeVars, status>> /\ step[w] = "cancel"
        BY <1>17 DEF EndPass
    <3> QED BY <2>2, <3>1 DEF NoPass
  <2>3. CASE Finish(w) /\ NoPass(w)
    <3>1. UNCHANGED <<sessionVars, tradeVars, status>>
        BY <1>17 DEF EndPass
    <3> QED BY <2>3, <3>1 DEF NoPass, Finish
  <2> QED BY <1>17, <2>1, <2>2, <2>3 DEF EndPass
<1>18. ASSUME NEW w \in Workers, NEW d \in Deployments, BeginPosture(w, d)
      PROVE  ShapeInv'
    BY <1>18 DEF BeginPosture, BeginPass, OpenOrders
<1>19. ASSUME NEW w \in Workers, NEW t \in Targets, Deactivate(w, t)
      PROVE  ShapeInv'
    BY <1>19 DEF Deactivate, Active
<1>20. ASSUME NEW w \in Workers, DbError(w)
      PROVE  ShapeInv'
    BY <1>20 DEF DbError
<1>21. ASSUME NEW w \in Workers, Crash(w)
      PROVE  ShapeInv'
    BY <1>21 DEF Crash, Finish, NoPass
<1>22. ASSUME NEW o \in Orders, BrokerCloses(o)
      PROVE  ShapeInv'
    BY <1>22 DEF BrokerCloses
<1>23. CASE UNCHANGED vars
    BY <1>23 DEF vars
<1> QED
    BY <1>1, <1>2, <1>3, <1>4, <1>5, <1>6, <1>7, <1>8, <1>9, <1>10, <1>11, <1>12,
       <1>13, <1>14, <1>15, <1>16, <1>17, <1>18, <1>19, <1>20, <1>21, <1>22, <1>23
               DEF Next, Proceed, Trading

LEMMA ShapeCorrect == Spec => []ShapeInv
BY ShapeInit, ShapeNext, PTL DEF Spec

\* The kill switch's state is well formed.
THEOREM TypeCorrect == Spec => []TypeOK
BY ShapeCorrect, PTL DEF ShapeInv

-----------------------------------------------------------------------------

\* An order on its way to the broker is not there yet, and has one worker.
SubjectInv ==
    /\ \A w \in Workers :
          /\ trade[w] = "idle" <=> subject[w] = None
          /\ subject[w] # None => status[subject[w]] = "new"
    /\ \A v, w \in Workers : subject[v] = subject[w] /\ subject[v] # None => v = w

\* An order that a pass has listed is at the broker.
ListedInv ==
    \A w \in Workers :
        /\ \A o \in todo[w] : status[o] # "new"
        /\ order[w] # None => status[order[w]] # "new"

CountInv == SubjectInv /\ ListedInv /\ CountedIsClosed

LEMMA CountInit == Init => CountInv
BY DEF Init, CountInv, SubjectInv, ListedInv, CountedIsClosed

LEMMA CountNext == ShapeInv /\ CountInv /\ [Next]_vars => CountInv'
<1> SUFFICES ASSUME ShapeInv, CountInv, [Next]_vars
             PROVE  CountInv'
    OBVIOUS
<1> USE BoundsAssumption, OrdersAssumption, NoneAssumption
        DEF ShapeInv, TypeOK, StepInv, CountInv, SubjectInv, ListedInv, CountedIsClosed,
            sessionVars, passVars, switchVars, tradeVars
<1>1. ASSUME NEW w \in Workers, NEW o \in Orders, CheckKillSwitch(w, o)
      PROVE  CountInv'
    BY <1>1 DEF CheckKillSwitch
<1>2. ASSUME NEW w \in Workers, CommitOrder(w)
      PROVE  CountInv'
    BY <1>2 DEF CommitOrder, Commit
<1>3. ASSUME NEW w \in Workers, SubmitOrder(w)
      PROVE  CountInv'
    BY <1>3 DEF SubmitOrder
<1>4. ASSUME NEW w \in Workers, RefuseOrder(w)
      PROVE  CountInv'
    BY <1>4 DEF RefuseOrder
<1>5. ASSUME NEW w \in Workers, CommitOther(w)
      PROVE  CountInv'
    BY <1>5 DEF CommitOther, Commit
<1>6. ASSUME NEW w \in Workers, NEW t \in Targets, BeginActivation(w, t)
      PROVE  CountInv'
    BY <1>6 DEF BeginActivation
<1>7. ASSUME NEW w \in Workers, NEW d \in Deployments, SweepAdapter(w, d)
      PROVE  CountInv'
    BY <1>7 DEF SweepAdapter, BeginPass, OpenOrders
<1>8. ASSUME NEW w \in Workers, SweepFails(w)
      PROVE  CountInv'
    BY <1>8 DEF SweepFails, Finish
<1>9. ASSUME NEW w \in Workers, EndSweep(w)
      PROVE  CountInv'
    BY <1>9 DEF EndSweep
<1>10. ASSUME NEW w \in Workers, SaveEvent(w)
      PROVE  CountInv'
    BY <1>10 DEF SaveEvent, Finish
<1>11. ASSUME NEW w \in Workers, SaveFails(w)
      PROVE  CountInv'
    BY <1>11 DEF SaveFails, Finish
<1>12. ASSUME NEW w \in Workers, NEW o \in Orders, TakeOrder(w, o) \/ SkipOrder(w, o)
      PROVE  CountInv'
  <2>1. CASE TakeOrder(w, o)
      BY <2>1 DEF TakeOrder
  <2>2. CASE SkipOrder(w, o)
      BY <2>2 DEF SkipOrder
  <2> QED BY <1>12, <2>1, <2>2
<1>13. ASSUME NEW w \in Workers, CancelAccepted(w)
      PROVE  CountInv'
    BY <1>13 DEF CancelAccepted, BrokerCancels
<1>14. ASSUME NEW w \in Workers, CancelTransient(w)
      PROVE  CountInv'
  <2>1. CASE attempt[w] + 1 < MaxRetries
      BY <1>14, <2>1 DEF CancelTransient, BrokerCancels
  <2>2. CASE attempt[w] + 1 = MaxRetries
    <3>1. OrderFailed(w) /\ UNCHANGED <<sessionVars, step, tradeVars>>
        BY <1>14, <2>2 DEF CancelTransient
    <3>2. PICK s \in {status[order[w]], "closed"} : status' = [status EXCEPT ![order[w]] = s]
        BY <1>14 DEF CancelTransient, BrokerCancels
    <3>3. step[w] = "cancel" /\ order[w] \in Orders /\ attempt' = [attempt EXCEPT ![w] = @ + 1]
        BY <1>14 DEF CancelTransient
    <3> QED BY <2>2, <3>1, <3>2, <3>3 DEF OrderFailed
  <2> QED BY <1>14, <2>1, <2>2 DEF CancelTransient
<1>15. ASSUME NEW w \in Workers, CancelFails(w)
      PROVE  CountInv'
    BY <1>15 DEF CancelFails, BrokerCancels, OrderFailed
<1>16. ASSUME NEW w \in Workers, VerifyOrder(w)
      PROVE  CountInv'
  <2>1. CASE OrderFailed(w)
      BY <1>16, <2>1 DEF VerifyOrder, OrderFailed
  <2>2. CASE /\ status[order[w]] = "closed"
             /\ counted' = [counted EXCEPT ![w] = @ \cup {order[w]}]
             /\ order' = [order EXCEPT ![w] = None]
             /\ UNCHANGED <<target, adapters, adapter, posture, todo, missed, failed, skipped,
                            standing>>
    <3>1. order[w] \in Orders /\ step' = [step EXCEPT ![w] = "cancel"]
        BY <1>16 DEF VerifyOrder
    <3>2. UNCHANGED <<sessionVars, attempt, tradeVars, status>>
        BY <1>16 DEF VerifyOrder
    <3> QED BY <2>2, <3>1, <3>2
  <2> QED BY <1>16, <2>1, <2>2 DEF VerifyOrder
<1>17. ASSUME NEW w \in Workers, EndPass(w)
      PROVE  CountInv'
  <2>1. CASE /\ adapter[w] \in Cancelling
             /\ BeginPass(w, adapter[w], TRUE)
             /\ UNCHANGED <<target, adapters, failed, counted, skipped, standing>>
      BY <1>17, <2>1, PostureAssumption DEF EndPass, BeginPass, OpenOrders
  <2>2. CASE /\ target[w] # None
             /\ step' = [step EXCEPT ![w] = "sweep"]
             /\ NoPass(w)
             /\ UNCHANGED <<target, adapters, failed, counted, skipped, standing>>
    <3>1. UNCHANGED <<sessionVars, tradeVars, status>> /\ step[w] = "cancel"
        BY <1>17 DEF EndPass
    <3> QED BY <2>2, <3>1 DEF NoPass
  <2>3. CASE Finish(w) /\ NoPass(w)
    <3>1. UNCHANGED <<sessionVars, tradeVars, status>>
        BY <1>17 DEF EndPass
    <3> QED BY <2>3, <3>1 DEF NoPass, Finish
  <2> QED BY <1>17, <2>1, <2>2, <2>3 DEF EndPass
<1>18. ASSUME NEW w \in Workers, NEW d \in Deployments, BeginPosture(w, d)
      PROVE  CountInv'
    BY <1>18 DEF BeginPosture, BeginPass, OpenOrders
<1>19. ASSUME NEW w \in Workers, NEW t \in Targets, Deactivate(w, t)
      PROVE  CountInv'
    BY <1>19 DEF Deactivate
<1>20. ASSUME NEW w \in Workers, DbError(w)
      PROVE  CountInv'
    BY <1>20 DEF DbError
<1>21. ASSUME NEW w \in Workers, Crash(w)
      PROVE  CountInv'
    BY <1>21 DEF Crash, Finish, NoPass
<1>22. ASSUME NEW o \in Orders, BrokerCloses(o)
      PROVE  CountInv'
    BY <1>22 DEF BrokerCloses
<1>23. CASE UNCHANGED vars
    BY <1>23 DEF vars
<1> QED
    BY <1>1, <1>2, <1>3, <1>4, <1>5, <1>6, <1>7, <1>8, <1>9, <1>10, <1>11, <1>12,
       <1>13, <1>14, <1>15, <1>16, <1>17, <1>18, <1>19, <1>20, <1>21, <1>22, <1>23
               DEF Next, Proceed, Trading

\* Whatever fails, fills or is retried, an order reported cancelled is
\* terminal at the broker (_cancel_open_orders verifies before it counts).
THEOREM Counted == Spec => []CountedIsClosed
<1>1. Spec => []CountInv
    BY ShapeCorrect, CountInit, CountNext, PTL DEF Spec
<1> QED BY <1>1, PTL DEF CountInv

-----------------------------------------------------------------------------

\* A halt that worker w wrote for its order was written after the check.
Later(w, row) ==
    row[1] \in Consulted(subject[w]) /\ row[2] = w => row[3] > checked[w]

\* Between check and commit it is the active rows that count; after the commit
\* also those w has deactivated since, which a rollback would bring back.
HaltInv ==
    \A w \in Workers :
        /\ checked[w] <= events[w]
        /\ \A row \in added[w] : row[2] = w
        /\ trade[w] = "checked" /\ w \notin broken => \A row \in Active(w) : Later(w, row)
        /\ trade[w] = "saved" => \A row \in halts \cup added[w] : Later(w, row)

LEMMA HaltInit == Init => HaltInv
BY DEF Init, HaltInv

LEMMA HaltNext == ShapeInv /\ HaltInv /\ [Next]_vars => HaltInv'
<1> SUFFICES ASSUME ShapeInv, HaltInv, [Next]_vars
             PROVE  HaltInv'
    OBVIOUS
<1> USE BoundsAssumption, OrdersAssumption, NoneAssumption
        DEF ShapeInv, TypeOK, StepInv, HaltInv, Active, Later, sessionVars, passVars,
            switchVars, tradeVars
<1>1. ASSUME NEW w \in Workers, NEW o \in Orders, CheckKillSwitch(w, o)
      PROVE  HaltInv'
    BY <1>1 DEF CheckKillSwitch, Halted
<1>2. ASSUME NEW w \in Workers, CommitOrder(w)
      PROVE  HaltInv'
    BY <1>2 DEF CommitOrder, Commit
<1>3. ASSUME NEW w \in Workers, SubmitOrder(w)
      PROVE  HaltInv'
    BY <1>3 DEF SubmitOrder
<1>4. ASSUME NEW w \in Workers, RefuseOrder(w)
      PROVE  HaltInv'
    BY <1>4 DEF RefuseOrder
<1>5. ASSUME NEW w \in Workers, CommitOther(w)
      PROVE  HaltInv'
    BY <1>5 DEF CommitOther, Commit
<1>6. ASSUME NEW w \in Workers, NEW t \in Targets, BeginActivation(w, t)
      PROVE  HaltInv'
    BY <1>6 DEF BeginActivation
<1>7. ASSUME NEW w \in Workers, NEW d \in Deployments, SweepAdapter(w, d)
      PROVE  HaltInv'
    BY <1>7 DEF SweepAdapter, BeginPass
<1>8. ASSUME NEW w \in Workers, SweepFails(w)
      PROVE  HaltInv'
    BY <1>8 DEF SweepFails, Finish
<1>9. ASSUME NEW w \in Workers, EndSweep(w)
      PROVE  HaltInv'
    BY <1>9 DEF EndSweep
<1>10. ASSUME NEW w \in Workers, SaveEvent(w)
      PROVE  HaltInv'
    BY <1>10 DEF SaveEvent, Finish, Rows
<1>11. ASSUME NEW w \in Workers, SaveFails(w)
      PROVE  HaltInv'
    BY <1>11 DEF SaveFails, Finish
<1>12. ASSUME NEW w \in Workers, NEW o \in Orders, TakeOrder(w, o) \/ SkipOrder(w, o)
      PROVE  HaltInv'
  <2>1. CASE TakeOrder(w, o)
      BY <2>1 DEF TakeOrder
  <2>2. CASE SkipOrder(w, o)
      BY <2>2 DEF SkipOrder
  <2> QED BY <1>12, <2>1, <2>2
<1>13. ASSUME NEW w \in Workers, CancelAccepted(w)
      PROVE  HaltInv'
    BY <1>13 DEF CancelAccepted, BrokerCancels
<1>14. ASSUME NEW w \in Workers, CancelTransient(w)
      PROVE  HaltInv'
    BY <1>14 DEF CancelTransient, BrokerCancels, OrderFailed
<1>15. ASSUME NEW w \in Workers, CancelFails(w)
      PROVE  HaltInv'
    BY <1>15 DEF CancelFails, BrokerCancels, OrderFailed
<1>16. ASSUME NEW w \in Workers, VerifyOrder(w)
      PROVE  HaltInv'
    BY <1>16 DEF VerifyOrder, OrderFailed
<1>17. ASSUME NEW w \in Workers, EndPass(w)
      PROVE  HaltInv'
    BY <1>17 DEF EndPass, BeginPass, NoPass, Finish
<1>18. ASSUME NEW w \in Workers, NEW d \in Deployments, BeginPosture(w, d)
      PROVE  HaltInv'
    BY <1>18 DEF BeginPosture, BeginPass
<1>19. ASSUME NEW w \in Workers, NEW t \in Targets, Deactivate(w, t)
      PROVE  HaltInv'
    BY <1>19 DEF Deactivate
<1>20. ASSUME NEW w \in Workers, DbError(w)
      PROVE  HaltInv'
    BY <1>20 DEF DbError
<1>21. ASSUME NEW w \in Workers, Crash(w)
      PROVE  HaltInv'
    BY <1>21 DEF Crash, Finish, NoPass
<1>22. ASSUME NEW o \in Orders, BrokerCloses(o)
      PROVE  HaltInv'
    BY <1>22 DEF BrokerCloses
<1>23. CASE UNCHANGED vars
    BY <1>23 DEF vars
<1> QED
    BY <1>1, <1>2, <1>3, <1>4, <1>5, <1>6, <1>7, <1>8, <1>9, <1>10, <1>11, <1>12,
       <1>13, <1>14, <1>15, <1>16, <1>17, <1>18, <1>19, <1>20, <1>21, <1>22, <1>23
               DEF Next, Proceed, Trading

\* For every number of workers, orders and scopes: an order leaves a worker
\* under that worker's own halt only if its check came before the halt.
THEOREM OwnHalt == Spec => []OwnHaltRespected
<1>1. Spec => []HaltInv
    BY ShapeCorrect, HaltInit, HaltNext, PTL DEF Spec
<1>2. HaltInv => OwnHaltRespected
    BY DEF HaltInv, Later, Active, OwnHaltRespected
<1> QED BY <1>1, <1>2, PTL

-----------------------------------------------------------------------------

\* Outside of a pass nothing is listed or at hand; when the event is about to
\* be saved no adapter is left.
PassInv ==
    \A w \in Workers :
        /\ step[w] \in {"idle", "sweep", "save"} => order[w] = None /\ todo[w] = {}
        /\ step[w] = "save" => adapters[w] = {}

\* Where the sweep of w has still to come to, or is: only the first pass over
\* an adapter accounts for its orders, since that of the posture which may
\* follow adds nothing to the failed list.
Ahead(w, o) ==
    \/ DeploymentOf[o] \in adapters[w]
    \/ ~posture[w] /\ (o \in todo[w] \/ o = order[w])

\* An order that stood open when the activation began is ahead of its sweep,
\* closed, on the failed list or was listed without an id.
AccountInv ==
    \A w \in Workers : target[w] # None =>
        \A o \in standing[w] :
            /\ status[o] # "new"
            /\ status[o] = "closed" \/ o \in failed[w] \/ o \in skipped[w] \/ Ahead(w, o)

SweepInv == PassInv /\ AccountInv

LEMMA SweepInit == Init => SweepInv
BY DEF Init, SweepInv, PassInv, AccountInv

LEMMA SweepNext == ShapeInv /\ CountInv /\ SweepInv /\ [Next]_vars => SweepInv'
<1> SUFFICES ASSUME ShapeInv, CountInv, SweepInv, [Next]_vars
             PROVE  SweepInv'
    OBVIOUS
<1> USE BoundsAssumption, OrdersAssumption, NoneAssumption
        DEF ShapeInv, TypeOK, StepInv, CountInv, SubjectInv, SweepInv, PassInv, AccountInv,
            Ahead, sessionVars, passVars, switchVars, tradeVars
<1>1. ASSUME NEW w \in Workers, NEW o \in Orders, CheckKillSwitch(w, o)
      PROVE  SweepInv'
    BY <1>1 DEF CheckKillSwitch
<1>2. ASSUME NEW w \in Workers, CommitOrder(w)
      PROVE  SweepInv'
    BY <1>2 DEF CommitOrder, Commit
<1>3. ASSUME NEW w \in Workers, SubmitOrder(w)
      PROVE  SweepInv'
    BY <1>3 DEF SubmitOrder
<1>4. ASSUME NEW w \in Workers, RefuseOrder(w)
      PROVE  SweepInv'
    BY <1>4 DEF RefuseOrder
<1>5. ASSUME NEW w \in Workers, CommitOther(w)
      PROVE  SweepInv'
    BY <1>5 DEF CommitOther, Commit
<1>6. ASSUME NEW w \in Workers, NEW t \in Targets, BeginActivation(w, t)
      PROVE  SweepInv'
    BY <1>6 DEF BeginActivation, Affected, OpenOrders
<1>7. ASSUME NEW w \in Workers, NEW d \in Deployments, SweepAdapter(w, d)
      PROVE  SweepInv'
    BY <1>7 DEF SweepAdapter, BeginPass, OpenOrders
<1>8. ASSUME NEW w \in Workers, SweepFails(w)
      PROVE  SweepInv'
    BY <1>8 DEF SweepFails, Finish
<1>9. ASSUME NEW w \in Workers, EndSweep(w)
      PROVE  SweepInv'
    BY <1>9 DEF EndSweep
<1>10. ASSUME NEW w \in Workers, SaveEvent(w)
      PROVE  SweepInv'
    BY <1>10 DEF SaveEvent, Finish
<1>11. ASSUME NEW w \in Workers, SaveFails(w)
      PROVE  SweepInv'
    BY <1>11 DEF SaveFails, Finish
<1>12. ASSUME NEW w \in Workers, NEW o \in Orders, TakeOrder(w, o) \/ SkipOrder(w, o)
      PROVE  SweepInv'
  <2>1. CASE TakeOrder(w, o)
      BY <2>1 DEF TakeOrder
  <2>2. CASE SkipOrder(w, o)
      BY <2>2 DEF SkipOrder
  <2> QED BY <1>12, <2>1, <2>2
<1>13. ASSUME NEW w \in Workers, CancelAccepted(w)
      PROVE  SweepInv'
    BY <1>13 DEF CancelAccepted, BrokerCancels
<1>14. ASSUME NEW w \in Workers, CancelTransient(w)
      PROVE  SweepInv'
    BY <1>14, SMTT(30) DEF CancelTransient, BrokerCancels, OrderFailed
<1>15. ASSUME NEW w \in Workers, CancelFails(w)
      PROVE  SweepInv'
    BY <1>15 DEF CancelFails, BrokerCancels, OrderFailed
<1>16. ASSUME NEW w \in Workers, VerifyOrder(w)
      PROVE  SweepInv'
    BY <1>16, SMTT(30) DEF VerifyOrder, OrderFailed
<1>17. ASSUME NEW w \in Workers, EndPass(w)
      PROVE  SweepInv'
  <2>0. /\ UNCHANGED <<sessionVars, tradeVars, status>>
        /\ step[w] = "cancel" /\ order[w] = None /\ todo[w] = {}
      BY <1>17 DEF EndPass
  <2>a. \A o \in standing[w] : o # order[w] /\ o \notin todo[w]
      BY <2>0
  <2>1. CASE /\ BeginPass(w, adapter[w], TRUE)
             /\ UNCHANGED <<target, adapters, failed, counted, skipped, standing>>
      BY <2>0, <2>a, <2>1 DEF BeginPass
  <2>2. CASE /\ step' = [step EXCEPT ![w] = "sweep"]
             /\ NoPass(w)
             /\ UNCHANGED <<target, adapters, failed, counted, skipped, standing>>
      BY <2>0, <2>a, <2>2 DEF NoPass
  <2>3. CASE Finish(w) /\ NoPass(w)
      BY <2>0, <2>3 DEF NoPass, Finish
  <2> QED BY <1>17, <2>1, <2>2, <2>3 DEF EndPass
<1>18. ASSUME NEW w \in Workers, NEW d \in Deployments, BeginPosture(w, d)
      PROVE  SweepInv'
    BY <1>18 DEF BeginPosture, BeginPass
<1>19. ASSUME NEW w \in Workers, NEW t \in Targets, Deactivate(w, t)
      PROVE  SweepInv'
    BY <1>19 DEF Deactivate
<1>20. ASSUME NEW w \in Workers, DbError(w)
      PROVE  SweepInv'
    BY <1>20 DEF DbError
<1>21. ASSUME NEW w \in Workers, Crash(w)
      PROVE  SweepInv'
    BY <1>21 DEF Crash, Finish, NoPass
<1>22. ASSUME NEW o \in Orders, BrokerCloses(o)
      PROVE  SweepInv'
    BY <1>22 DEF BrokerCloses
<1>23. CASE UNCHANGED vars
    BY <1>23 DEF vars
<1> QED
    BY <1>1, <1>2, <1>3, <1>4, <1>5, <1>6, <1>7, <1>8, <1>9, <1>10, <1>11, <1>12,
       <1>13, <1>14, <1>15, <1>16, <1>17, <1>18, <1>19, <1>20, <1>21, <1>22, <1>23
               DEF Next, Proceed, Trading

\* For any workers, adapters, orders and retries: when an activation is about
\* to record its halt, each order that stood open at an affected broker when it
\* began is terminal there or on its failed list, unless the broker lists it
\* without a broker_order_id (activate_kill_switch, _cancel_open_orders).
THEOREM StandingAccounted == Spec => []StandingOrdersSwept
<1>1. Spec => []CountInv
    BY ShapeCorrect, CountInit, CountNext, PTL DEF Spec
<1>2. Spec => []SweepInv
    BY ShapeCorrect, <1>1, SweepInit, SweepNext, PTL DEF Spec
<1>3. ShapeInv /\ SweepInv => StandingOrdersSwept
  <2> SUFFICES ASSUME ShapeInv, SweepInv, NEW w \in Workers, step[w] = "save",
                      NEW o \in standing[w] \ skipped[w]
               PROVE  status[o] = "closed" \/ o \in failed[w]
      BY DEF StandingOrdersSwept
  <2>1. target[w] # None /\ o # order[w] /\ o \notin todo[w] /\ adapters[w] = {}
      BY NoneAssumption DEF ShapeInv, TypeOK, StepInv, SweepInv, PassInv
  <2> QED BY <2>1 DEF SweepInv, AccountInv, Ahead
<1> QED BY <1>2, <1>3, ShapeCorrect, PTL
=============================================================================
