------------------------ MODULE CircuitBreaker_proofs ------------------------
(***************************************************************************)
(* The breaker with its Redis copy implements the abstract breaker, for    *)
(* any number of processes, threshold, timeout and number of probes.       *)
(***************************************************************************)
EXTENDS CircuitBreaker, TLAPS

\* While a breaker that has just become half-open is being persisted, none of
\* its probes is spent: the probe that follows the writes is its first.
FreshProbes ==
    \A p \in Processes : step[p] \in Persisting /\ state[p] = "half_open" => probes[p] = 0

BreakerInv == TypeOK /\ FreshProbes

LEMMA InitInv == Init => BreakerInv
BY ConfigAssumption
   DEF Init, BreakerInv, TypeOK, FreshProbes, States, Keys, Persisting, Loading

\* Every step of one process preserves the invariant.
LEMMA ProcessInv ==
    ASSUME BreakerInv, NEW p \in Processes,
           Execute(p) \/ Proceed(p) \/ Reset(p) \/ Restart(p)
    PROVE  BreakerInv'
<1> USE ConfigAssumption, NoneAssumption
    DEF BreakerInv, TypeOK, FreshProbes, States, Keys, Persisting, Loading, Ages, GoTo,
        localVars
<1>1. CASE ExecuteClosed(p)
  BY <1>1 DEF ExecuteClosed
<1>2. CASE ExecuteOpen(p)
  BY <1>2 DEF ExecuteOpen
<1>3. CASE ExecuteHalfOpen(p)
  BY <1>3 DEF ExecuteHalfOpen
<1>4. CASE Succeeds(p)
  BY <1>4 DEF Succeeds
<1>5. CASE FailsTransiently(p)
  BY <1>5 DEF FailsTransiently
<1>6. CASE FailsPermanently(p)
  BY <1>6 DEF FailsPermanently
<1>7. CASE FailsOtherwise(p)
  BY <1>7 DEF FailsOtherwise
<1>8. CASE WriteState(p)
  BY <1>8 DEF WriteState
<1>9. CASE WriteFailures(p)
  BY <1>9 DEF WriteFailures
<1>10. CASE WriteOpened(p)
  BY <1>10 DEF WriteOpened, EndPersist
<1>11. CASE PersistFails(p)
  BY <1>11 DEF PersistFails, EndPersist
<1>12. CASE LoadState(p)
  BY <1>12 DEF LoadState, Loaded
<1>13. CASE LoadFailures(p)
  BY <1>13 DEF LoadFailures, Loaded
<1>14. CASE LoadOpened(p)
  BY <1>14 DEF LoadOpened, Loaded
<1>15. CASE LoadFails(p)
  BY <1>15 DEF LoadFails
<1>16. CASE Reset(p)
  BY <1>16 DEF Reset
<1>17. CASE Restart(p)
  BY <1>17 DEF Restart
<1> QED
  BY <1>1, <1>2, <1>3, <1>4, <1>5, <1>6, <1>7, <1>8, <1>9, <1>10, <1>11, <1>12, <1>13,
     <1>14, <1>15, <1>16, <1>17 DEF Execute, Proceed

LEMMA OlderType == ASSUME NEW age \in Ages \cup {None} PROVE Older(age) \in Ages \cup {None}
BY ConfigAssumption, NoneAssumption DEF Older, Ages

LEMMA StepInv == BreakerInv /\ [Next]_vars => BreakerInv'
<1> SUFFICES ASSUME BreakerInv, [Next]_vars PROVE BreakerInv'
  OBVIOUS
<1> USE DEF BreakerInv, TypeOK, FreshProbes, Keys
<1>1. CASE Tick
  BY <1>1, OlderType DEF Tick
<1>2. CASE KeyExpires
  BY <1>2 DEF KeyExpires, localVars
<1>3. CASE UNCHANGED vars
  BY <1>3 DEF vars, localVars
<1>4. ASSUME NEW p \in Processes, Execute(p) \/ Proceed(p) \/ Reset(p) \/ Restart(p)
      PROVE BreakerInv'
  BY <1>4, ProcessInv
<1> QED
  BY <1>1, <1>2, <1>3, <1>4 DEF Next

\* The states of the breakers and of the Redis keys are what the code expects:
\* in particular no half-open episode admits more probes than configured.
THEOREM TypeCorrect == Spec => []TypeOK
<1>1. Spec => []BreakerInv
  BY InitInv, StepInv, PTL DEF Spec
<1>2. BreakerInv => TypeOK
  BY DEF BreakerInv
<1> QED
  BY <1>1, <1>2, PTL

-----------------------------------------------------------------------------
(* Refinement *)

LEMMA InitRefines == Init => Abstract!Init
BY NoneAssumption, ConfigAssumption, ZenonT(30) DEF Init, Abstract!Init, At, Loading

\* A step of a process that is starting, whatever it reads, is a Recover.
LEMMA StartRefines ==
    ASSUME BreakerInv, NEW p \in Processes,
           NEW s \in States, NEW n \in 0..Threshold, NEW age \in Ages \cup {None},
           NEW t \in Loading \cup {"idle"},
           step[p] \in Loading,
           state' = [state EXCEPT ![p] = s],
           failures' = [failures EXCEPT ![p] = n],
           opened' = [opened EXCEPT ![p] = age],
           step' = [step EXCEPT ![p] = t],
           probes' = probes
    PROVE  Abstract!Next
<1> USE DEF BreakerInv, TypeOK, Loading
<1>1. [q \in Processes |-> opened[q] = Timeout]'
      = [[q \in Processes |-> opened[q] = Timeout] EXCEPT ![p] = (age = Timeout)]
  OBVIOUS
<1>2. (age = Timeout) \in BOOLEAN
  OBVIOUS
<1>3. \E r \in {"starting", "ready"} :
        [q \in Processes |-> At(q)]' = [[q \in Processes |-> At(q)] EXCEPT ![p] = r]
  <2>1. CASE t = "idle"
    BY <2>1 DEF At
  <2>2. CASE t \in Loading
    BY <2>2 DEF At
  <2> QED BY <2>1, <2>2
<1>4. At(p) = "starting"
  BY DEF At
<1>5. Abstract!Recover(p)
  <2>1. \E b \in BOOLEAN : [q \in Processes |-> opened[q] = Timeout]'
           = [[q \in Processes |-> opened[q] = Timeout] EXCEPT ![p] = b]
    BY <1>1, <1>2
  <2>2. \E m \in Abstract!Modes : state' = [state EXCEPT ![p] = m]
    BY DEF States, Abstract!Modes
  <2> QED BY <2>1, <2>2, <1>3, <1>4 DEF Abstract!Recover
<1> QED
  BY <1>5 DEF Abstract!Next

\* Every step of one process is a step of its abstract breaker, or none: the
\* writes to Redis are invisible, and each read of a starting process is one
\* choice of Recover.
LEMMA ProcessRefines ==
    ASSUME BreakerInv, NEW p \in Processes,
           Execute(p) \/ Proceed(p) \/ Reset(p) \/ Restart(p)
    PROVE  [Abstract!Next]_(Abstract!vars)
<1> USE ConfigAssumption, NoneAssumption
    DEF BreakerInv, TypeOK, FreshProbes, States, Persisting, Loading, Ages, GoTo,
        localVars, At
<1>1. CASE ExecuteClosed(p)
  <2>1. Abstract!Admit(p)
    BY <1>1 DEF ExecuteClosed, Abstract!Admit
  <2> QED BY <2>1 DEF Abstract!Next
<1>2. CASE ExecuteOpen(p)
  <2>1. Abstract!HalfOpen(p)
    BY <1>2 DEF ExecuteOpen, Abstract!HalfOpen
  <2> QED BY <2>1 DEF Abstract!Next
<1>3. CASE ExecuteHalfOpen(p)
  <2>1. Abstract!Probe(p)
    BY <1>3 DEF ExecuteHalfOpen, Abstract!Probe
  <2> QED BY <2>1 DEF Abstract!Next
<1>4. CASE Succeeds(p)
  <2>1. Abstract!Success(p)
    <3>1. CASE state[p] = "closed"
      BY <1>4, <3>1, ZenonT(30) DEF Succeeds, Abstract!Success
    <3>2. CASE state[p] = "half_open"
      <4>1. /\ opened' = [opened EXCEPT ![p] = None]
            /\ step' = [step EXCEPT ![p] = "write_state"]
            /\ step[p] = "calling"
        BY <1>4, <3>2 DEF Succeeds
      <4>2. /\ state' = [state EXCEPT ![p] = "closed"]
            /\ failures' = [failures EXCEPT ![p] = 0]
            /\ probes' = [probes EXCEPT ![p] = 0]
        BY <1>4, <3>2 DEF Succeeds
      <4>3. [q \in Processes |-> opened[q] = Timeout]'
            = [[q \in Processes |-> opened[q] = Timeout] EXCEPT ![p] = FALSE]
        BY <4>1
      <4>4. [q \in Processes |-> At(q)]'
            = [[q \in Processes |-> At(q)] EXCEPT ![p] = "ready"]
        BY <4>1
      <4>5. At(p) = "calling"
        BY <4>1
      <4> HIDE DEF BreakerInv, At
      <4> QED
        BY <3>2, <4>2, <4>3, <4>4, <4>5, Zenon DEF Abstract!Success
    <3> QED BY <1>4, <3>1, <3>2 DEF Succeeds
  <2> QED BY <2>1 DEF Abstract!Next
<1>5. CASE FailsTransiently(p)
  <2>1. Abstract!Failure(p) \/ Abstract!Open(p)
    BY <1>5, ZenonT(30) DEF FailsTransiently, Abstract!Failure, Abstract!Open
  <2> QED BY <2>1 DEF Abstract!Next
<1>6. CASE FailsPermanently(p)
  <2>1. Abstract!Neutral(p)
    BY <1>6, ZenonT(30) DEF FailsPermanently, Abstract!Neutral
  <2> QED BY <2>1 DEF Abstract!Next
<1>7. CASE FailsOtherwise(p)
  <2>1. Abstract!Neutral(p)
    BY <1>7 DEF FailsOtherwise, Abstract!Neutral
  <2> QED BY <2>1 DEF Abstract!Next
<1>8. CASE WriteState(p)
  <2>1. UNCHANGED Abstract!vars
    BY <1>8 DEF WriteState, Abstract!vars
  <2> QED BY <2>1
<1>9. CASE WriteFailures(p)
  <2>1. UNCHANGED Abstract!vars
    BY <1>9 DEF WriteFailures, Abstract!vars
  <2> QED BY <2>1
<1>10. CASE WriteOpened(p) \/ PersistFails(p)
  <2>1. CASE state[p] = "half_open"
    <3>1. /\ probes[p] = 0 /\ step[p] \in Persisting
          /\ probes' = [probes EXCEPT ![p] = @ + 1]
          /\ step' = [step EXCEPT ![p] = "calling"]
          /\ UNCHANGED <<state, failures, opened>>
      BY <1>10, <2>1 DEF WriteOpened, PersistFails, EndPersist
    <3>2. At(p) = "ready" /\ probes[p] < MaxProbes
      BY <3>1
    <3>3. [q \in Processes |-> At(q)]'
          = [[q \in Processes |-> At(q)] EXCEPT ![p] = "calling"]
      BY <3>1
    <3>4. UNCHANGED [q \in Processes |-> opened[q] = Timeout]
      BY <3>1
    <3>5. Abstract!Probe(p)
      <4> HIDE DEF BreakerInv, At
      <4> QED BY <2>1, <3>1, <3>2, <3>3, <3>4, Zenon DEF Abstract!Probe
    <3> QED BY <3>5 DEF Abstract!Next
  <2>2. CASE state[p] # "half_open"
    <3>1. UNCHANGED Abstract!vars
      BY <1>10, <2>2 DEF WriteOpened, PersistFails, EndPersist, Abstract!vars
    <3> QED BY <3>1
  <2> QED BY <2>1, <2>2
<1>11. CASE LoadState(p)
  <2> DEFINE s == Loaded(redis.state, state[p])
             n == failures[p]
             age == opened[p]
  <2>1. s \in States /\ n \in 0..Threshold /\ age \in Ages \cup {None}
    BY DEF Loaded, Keys
  <2>2. /\ step[p] \in Loading
        /\ state' = [state EXCEPT ![p] = s]
        /\ failures' = [failures EXCEPT ![p] = n]
        /\ opened' = [opened EXCEPT ![p] = age]
        /\ step' = [step EXCEPT ![p] = "load_failures"]
        /\ probes' = probes
    BY <1>11 DEF LoadState
  <2> HIDE DEF s, n, age
  <2> QED BY <2>1, <2>2, StartRefines
<1>12. CASE LoadFailures(p)
  <2> DEFINE s == state[p]
             n == Loaded(redis.failures, failures[p])
             age == opened[p]
  <2>1. s \in States /\ n \in 0..Threshold /\ age \in Ages \cup {None}
    BY DEF Loaded, Keys
  <2>2. /\ step[p] \in Loading
        /\ state' = [state EXCEPT ![p] = s]
        /\ failures' = [failures EXCEPT ![p] = n]
        /\ opened' = [opened EXCEPT ![p] = age]
        /\ step' = [step EXCEPT ![p] = "load_opened"]
        /\ probes' = probes
    BY <1>12 DEF LoadFailures
  <2> HIDE DEF s, n, age
  <2> QED BY <2>1, <2>2, StartRefines
<1>13. CASE LoadOpened(p)
  <2> DEFINE s == state[p]
             n == failures[p]
             age == Loaded(redis.opened, opened[p])
  <2>1. s \in States /\ n \in 0..Threshold /\ age \in Ages \cup {None}
    BY DEF Loaded, Keys
  <2>2. /\ step[p] \in Loading
        /\ state' = [state EXCEPT ![p] = s]
        /\ failures' = [failures EXCEPT ![p] = n]
        /\ opened' = [opened EXCEPT ![p] = age]
        /\ step' = [step EXCEPT ![p] = "idle"]
        /\ probes' = probes
    BY <1>13 DEF LoadOpened
  <2> HIDE DEF s, n, age
  <2> QED BY <2>1, <2>2, StartRefines
<1>14. CASE LoadFails(p)
  <2> DEFINE s == state[p]
             n == failures[p]
             age == opened[p]
  <2>1. s \in States /\ n \in 0..Threshold /\ age \in Ages \cup {None}
    BY DEF Loaded, Keys
  <2>2. /\ step[p] \in Loading
        /\ state' = [state EXCEPT ![p] = s]
        /\ failures' = [failures EXCEPT ![p] = n]
        /\ opened' = [opened EXCEPT ![p] = age]
        /\ step' = [step EXCEPT ![p] = "idle"]
        /\ probes' = probes
    BY <1>14 DEF LoadFails
  <2> HIDE DEF s, n, age
  <2> QED BY <2>1, <2>2, StartRefines
<1>15. CASE Reset(p)
  <2>1. Abstract!Reset(p)
    BY <1>15 DEF Reset, Abstract!Reset
  <2> QED BY <2>1 DEF Abstract!Next
<1>16. CASE Restart(p)
  <2>1. Abstract!Restart(p)
    BY <1>16 DEF Restart, Abstract!Restart
  <2> QED BY <2>1 DEF Abstract!Next
<1> QED
  BY <1>1, <1>2, <1>3, <1>4, <1>5, <1>6, <1>7, <1>8, <1>9, <1>10, <1>11, <1>12, <1>13,
     <1>14, <1>15, <1>16 DEF Execute, Proceed

\* Time only ever cools breakers; a breaker that has cooled stays cool.
LEMMA TickRefines == BreakerInv /\ Tick => Abstract!Cool
<1> SUFFICES ASSUME BreakerInv, Tick PROVE Abstract!Cool
  OBVIOUS
<1> DEFINE now == [p \in Processes |-> opened'[p] = Timeout]
<1>1. now \in [Processes -> BOOLEAN]
  OBVIOUS
<1>2. \A p \in Processes : opened[p] = Timeout => opened'[p] = Timeout
  BY ConfigAssumption DEF BreakerInv, TypeOK, Tick, Older, Ages
<1>3. [p \in Processes |-> opened[p] = Timeout]'
      = [p \in Processes |-> [q \in Processes |-> opened[q] = Timeout][p] \/ now[p]]
  BY <1>2
<1>4. UNCHANGED <<state, failures, probes, [p \in Processes |-> At(p)]>>
  BY DEF Tick, At
<1> QED
  BY <1>1, <1>3, <1>4 DEF Abstract!Cool

LEMMA StepRefines == BreakerInv /\ [Next]_vars => [Abstract!Next]_(Abstract!vars)
<1> SUFFICES ASSUME BreakerInv, [Next]_vars PROVE [Abstract!Next]_(Abstract!vars)
  OBVIOUS
<1>1. CASE Tick
  BY <1>1, TickRefines DEF Abstract!Next
<1>2. CASE KeyExpires
  BY <1>2 DEF KeyExpires, localVars, Abstract!vars, At
<1>3. CASE UNCHANGED vars
  BY <1>3 DEF vars, localVars, Abstract!vars, At
<1>4. ASSUME NEW p \in Processes, Execute(p) \/ Proceed(p) \/ Reset(p) \/ Restart(p)
      PROVE [Abstract!Next]_(Abstract!vars)
  BY <1>4, ProcessRefines
<1> QED
  BY <1>1, <1>2, <1>3, <1>4 DEF Next

\* The breaker with its six Redis keys, its crashes and its half-read restarts
\* implements the abstract breaker of every process.
THEOREM BreakerImplemented == Spec => ImplementsBreaker
<1>1. Spec => []BreakerInv
  BY InitInv, StepInv, PTL DEF Spec
<1> QED
  BY <1>1, InitRefines, StepRefines, PTL DEF Spec, ImplementsBreaker, Abstract!Spec
=============================================================================
