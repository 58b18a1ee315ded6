--------------------------- MODULE CircuitBreaker ---------------------------
(***************************************************************************)
(* CircuitBreaker: the breaker every call of a ResilientBrokerAdapter goes *)
(* through, one per process, with its copy in Redis.                       *)
(*                                                                         *)
(* The lock is held from the decision to the last write to Redis, so the   *)
(* calls of one process follow each other.  The copy is six keys written   *)
(* by one SET each and read, once, by one GET each when a process starts:  *)
(* other processes write, Redis fails and processes die between any two.   *)
(* Metrics (trip_count, recovery_count, last_failure_at) are left out.     *)
(***************************************************************************)
EXTENDS Naturals

CONSTANTS
    Processes,
    Threshold, \* failure_threshold
    Timeout,   \* recovery_timeout_s, in ticks
    MaxProbes, \* half_open_max_calls
    None

ASSUME ConfigAssumption ==
    /\ Threshold \in Nat \ {0}
    /\ Timeout \in Nat \ {0}
    /\ MaxProbes \in Nat \ {0}

VARIABLES
    state,    \* _state
    failures, \* _failure_count, counted up to the threshold: it is only compared
    opened,   \* the age of _opened_at, up to the timeout; None when it is unset
    probes,   \* _half_open_calls
    step,     \* where the process stands
    redis     \* the keys state, failure_count and opened_at

localVars == <<state, failures, opened, probes>>
vars == <<localVars, step, redis>>

States == {"closed", "open", "half_open"}
Ages == 0..Timeout

ASSUME NoneAssumption == None \notin States /\ None \notin Nat

Keys == [state : States \cup {None}, failures : 0..Threshold \cup {None},
         opened : Ages \cup {None}]

Loading == {"load_state", "load_failures", "load_opened"}
Persisting == {"write_state", "write_failures", "write_opened"}

TypeOK ==
    /\ state \in [Processes -> States]
    /\ failures \in [Processes -> 0..Threshold]
    /\ opened \in [Processes -> Ages \cup {None}]
    /\ probes \in [Processes -> 0..MaxProbes]
    /\ step \in [Processes -> {"idle", "calling"} \cup Loading \cup Persisting]
    /\ redis \in Keys

Init ==
    /\ state = [p \in Processes |-> "closed"]
    /\ failures = [p \in Processes |-> 0]
    /\ opened = [p \in Processes |-> None]
    /\ probes = [p \in Processes |-> 0]
    /\ step = [p \in Processes |-> "load_state"]
    /\ redis = [state |-> None, failures |-> None, opened |-> None]

GoTo(p, s) == step' = [step EXCEPT ![p] = s]

-----------------------------------------------------------------------------
(* execute: the decision.  An open breaker younger than its timeout and a  *)
(* half-open one without probes left refuse with CircuitOpenError, an open *)
(* one without a time fails its assertion; none of them changes anything.  *)

ExecuteClosed(p) ==
    /\ step[p] = "idle" /\ state[p] = "closed"
    /\ GoTo(p, "calling")
    /\ UNCHANGED <<localVars, redis>>

\* Mutant: the recovery timeout is not awaited.
ExecuteOpenAtOnce(p) ==
    /\ step[p] = "idle" /\ state[p] = "open"
    /\ opened[p] # None
    /\ state' = [state EXCEPT ![p] = "half_open"]
    /\ probes' = [probes EXCEPT ![p] = 0]
    /\ GoTo(p, "write_state")
    /\ UNCHANGED <<failures, opened, redis>>

\* The timeout has passed: half-open, persisted before the probe.
ExecuteOpen(p) ==
    /\ step[p] = "idle" /\ state[p] = "open"
    /\ opened[p] = Timeout
    /\ state' = [state EXCEPT ![p] = "half_open"]
    /\ probes' = [probes EXCEPT ![p] = 0]
    /\ GoTo(p, "write_state")
    /\ UNCHANGED <<failures, opened, redis>>

\* Mutant: the number of probes is not limited.
ExecuteHalfOpenUnlimited(p) ==
    /\ step[p] = "idle" /\ state[p] = "half_open"
    /\ probes' = [probes EXCEPT ![p] = @ + 1]
    /\ GoTo(p, "calling")
    /\ UNCHANGED <<state, failures, opened, redis>>

ExecuteHalfOpen(p) ==
    /\ step[p] = "idle" /\ state[p] = "half_open"
    /\ probes[p] < MaxProbes
    /\ probes' = [probes EXCEPT ![p] = @ + 1]
    /\ GoTo(p, "calling")
    /\ UNCHANGED <<state, failures, opened, redis>>

-----------------------------------------------------------------------------
(* execute: the outcome of the call *)

Succeeds(p) ==
    /\ step[p] = "calling"
    /\ failures' = [failures EXCEPT ![p] = 0]
    /\ \/ /\ state[p] = "closed"
          /\ GoTo(p, "idle")
          /\ UNCHANGED <<state, opened, probes>>
       \/ /\ state[p] = "half_open"
          /\ state' = [state EXCEPT ![p] = "closed"]
          /\ opened' = [opened EXCEPT ![p] = None]
          /\ probes' = [probes EXCEPT ![p] = 0]
          /\ GoTo(p, "write_state")
    /\ UNCHANGED redis

\* TransientError or ExternalServiceError
FailsTransiently(p) ==
    /\ step[p] = "calling"
    /\ \/ /\ state[p] = "closed" /\ failures[p] + 1 < Threshold
          /\ failures' = [failures EXCEPT ![p] = @ + 1]
          /\ GoTo(p, "idle")
          /\ UNCHANGED <<state, opened, probes>>
       \/ /\ state[p] = "closed" /\ failures[p] + 1 >= Threshold
          /\ failures' = [failures EXCEPT ![p] = Threshold]
          /\ state' = [state EXCEPT ![p] = "open"]
          /\ opened' = [opened EXCEPT ![p] = 0]
          /\ GoTo(p, "write_state")
          /\ UNCHANGED probes
       \/ /\ state[p] = "half_open"
          /\ state' = [state EXCEPT ![p] = "open"]
          /\ opened' = [opened EXCEPT ![p] = 0]
          /\ probes' = [probes EXCEPT ![p] = 0]
          /\ GoTo(p, "write_state")
          /\ UNCHANGED failures
    /\ UNCHANGED redis

\* AuthError, NotFoundError or ValidationError: a probe goes back to open and
\* keeps its old opening time, so that the next call is a probe again.
FailsPermanently(p) ==
    /\ step[p] = "calling"
    /\ \/ /\ state[p] = "closed"
          /\ GoTo(p, "idle")
          /\ UNCHANGED state
       \/ /\ state[p] = "half_open"
          /\ state' = [state EXCEPT ![p] = "open"]
          /\ GoTo(p, "write_state")
    /\ UNCHANGED <<failures, opened, probes, redis>>

\* Any other exception: no handler sees it.  A half-open breaker stays so, with
\* the probe spent.
FailsOtherwise(p) ==
    /\ step[p] = "calling"
    /\ GoTo(p, "idle")
    /\ UNCHANGED <<localVars, redis>>

-----------------------------------------------------------------------------
(* _persist_state_to_redis *)

\* _execute_open goes on to its probe; every other caller returns or raises.
EndPersist(p) ==
    \/ /\ state[p] = "half_open"
       /\ probes' = [probes EXCEPT ![p] = @ + 1]
       /\ GoTo(p, "calling")
    \/ /\ state[p] # "half_open"
       /\ GoTo(p, "idle")
       /\ UNCHANGED probes

WriteState(p) ==
    /\ step[p] = "write_state"
    /\ redis' = [redis EXCEPT !.state = state[p]]
    /\ GoTo(p, "write_failures")
    /\ UNCHANGED localVars

WriteFailures(p) ==
    /\ step[p] = "write_failures"
    /\ redis' = [redis EXCEPT !.failures = failures[p]]
    /\ GoTo(p, "write_opened")
    /\ UNCHANGED localVars

\* A time that is unset leaves the old key where it is.
WriteOpened(p) ==
    /\ step[p] = "write_opened"
    /\ redis' = [redis EXCEPT !.opened = IF opened[p] = None THEN @ ELSE opened[p]]
    /\ EndPersist(p)
    /\ UNCHANGED <<state, failures, opened>>

\* Redis raises: the rest of the writes is given up.
PersistFails(p) ==
    /\ step[p] \in Persisting
    /\ EndPersist(p)
    /\ UNCHANGED <<state, failures, opened, redis>>

-----------------------------------------------------------------------------
(* _load_state_from_redis: a key that is missing leaves the default *)

Loaded(value, default) == IF value = None THEN default ELSE value

LoadState(p) ==
    /\ step[p] = "load_state"
    /\ state' = [state EXCEPT ![p] = Loaded(redis.state, @)]
    /\ GoTo(p, "load_failures")
    /\ UNCHANGED <<failures, opened, probes, redis>>

LoadFailures(p) ==
    /\ step[p] = "load_failures"
    /\ failures' = [failures EXCEPT ![p] = Loaded(redis.failures, @)]
    /\ GoTo(p, "load_opened")
    /\ UNCHANGED <<state, opened, probes, redis>>

LoadOpened(p) ==
    /\ step[p] = "load_opened"
    /\ opened' = [opened EXCEPT ![p] = Loaded(redis.opened, @)]
    /\ GoTo(p, "idle")
    /\ UNCHANGED <<state, failures, probes, redis>>

\* Redis raises: what was read so far stays.
LoadFails(p) ==
    /\ step[p] \in Loading
    /\ GoTo(p, "idle")
    /\ UNCHANGED <<localVars, redis>>

-----------------------------------------------------------------------------

\* reset()
Reset(p) ==
    /\ step[p] = "idle"
    /\ state' = [state EXCEPT ![p] = "closed"]
    /\ failures' = [failures EXCEPT ![p] = 0]
    /\ opened' = [opened EXCEPT ![p] = None]
    /\ probes' = [probes EXCEPT ![p] = 0]
    /\ GoTo(p, "write_state")
    /\ UNCHANGED redis

\* The process dies at any point and a new one builds its breaker.
Restart(p) ==
    /\ state' = [state EXCEPT ![p] = "closed"]
    /\ failures' = [failures EXCEPT ![p] = 0]
    /\ opened' = [opened EXCEPT ![p] = None]
    /\ probes' = [probes EXCEPT ![p] = 0]
    /\ GoTo(p, "load_state")
    /\ UNCHANGED redis

\* The time to live of a day, that every SET gives to its own key, runs out.
KeyExpires ==
    /\ \/ redis' = [redis EXCEPT !.state = None]
       \/ redis' = [redis EXCEPT !.failures = None]
       \/ redis' = [redis EXCEPT !.opened = None]
    /\ UNCHANGED <<localVars, step>>

\* Mutant: the last tick of the timeout never comes (a wrong unit, a time zone).
OlderNeverDue(age) == IF age \in Nat /\ age + 1 < Timeout THEN age + 1 ELSE age

Older(age) == IF age \in 0..(Timeout - 1) THEN age + 1 ELSE age

\* Time passes for every opening time, in memory and in Redis.
Tick ==
    /\ opened' = [p \in Processes |-> Older(opened[p])]
    /\ redis' = [redis EXCEPT !.opened = Older(@)]
    /\ UNCHANGED <<state, failures, probes, step>>

\* A client calls through the breaker.
Execute(p) == ExecuteClosed(p) \/ ExecuteOpen(p) \/ ExecuteHalfOpen(p)

\* The call, the writes and the reads of a process that lives come to an end.
Proceed(p) ==
    \/ Succeeds(p) \/ FailsTransiently(p) \/ FailsPermanently(p) \/ FailsOtherwise(p)
    \/ WriteState(p) \/ WriteFailures(p) \/ WriteOpened(p) \/ PersistFails(p)
    \/ LoadState(p) \/ LoadFailures(p) \/ LoadOpened(p) \/ LoadFails(p)

Next ==
    \/ \E p \in Processes : Execute(p) \/ Proceed(p) \/ Reset(p) \/ Restart(p)
    \/ KeyExpires \/ Tick

Spec == Init /\ [][Next]_vars

\* Clients keep calling, a call or a write that has begun ends, time passes.
FairSpec ==
    /\ Spec
    /\ WF_vars(Tick)
    /\ \A p \in Processes : WF_vars(Execute(p)) /\ WF_vars(Proceed(p))

-----------------------------------------------------------------------------
(* Properties *)

\* The writes to Redis are part of the call's answer.
At(p) ==
    IF step[p] \in Loading THEN "starting"
    ELSE IF step[p] = "calling" THEN "calling" ELSE "ready"

Abstract == INSTANCE Breaker WITH
    mode <- state,
    fails <- failures,
    cooled <- [p \in Processes |-> opened[p] = Timeout],
    probes <- probes,
    at <- [p \in Processes |-> At(p)]

\* Every process's breaker keeps the promise of module Breaker whatever Redis,
\* the other processes and crashes do to the shared copy: no call while open,
\* none before the timeout, no probe too many, no failure forgotten.
ImplementsBreaker == Abstract!Spec

\* An open breaker that knows when it opened does not refuse for ever: a call
\* gets through, unless an operator resets it or its process dies first.
OpenIsProbed ==
    \A p \in Processes :
        (state[p] = "open" /\ opened[p] # None) ~> (step[p] = "calling" \/ state[p] = "closed")
=============================================================================
