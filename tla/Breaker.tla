------------------------------ MODULE Breaker ------------------------------
(***************************************************************************)
(* What a circuit breaker promises, for a set of processes that guard the  *)
(* same service with a breaker each: calls reach the service while the     *)
(* breaker is closed; Threshold failures with no success between them open *)
(* it; an open breaker lets no call through until it has cooled, and then  *)
(* at most MaxProbes of them until one succeeds or it opens again.         *)
(* Nothing is said of storage: a process may start in any state, with none *)
(* of its probes spent.                                                    *)
(***************************************************************************)
EXTENDS Naturals

CONSTANTS Processes, Threshold, MaxProbes

VARIABLES
    mode,   \* closed, open or half_open
    fails,  \* failures counted, up to the threshold
    cooled, \* has the recovery timeout passed since the breaker opened?
    probes, \* calls let through since it became half-open
    at      \* starting, ready or calling: where the process stands

vars == <<mode, fails, cooled, probes, at>>

Modes == {"closed", "open", "half_open"}

Init ==
    /\ mode = [p \in Processes |-> "closed"]
    /\ fails = [p \in Processes |-> 0]
    /\ cooled = [p \in Processes |-> FALSE]
    /\ probes = [p \in Processes |-> 0]
    /\ at = [p \in Processes |-> "starting"]

Admit(p) ==
    /\ mode[p] = "closed" /\ at[p] = "ready"
    /\ at' = [at EXCEPT ![p] = "calling"]
    /\ UNCHANGED <<mode, fails, cooled, probes>>

HalfOpen(p) ==
    /\ mode[p] = "open" /\ cooled[p] /\ at[p] = "ready"
    /\ mode' = [mode EXCEPT ![p] = "half_open"]
    /\ probes' = [probes EXCEPT ![p] = 0]
    /\ UNCHANGED <<fails, cooled, at>>

Probe(p) ==
    /\ mode[p] = "half_open" /\ at[p] = "ready"
    /\ probes[p] < MaxProbes
    /\ probes' = [probes EXCEPT ![p] = @ + 1]
    /\ at' = [at EXCEPT ![p] = "calling"]
    /\ UNCHANGED <<mode, fails, cooled>>

\* A success forgets the failures and ends a recovery.
Success(p) ==
    /\ at[p] = "calling"
    /\ at' = [at EXCEPT ![p] = "ready"]
    /\ mode' = [mode EXCEPT ![p] = "closed"]
    /\ fails' = [fails EXCEPT ![p] = 0]
    /\ \/ mode[p] = "half_open" /\ cooled' = [cooled EXCEPT ![p] = FALSE]
                                /\ probes' = [probes EXCEPT ![p] = 0]
       \/ mode[p] = "closed" /\ UNCHANGED <<cooled, probes>>

\* One failure more; the breaker stays closed below the threshold.
Failure(p) ==
    /\ at[p] = "calling" /\ mode[p] = "closed"
    /\ fails[p] + 1 < Threshold
    /\ at' = [at EXCEPT ![p] = "ready"]
    /\ fails' = [fails EXCEPT ![p] = @ + 1]
    /\ UNCHANGED <<mode, cooled, probes>>

\* The last failure that is tolerated, or the failure of a probe.
Open(p) ==
    /\ at[p] = "calling"
    /\ at' = [at EXCEPT ![p] = "ready"]
    /\ mode' = [mode EXCEPT ![p] = "open"]
    /\ cooled' = [cooled EXCEPT ![p] = FALSE]
    /\ \/ /\ mode[p] = "closed" /\ fails[p] + 1 >= Threshold
          /\ fails' = [fails EXCEPT ![p] = Threshold]
          /\ UNCHANGED probes
       \/ /\ mode[p] = "half_open"
          /\ probes' = [probes EXCEPT ![p] = 0]
          /\ UNCHANGED fails

\* An error that says nothing of the service's health; after a probe the
\* breaker may open again without cooling, or stay half-open.
Neutral(p) ==
    /\ at[p] = "calling"
    /\ at' = [at EXCEPT ![p] = "ready"]
    /\ \/ UNCHANGED mode
       \/ mode[p] = "half_open" /\ mode' = [mode EXCEPT ![p] = "open"]
    /\ UNCHANGED <<fails, cooled, probes>>

Reset(p) ==
    /\ at[p] = "ready"
    /\ mode' = [mode EXCEPT ![p] = "closed"]
    /\ fails' = [fails EXCEPT ![p] = 0]
    /\ cooled' = [cooled EXCEPT ![p] = FALSE]
    /\ probes' = [probes EXCEPT ![p] = 0]
    /\ UNCHANGED at

Cool ==
    /\ \E now \in [Processes -> BOOLEAN] :
          cooled' = [p \in Processes |-> cooled[p] \/ now[p]]
    /\ UNCHANGED <<mode, fails, probes, at>>

\* The process dies, with the call it had.
Restart(p) ==
    /\ at' = [at EXCEPT ![p] = "starting"]
    /\ mode' = [mode EXCEPT ![p] = "closed"]
    /\ fails' = [fails EXCEPT ![p] = 0]
    /\ cooled' = [cooled EXCEPT ![p] = FALSE]
    /\ probes' = [probes EXCEPT ![p] = 0]

\* Before it is ready a new process may find any earlier state.
Recover(p) ==
    /\ at[p] = "starting"
    /\ \E s \in {"starting", "ready"} : at' = [at EXCEPT ![p] = s]
    /\ \E m \in Modes : mode' = [mode EXCEPT ![p] = m]
    /\ \E n \in 0..Threshold : fails' = [fails EXCEPT ![p] = n]
    /\ \E b \in BOOLEAN : cooled' = [cooled EXCEPT ![p] = b]
    /\ UNCHANGED probes

Next ==
    \/ Cool
    \/ \E p \in Processes :
          \/ Admit(p) \/ HalfOpen(p) \/ Probe(p)
          \/ Success(p) \/ Failure(p) \/ Open(p) \/ Neutral(p)
          \/ Reset(p) \/ Restart(p) \/ Recover(p)

Spec == Init /\ [][Next]_vars
=============================================================================
