-------------------------- MODULE MCExecutionLoop --------------------------
EXTENDS ExecutionLoop, TLC

CONSTANTS l1, l2, d1

MCDeploymentOf == [l \in Loops |-> d1]
MCExecutionMode == [l \in Loops |-> IF l = l1 THEN "live" ELSE "shadow"]
MCMaxBars == [l \in Loops |-> IF l = l1 THEN 2 ELSE 1]

Symmetry == Permutations(Threads)
=============================================================================
