---------------------------- MODULE MCGovernance ----------------------------
EXTENDS Governance, TLC

Symmetry == Permutations(Sessions) \cup Permutations(Users)

\* Deployments and reviews share no row and no lock: a behaviour with both is
\* explored up to the step that brings in the second kind.
OneKind ==
    (\A d \in Deployments : state[d] = None) \/ (\A v \in Reviews : state[v] = None)
=============================================================================
