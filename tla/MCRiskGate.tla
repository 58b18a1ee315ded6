----------------------------- MODULE MCRiskGate -----------------------------
EXTENDS RiskGate, TLC

CONSTANTS d1, d2

\* One deployment buys and the other one sells; or one does both.
OppositeTrades == {<<d1, "buy">>, <<d2, "sell">>}
BothSides == {d1} \X Sides

Symmetry == Permutations(Workers)
=============================================================================
