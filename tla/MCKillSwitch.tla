---------------------------- MODULE MCKillSwitch ----------------------------
EXTENDS KillSwitch

CONSTANTS o1, o2, d1, d2, s1, s2, x

MCTargets == {<<"global", "global">>, <<"strategy", s1>>, <<"symbol", x>>}
GlobalOnly == {<<"global", "global">>}
MCDeploymentOf == [o \in Orders |-> IF o = o1 THEN d1 ELSE d2]
MCStrategyId == [o \in Orders |-> IF o = o1 THEN s1 ELSE s2]
MCSymbol == [o \in Orders |-> x]
MCDeploymentStrategy == [d \in Deployments |-> IF d = d1 THEN s1 ELSE s2]
=============================================================================
