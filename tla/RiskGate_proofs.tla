--------------------------- MODULE RiskGate_proofs ---------------------------
(***************************************************************************)
(* How far a deployment can get beyond its position limit, for any number  *)
(* of workers and deployments, any limits and any number of orders.        *)
(***************************************************************************)
EXTENDS RiskGate, FiniteSetTheorems, TLAPS

\* Workers that hold neither an order on its way nor a broken session, and so
\* may still act on what they have fetched.
Active(w) == w \notin broken /\ step[w] \notin {"send", "sent"}

\* Workers whose view of the position of d lets an order of side s pass.
MayGrow(d, s) ==
    {w \in Workers :
        /\ Active(w)
        /\ \/ cache[w] # None /\ cache[w].of = d /\ Along(s, cache[w].position) < MaxPosition
           \/ snapshot[w] # None /\ snapshot[w].of = d /\ Along(s, snapshot[w].position) < MaxPosition
           \/ held[w] # None /\ deployment[w] = d /\ Along(s, held[w]) < MaxPosition}

N == Cardinality(Workers)

\* From this exposure on, a position that is fetched is at its limit.
Full(d, s) == MaxPosition + most[d][s] + misjudged[d][s]

MostInv == \A d \in Deployments, s \in Sides : Outstanding(d, s) <= most[d][s]

\* Each worker that acts on an old view of the position adds one order and then
\* looks again.
GrowInv ==
    \A d \in Deployments, s \in Sides :
        Exposure(d, s) >= Full(d, s) =>
            Exposure(d, s) + Cardinality(MayGrow(d, s)) <= Full(d, s) + N - 1

\* What the request variables hold at each step.
RequestInv ==
    \A w \in Workers :
        /\ step[w] # "idle" => deployment[w] \in Deployments /\ side[w] \in Sides
        /\ w \in broken => step[w] = "idle"
        /\ step[w] = "account" => held[w] # None
        /\ step[w] # "account" => held[w] = None
        /\ step[w] = "judge" <=> snapshot[w] # None

BasicInv == TypeOK /\ RequestInv

GateInv == BasicInv /\ MostInv /\ GrowInv

-----------------------------------------------------------------------------
(* Counting workers *)

LEMMA CountType ==
    ASSUME NEW S \in SUBSET Workers
    PROVE  IsFiniteSet(S) /\ Cardinality(S) \in Nat /\ Cardinality(S) <= N /\ N \in Nat
BY WorkersAssumption, FS_Subset, FS_CardinalityType DEF N

LEMMA CountSubset ==
    ASSUME NEW T \in SUBSET Workers, NEW S \in SUBSET T
    PROVE  Cardinality(S) <= Cardinality(T)
BY CountType, FS_Subset

LEMMA CountAdd ==
    ASSUME NEW T \in SUBSET Workers, NEW w \in Workers, w \notin T
    PROVE  Cardinality(T \cup {w}) = Cardinality(T) + 1
BY CountType, FS_AddElement

LEMMA CountRemove ==
    ASSUME NEW T \in SUBSET Workers, NEW w \in T
    PROVE  Cardinality(T \ {w}) = Cardinality(T) - 1
BY CountType, FS_RemoveElement

-----------------------------------------------------------------------------
(* Types and request variables *)

LEMMA InitBasic == Init => BasicInv
BY NoSnapshotAssumption, NoneAssumption, BoundAssumption
DEF Init, BasicInv, TypeOK, RequestInv, Sides

\* An order has a deployment and a side.
LEMMA Traded == \A trade \in Trades : trade[1] \in Deployments /\ trade[2] \in Sides
BY TradesAssumption DEF Sides

LEMMA PassTypes ==
    ASSUME BasicInv, NEW w \in Workers, Pass(w)
    PROVE  /\ passed' \in 0..MaxOrders
           /\ most' \in [Deployments -> [Sides -> Nat]]
           /\ misjudged' \in [Deployments -> [Sides -> Nat]]
<1>1. PICK D \in Deployments, S \in Sides : deployment[w] = D /\ side[w] = S
  BY DEF Pass, BasicInv, RequestInv
<1>2. passed' \in 0..MaxOrders
  BY BoundAssumption DEF Pass, BasicInv, TypeOK
<1> DEFINE top == IF most[D][S] < Outstanding(D, S) + 1 THEN Outstanding(D, S) + 1 ELSE most[D][S]
           missed == IF snapshot[w].of = D THEN misjudged[D][S] ELSE misjudged[D][S] + 1
<1>3. most[D] \in [Sides -> Nat] /\ misjudged[D] \in [Sides -> Nat] /\ open[D][S] \in Nat
  BY DEF BasicInv, TypeOK
<1>4. Outstanding(D, S) \in Nat
  <2>1. Passed(D, S) \in SUBSET Workers
    BY DEF Passed
  <2> QED BY <1>3, <2>1, CountType DEF Outstanding
<1>5. top \in Nat /\ missed \in Nat
  BY <1>3, <1>4
<1>6. /\ most' = [most EXCEPT ![D] = [most[D] EXCEPT ![S] = top]]
      /\ misjudged' = [misjudged EXCEPT ![D] = [misjudged[D] EXCEPT ![S] = missed]]
  BY <1>1 DEF Pass
<1> HIDE DEF top, missed
<1>7. /\ [most[D] EXCEPT ![S] = top] \in [Sides -> Nat]
      /\ [misjudged[D] EXCEPT ![S] = missed] \in [Sides -> Nat]
  BY <1>3, <1>5
<1> QED BY <1>2, <1>6, <1>7 DEF BasicInv, TypeOK

\* A step of a worker's request.
LEMMA WorkerBasic ==
    ASSUME BasicInv, NEW w \in Workers,
           \/ \E trade \in Trades : Begin(w, trade[1], trade[2])
           \/ FetchPositions(w) \/ FetchAccount(w) \/ Pass(w) \/ Refuse(w)
           \/ Send(w) \/ SendLost(w) \/ Invalidate(w) \/ CommitFails(w)
           \/ Crash(w) \/ Expire(w)
    PROVE  BasicInv'
<1> USE NoSnapshotAssumption, NoneAssumption
    DEF BasicInv, TypeOK, RequestInv, GoTo, Done, brokerVars, requestVars, history
<1>1. ASSUME NEW d \in Deployments, NEW s \in Sides, Begin(w, d, s) PROVE BasicInv'
  BY <1>1 DEF Begin
<1>2. CASE FetchPositions(w)
  BY <1>2 DEF FetchPositions
<1>3. CASE FetchAccount(w)
  <2>1. held[w] \in Int /\ deployment[w] \in Deployments
    BY <1>3 DEF FetchAccount
  <2> DEFINE now == [of |-> deployment[w], position |-> held[w], pending |-> PendingOrdersCount]
  <2>2. now \in Snapshots
    BY <2>1 DEF Snapshots, PendingOrdersCount
  <2>3. /\ step[w] = "account"
        /\ cache' = [cache EXCEPT ![w] = now]
        /\ snapshot' = [snapshot EXCEPT ![w] = now]
        /\ held' = [held EXCEPT ![w] = None]
        /\ step' = [step EXCEPT ![w] = "judge"]
        /\ UNCHANGED <<position, open, deployment, side, broken, passed, most, misjudged>>
    BY <1>3 DEF FetchAccount
  <2> HIDE DEF now
  <2> QED BY <2>2, <2>3
<1>4. CASE Pass(w)
  <2>1. /\ step[w] = "judge"
        /\ snapshot' = [snapshot EXCEPT ![w] = None]
        /\ step' = [step EXCEPT ![w] = "send"]
        /\ UNCHANGED <<position, open, cache, deployment, side, held, broken>>
    BY <1>4 DEF Pass
  <2> QED BY <1>4, <2>1, PassTypes
<1>5. CASE Refuse(w)
  BY <1>5 DEF Refuse
<1>6. CASE Send(w)
  BY <1>6 DEF Send, Sides
<1>7. CASE SendLost(w)
  BY <1>7 DEF SendLost
<1>8. CASE Invalidate(w)
  BY <1>8 DEF Invalidate
<1>9. CASE CommitFails(w)
  BY <1>9 DEF CommitFails
<1>10. CASE Crash(w)
  BY <1>10 DEF Crash
<1>11. CASE Expire(w)
  BY <1>11 DEF Expire
<1>12. CASE \E trade \in Trades : Begin(w, trade[1], trade[2])
  BY <1>1, <1>12, Traded
<1> QED
  BY <1>2, <1>3, <1>4, <1>5, <1>6, <1>7, <1>8, <1>9, <1>10, <1>11, <1>12

\* A step of the broker.
LEMMA BrokerBasic ==
    ASSUME BasicInv, NEW d \in Deployments, NEW s \in Sides,
           BrokerFills(d, s) \/ BrokerDrops(d, s)
    PROVE  BasicInv'
<1> USE DEF BasicInv, TypeOK, RequestInv, requestVars, history
<1>1. open' \in [Deployments -> [Sides -> Nat]]
  <2>1. open[d] \in [Sides -> Nat] /\ open[d][s] \in Nat /\ open[d][s] > 0
    BY DEF BrokerFills, BrokerDrops
  <2>2. [open[d] EXCEPT ![s] = @ - 1] \in [Sides -> Nat]
    BY <2>1
  <2>3. open' = [open EXCEPT ![d] = [open[d] EXCEPT ![s] = @ - 1]]
    BY DEF BrokerFills, BrokerDrops
  <2> QED BY <2>2, <2>3
<1>2. position' \in [Deployments -> Int]
  BY DEF BrokerFills, BrokerDrops, Along
<1> QED BY <1>1, <1>2 DEF BrokerFills, BrokerDrops

LEMMA StepBasic == BasicInv /\ [Next]_vars => BasicInv'
<1> SUFFICES ASSUME BasicInv, [Next]_vars PROVE BasicInv'
  OBVIOUS
<1>1. CASE UNCHANGED vars
  BY <1>1 DEF vars, brokerVars, requestVars, history, BasicInv, TypeOK, RequestInv
<1> QED
  BY <1>1, WorkerBasic, BrokerBasic DEF Next

\* Next keeps every type, and a request's variables are set and cleared with
\* its steps: what submit_live_order fetches, judges and forgets.
THEOREM TypeCorrect == Spec => []TypeOK
<1>1. BasicInv => TypeOK
  BY DEF BasicInv
<1> QED
  BY <1>1, InitBasic, StepBasic, PTL DEF Spec

-----------------------------------------------------------------------------
(* Steps that only shrink what is on its way and who may add to it *)

LEMMA Numbers ==
    ASSUME BasicInv, NEW d \in Deployments, NEW s \in Sides
    PROVE  /\ position[d] \in Int /\ Along(s, position[d]) \in Int
           /\ open[d][s] \in Nat /\ most[d][s] \in Nat /\ misjudged[d][s] \in Nat
           /\ Passed(d, s) \in SUBSET Workers /\ Cardinality(Passed(d, s)) \in Nat
           /\ MayGrow(d, s) \in SUBSET Workers /\ Cardinality(MayGrow(d, s)) \in Nat
           /\ N \in Nat /\ Cardinality(MayGrow(d, s)) <= N
           /\ Outstanding(d, s) \in Nat /\ Exposure(d, s) \in Int
           /\ Exposure(d, s) = Along(s, position[d]) + Outstanding(d, s)
           /\ Full(d, s) \in Int /\ Full(d, s) = MaxPosition + most[d][s] + misjudged[d][s]
<1>1. /\ position[d] \in Int /\ open[d][s] \in Nat
      /\ most[d][s] \in Nat /\ misjudged[d][s] \in Nat
  BY DEF BasicInv, TypeOK
<1>2. Along(s, position[d]) \in Int
  BY <1>1 DEF Along
<1>3. Passed(d, s) \in SUBSET Workers /\ MayGrow(d, s) \in SUBSET Workers
  BY DEF Passed, MayGrow
<1>4. /\ Cardinality(Passed(d, s)) \in Nat /\ Cardinality(MayGrow(d, s)) \in Nat
      /\ N \in Nat /\ Cardinality(MayGrow(d, s)) <= N
  BY <1>3, CountType
<1>5. /\ Outstanding(d, s) \in Nat /\ Exposure(d, s) \in Int
      /\ Exposure(d, s) = Along(s, position[d]) + Outstanding(d, s)
  BY <1>1, <1>2, <1>4 DEF Outstanding, Exposure
<1>6. Full(d, s) \in Int /\ Full(d, s) = MaxPosition + most[d][s] + misjudged[d][s]
  BY <1>1, LimitsAssumption DEF Full
<1> QED
  BY <1>1, <1>2, <1>3, <1>4, <1>5, <1>6

\* The same of the next state.
LEMMA NumbersNext ==
    ASSUME BasicInv', NEW d \in Deployments, NEW s \in Sides
    PROVE  /\ position'[d] \in Int /\ Along(s, position'[d]) \in Int
           /\ open'[d][s] \in Nat /\ most'[d][s] \in Nat /\ misjudged'[d][s] \in Nat
           /\ Passed(d, s)' \in SUBSET Workers /\ Cardinality(Passed(d, s)') \in Nat
           /\ MayGrow(d, s)' \in SUBSET Workers /\ Cardinality(MayGrow(d, s)') \in Nat
           /\ Cardinality(MayGrow(d, s)') <= N
           /\ Outstanding(d, s)' \in Nat /\ Exposure(d, s)' \in Int
           /\ Exposure(d, s)' = Along(s, position'[d]) + Outstanding(d, s)'
           /\ Full(d, s)' \in Int /\ Full(d, s)' = MaxPosition + most'[d][s] + misjudged'[d][s]
<1>1. /\ position'[d] \in Int /\ open'[d][s] \in Nat
      /\ most'[d][s] \in Nat /\ misjudged'[d][s] \in Nat
  BY DEF BasicInv, TypeOK
<1>2. Along(s, position'[d]) \in Int
  BY <1>1 DEF Along
<1>3. Passed(d, s)' \in SUBSET Workers /\ MayGrow(d, s)' \in SUBSET Workers
  BY DEF Passed, MayGrow
<1>4. /\ Cardinality(Passed(d, s)') \in Nat /\ Cardinality(MayGrow(d, s)') \in Nat
      /\ Cardinality(MayGrow(d, s)') <= N
  BY <1>3, CountType
<1>5. /\ Outstanding(d, s)' \in Nat /\ Exposure(d, s)' \in Int
      /\ Exposure(d, s)' = Along(s, position'[d]) + Outstanding(d, s)'
  BY <1>1, <1>2, <1>4 DEF Outstanding, Exposure
<1>6. Full(d, s)' \in Int /\ Full(d, s)' = MaxPosition + most'[d][s] + misjudged'[d][s]
  BY <1>1, LimitsAssumption DEF Full
<1> QED
  BY <1>1, <1>2, <1>3, <1>4, <1>5, <1>6

\* What is to be kept, of one deployment and side.
Kept(d, s) ==
    /\ Outstanding(d, s) <= most[d][s]
    /\ Exposure(d, s) >= Full(d, s) =>
          Exposure(d, s) + Cardinality(MayGrow(d, s)) <= Full(d, s) + N - 1

LEMMA KeptIsInv ==
    /\ GateInv => \A d \in Deployments, s \in Sides : Kept(d, s)
    /\ BasicInv' /\ (\A d \in Deployments, s \in Sides : Kept(d, s)') => GateInv'
<1>1. GateInv => \A d \in Deployments, s \in Sides : Kept(d, s)
  BY DEF GateInv, MostInv, GrowInv, Kept
<1>2. ASSUME BasicInv', \A d \in Deployments, s \in Sides : Kept(d, s)' PROVE GateInv'
  BY <1>2 DEF GateInv, MostInv, GrowInv, Kept, N
<1> QED BY <1>1, <1>2

Shrinks(d, s) ==
    /\ Outstanding(d, s)' <= Outstanding(d, s)
    /\ Exposure(d, s)' <= Exposure(d, s)
    /\ MayGrow(d, s)' \subseteq MayGrow(d, s)
    /\ most' = most /\ misjudged' = misjudged

LEMMA ShrinkKeeps ==
    ASSUME GateInv, BasicInv', NEW d \in Deployments, NEW s \in Sides, Shrinks(d, s)
    PROVE  Kept(d, s)'
<1>1. BasicInv /\ Kept(d, s)
  BY KeptIsInv DEF GateInv
<1>2. Cardinality(MayGrow(d, s)') <= Cardinality(MayGrow(d, s))
  BY <1>1, Numbers, CountSubset DEF Shrinks
<1>3. Full(d, s)' = Full(d, s)
  BY DEF Shrinks, Full
<1>4. Outstanding(d, s)' <= most'[d][s]
  BY <1>1, Numbers, NumbersNext DEF Shrinks, Kept
<1>5. ASSUME Exposure(d, s)' >= Full(d, s)'
      PROVE  Exposure(d, s)' + Cardinality(MayGrow(d, s)') <= Full(d, s)' + N - 1
  BY <1>1, <1>2, <1>3, <1>5, Numbers, NumbersNext DEF Shrinks, Kept
<1> QED
  BY <1>4, <1>5 DEF Kept, N

\* A step of worker w leaves the others' requests alone.
Frame(w) ==
    \A v \in Workers \ {w} :
        /\ step'[v] = step[v] /\ deployment'[v] = deployment[v] /\ side'[v] = side[v]
        /\ cache'[v] = cache[v] /\ snapshot'[v] = snapshot[v] /\ held'[v] = held[v]
        /\ v \in broken' <=> v \in broken

\* Then it is enough to look at w.
LEMMA FrameSets ==
    ASSUME NEW w \in Workers, Frame(w), NEW d \in Deployments, NEW s \in Sides
    PROVE  /\ Passed(d, s)' \ {w} = Passed(d, s) \ {w}
           /\ MayGrow(d, s)' \ {w} = MayGrow(d, s) \ {w}
<1>1. Passed(d, s)' \ {w} = Passed(d, s) \ {w}
  BY DEF Frame, Passed
<1>2. MayGrow(d, s)' \ {w} = MayGrow(d, s) \ {w}
  BY DEF Frame, MayGrow, Active
<1> QED
  BY <1>1, <1>2

\* A step of w that leaves the broker alone, lets no order through and gives w
\* no new view.
LEMMA QuietShrinks ==
    ASSUME BasicInv, BasicInv', NEW d \in Deployments, NEW s \in Sides, NEW w \in Workers, Frame(w),
           position' = position, open' = open, most' = most, misjudged' = misjudged,
           w \in Passed(d, s)' => w \in Passed(d, s),
           w \in MayGrow(d, s)' => w \in MayGrow(d, s)
    PROVE  Shrinks(d, s)
<1>1. Passed(d, s)' \subseteq Passed(d, s) /\ MayGrow(d, s)' \subseteq MayGrow(d, s)
  BY FrameSets
<1>2. Cardinality(Passed(d, s)') <= Cardinality(Passed(d, s))
  BY <1>1, Numbers, CountSubset
<1>3. Outstanding(d, s)' <= Outstanding(d, s)
  BY <1>2, Numbers, NumbersNext DEF Outstanding
<1>4. Exposure(d, s)' <= Exposure(d, s)
  BY <1>3, Numbers, NumbersNext
<1> QED
  BY <1>1, <1>3, <1>4 DEF Shrinks

LEMMA RequestShrinks ==
    ASSUME BasicInv, BasicInv', NEW d \in Deployments, NEW s \in Sides, NEW w \in Workers,
           \/ \E trade \in Trades : Begin(w, trade[1], trade[2])
           \/ FetchAccount(w) \/ Refuse(w) \/ SendLost(w) \/ Invalidate(w)
           \/ CommitFails(w) \/ Crash(w) \/ Expire(w)
    PROVE  Shrinks(d, s)
<1> USE NoSnapshotAssumption, NoneAssumption
    DEF BasicInv, TypeOK, RequestInv, GoTo, Done, brokerVars, requestVars, history
<1> DEFINE Goal == /\ Frame(w) /\ position' = position /\ open' = open
                   /\ most' = most /\ misjudged' = misjudged
                   /\ w \in Passed(d, s)' => w \in Passed(d, s)
                   /\ w \in MayGrow(d, s)' => w \in MayGrow(d, s)
<1>1. ASSUME NEW e \in Deployments, NEW t \in Sides, Begin(w, e, t) PROVE Goal
  <2>1. /\ Frame(w) /\ position' = position /\ open' = open
        /\ most' = most /\ misjudged' = misjudged
    BY <1>1 DEF Begin, Frame
  <2>2. w \in Passed(d, s)' => w \in Passed(d, s)
    BY <1>1 DEF Begin, Passed
  <2>3. w \in MayGrow(d, s)' => w \in MayGrow(d, s)
    BY <1>1 DEF Begin, MayGrow, Active
  <2> QED BY <2>1, <2>2, <2>3
<1>2. ASSUME FetchAccount(w) PROVE Goal
  <2>1. /\ Frame(w) /\ position' = position /\ open' = open
        /\ most' = most /\ misjudged' = misjudged
    BY <1>2 DEF FetchAccount, Frame
  <2>2. w \notin Passed(d, s)'
    BY <1>2 DEF FetchAccount, Passed
  <2>3. ASSUME w \in MayGrow(d, s)' PROVE w \in MayGrow(d, s)
    <3>1. /\ step[w] = "account" /\ held[w] # None /\ held'[w] = None /\ w \notin broken
          /\ cache'[w].of = deployment[w] /\ cache'[w].position = held[w]
          /\ snapshot'[w].of = deployment[w] /\ snapshot'[w].position = held[w]
      BY <1>2 DEF FetchAccount
    <3>2. deployment[w] = d /\ Along(s, held[w]) < MaxPosition
      BY <2>3, <3>1 DEF MayGrow
    <3> QED BY <3>1, <3>2 DEF MayGrow, Active
  <2> QED BY <2>1, <2>2, <2>3
<1>3. ASSUME Refuse(w) PROVE Goal
  <2>1. /\ Frame(w) /\ position' = position /\ open' = open
        /\ most' = most /\ misjudged' = misjudged
    BY <1>3 DEF Refuse, Frame
  <2>2. w \in Passed(d, s)' => w \in Passed(d, s)
    BY <1>3 DEF Refuse, Passed
  <2>3. w \in MayGrow(d, s)' => w \in MayGrow(d, s)
    BY <1>3 DEF Refuse, MayGrow, Active
  <2> QED BY <2>1, <2>2, <2>3
<1>4. ASSUME SendLost(w) PROVE Goal
  <2>1. /\ Frame(w) /\ position' = position /\ open' = open
        /\ most' = most /\ misjudged' = misjudged
    BY <1>4 DEF SendLost, Frame
  <2>2. w \in Passed(d, s)' => w \in Passed(d, s)
    BY <1>4 DEF SendLost, Passed
  <2>3. w \in MayGrow(d, s)' => w \in MayGrow(d, s)
    BY <1>4 DEF SendLost, MayGrow, Active
  <2> QED BY <2>1, <2>2, <2>3
<1>5. ASSUME Invalidate(w) PROVE Goal
  <2>1. /\ Frame(w) /\ position' = position /\ open' = open
        /\ most' = most /\ misjudged' = misjudged
    BY <1>5 DEF Invalidate, Frame
  <2>2. w \in Passed(d, s)' => w \in Passed(d, s)
    BY <1>5 DEF Invalidate, Passed
  <2>3. w \in MayGrow(d, s)' => w \in MayGrow(d, s)
    BY <1>5 DEF Invalidate, MayGrow, Active
  <2> QED BY <2>1, <2>2, <2>3
<1>6. ASSUME CommitFails(w) PROVE Goal
  <2>1. /\ Frame(w) /\ position' = position /\ open' = open
        /\ most' = most /\ misjudged' = misjudged
    BY <1>6 DEF CommitFails, Frame
  <2>2. w \in Passed(d, s)' => w \in Passed(d, s)
    BY <1>6 DEF CommitFails, Passed
  <2>3. w \in MayGrow(d, s)' => w \in MayGrow(d, s)
    BY <1>6 DEF CommitFails, MayGrow, Active
  <2> QED BY <2>1, <2>2, <2>3
<1>7. ASSUME Crash(w) PROVE Goal
  <2>1. /\ Frame(w) /\ position' = position /\ open' = open
        /\ most' = most /\ misjudged' = misjudged
    BY <1>7 DEF Crash, Frame
  <2>2. w \in Passed(d, s)' => w \in Passed(d, s)
    BY <1>7 DEF Crash, Passed
  <2>3. w \in MayGrow(d, s)' => w \in MayGrow(d, s)
    BY <1>7 DEF Crash, MayGrow, Active
  <2> QED BY <2>1, <2>2, <2>3
<1>8. ASSUME Expire(w) PROVE Goal
  <2>1. /\ Frame(w) /\ position' = position /\ open' = open
        /\ most' = most /\ misjudged' = misjudged
    BY <1>8 DEF Expire, Frame
  <2>2. w \in Passed(d, s)' => w \in Passed(d, s)
    BY <1>8 DEF Expire, Passed
  <2>3. w \in MayGrow(d, s)' => w \in MayGrow(d, s)
    BY <1>8 DEF Expire, MayGrow, Active
  <2> QED BY <2>1, <2>2, <2>3
<1>9. CASE \E trade \in Trades : Begin(w, trade[1], trade[2])
  <2>1. Goal
    BY <1>1, <1>9, Traded
  <2> HIDE DEF BasicInv
  <2> QED BY <2>1, QuietShrinks
<1>10. Goal => Shrinks(d, s)
  <2> HIDE DEF BasicInv
  <2> QED BY QuietShrinks
<1> HIDE DEF Goal
<1> QED
  BY <1>2, <1>3, <1>4, <1>5, <1>6, <1>7, <1>8, <1>9, <1>10

\* The order moves from the worker to the broker.
LEMMA SendShrinks ==
    ASSUME BasicInv, BasicInv', NEW d \in Deployments, NEW s \in Sides, NEW w \in Workers, Send(w)
    PROVE  Shrinks(d, s)
<1>1. PICK D \in Deployments, S \in Sides : deployment[w] = D /\ side[w] = S
  BY DEF Send, BasicInv, RequestInv
<1>2. /\ Frame(w) /\ position' = position /\ most' = most /\ misjudged' = misjudged
      /\ open' = [open EXCEPT ![D][S] = @ + 1]
      /\ step[w] = "send" /\ step'[w] = "sent"
  BY <1>1 DEF Send, Frame, GoTo, history, BasicInv, TypeOK
<1>3. /\ w \in Passed(d, s) <=> D = d /\ S = s
      /\ w \notin Passed(d, s)' /\ w \notin MayGrow(d, s)'
  BY <1>1, <1>2 DEF Passed, MayGrow, Active
<1>4. /\ Passed(d, s)' = Passed(d, s) \ {w}
      /\ MayGrow(d, s)' \subseteq MayGrow(d, s)
  BY <1>2, <1>3, FrameSets
<1>5. open'[d][s] = IF D = d /\ S = s THEN open[d][s] + 1 ELSE open[d][s]
  BY <1>2 DEF BasicInv, TypeOK
<1>6. Outstanding(d, s)' = Outstanding(d, s)
  <2>1. CASE D = d /\ S = s
    <3>1. Cardinality(Passed(d, s)') = Cardinality(Passed(d, s)) - 1
      BY <1>3, <1>4, <2>1, CountRemove, Numbers
    <3> QED BY <1>5, <2>1, <3>1, Numbers, NumbersNext DEF Outstanding
  <2>2. CASE ~(D = d /\ S = s)
    <3>1. Passed(d, s)' = Passed(d, s)
      BY <1>3, <1>4, <2>2
    <3> QED BY <1>5, <2>2, <3>1 DEF Outstanding
  <2> QED BY <2>1, <2>2
<1>7. Exposure(d, s)' <= Exposure(d, s)
  BY <1>2, <1>6, Numbers, NumbersNext
<1> QED
  BY <1>2, <1>4, <1>6, <1>7, Numbers DEF Shrinks

\* The broker fills an open order or gives it up.
LEMMA BrokerShrinks ==
    ASSUME BasicInv, BasicInv', NEW d \in Deployments, NEW s \in Sides,
           NEW D \in Deployments, NEW S \in Sides, BrokerFills(D, S) \/ BrokerDrops(D, S)
    PROVE  Shrinks(d, s)
<1>1. /\ open'[d][s] = IF D = d /\ S = s THEN open[d][s] - 1 ELSE open[d][s]
      /\ position'[d] = position[d] \/ (D = d /\ position'[d] = position[d] + Along(S, 1))
      /\ most' = most /\ misjudged' = misjudged
  <2>1. open \in [Deployments -> [Sides -> Nat]] /\ position \in [Deployments -> Int]
    BY DEF BasicInv, TypeOK
  <2>2. /\ open' = [open EXCEPT ![D][S] = @ - 1]
        /\ position' = position \/ position' = [position EXCEPT ![D] = @ + Along(S, 1)]
        /\ most' = most /\ misjudged' = misjudged
    BY DEF BrokerFills, BrokerDrops, history
  <2>3. open'[d][s] = IF D = d /\ S = s THEN open[d][s] - 1 ELSE open[d][s]
    BY <2>1, <2>2
  <2> QED BY <2>1, <2>2, <2>3
<1>2. Passed(d, s)' = Passed(d, s) /\ MayGrow(d, s)' = MayGrow(d, s)
  BY DEF BrokerFills, BrokerDrops, requestVars, Passed, MayGrow, Active
<1>3. Outstanding(d, s)' = IF D = d /\ S = s THEN Outstanding(d, s) - 1 ELSE Outstanding(d, s)
  BY <1>1, <1>2, Numbers, NumbersNext DEF Outstanding
<1>4. Along(s, position'[d]) <= IF D = d /\ S = s THEN Along(s, position[d]) + 1 ELSE Along(s, position[d])
  BY <1>1, Numbers, NumbersNext DEF Along, Sides
<1>5. Outstanding(d, s)' <= Outstanding(d, s) /\ Exposure(d, s)' <= Exposure(d, s)
  BY <1>3, <1>4, Numbers, NumbersNext
<1> QED
  BY <1>1, <1>2, <1>5 DEF Shrinks

-----------------------------------------------------------------------------
(* The step that looks at the positions, and the one that lets an order through *)

\* Once the exposure is full a worker that fetches positions finds them at the
\* limit: what is outstanding is too little to hide that.
LEMMA FetchPositionsKeeps ==
    ASSUME GateInv, BasicInv', NEW d \in Deployments, NEW s \in Sides, NEW w \in Workers,
           FetchPositions(w)
    PROVE  Kept(d, s)'
<1>1. BasicInv /\ Kept(d, s) /\ deployment[w] \in Deployments
  BY KeptIsInv DEF GateInv, BasicInv, RequestInv, FetchPositions
<1>2. /\ Frame(w) /\ position' = position /\ open' = open
      /\ most' = most /\ misjudged' = misjudged
      /\ step[w] = "positions" /\ step'[w] = "account"
      /\ held'[w] = position[deployment[w]] /\ deployment' = deployment
      /\ cache' = cache /\ snapshot' = snapshot /\ broken' = broken
  BY <1>1 DEF FetchPositions, Frame, GoTo, brokerVars, history, BasicInv, TypeOK
<1>3. w \notin Passed(d, s) /\ w \notin Passed(d, s)'
  BY <1>2 DEF Passed
<1>4. Passed(d, s)' = Passed(d, s)
  BY <1>2, <1>3, FrameSets
<1>5. /\ Outstanding(d, s)' = Outstanding(d, s) /\ Exposure(d, s)' = Exposure(d, s)
      /\ Full(d, s)' = Full(d, s)
  BY <1>2, <1>4 DEF Outstanding, Exposure, Full
<1>6. ASSUME Exposure(d, s)' >= Full(d, s)'
      PROVE  Exposure(d, s)' + Cardinality(MayGrow(d, s)') <= Full(d, s)' + N - 1
  <2>1. Along(s, position[d]) >= MaxPosition
    BY <1>1, <1>5, <1>6, Numbers, LimitsAssumption DEF Kept
  <2>2. w \in MayGrow(d, s)' => w \in MayGrow(d, s)
    <3>1. deployment[w] = d => ~(Along(s, held'[w]) < MaxPosition)
      BY <1>1, <1>2, <2>1, Numbers, LimitsAssumption
    <3> QED BY <1>2, <3>1 DEF MayGrow, Active
  <2>3. MayGrow(d, s)' \subseteq MayGrow(d, s)
    BY <1>2, <2>2, FrameSets
  <2>4. Cardinality(MayGrow(d, s)') <= Cardinality(MayGrow(d, s))
    BY <1>1, <2>3, Numbers, CountSubset
  <2> QED
    BY <1>1, <1>5, <1>6, <2>4, Numbers, NumbersNext DEF Kept
<1>7. Outstanding(d, s)' <= most'[d][s]
  BY <1>1, <1>2, <1>5 DEF Kept
<1> QED
  BY <1>6, <1>7 DEF Kept, N

\* The worker whose order passes has used up its view, or had none of this
\* deployment.
LEMMA PassKeeps ==
    ASSUME GateInv, BasicInv', NEW d \in Deployments, NEW s \in Sides, NEW w \in Workers, Pass(w)
    PROVE  Kept(d, s)'
<1>1. PICK D \in Deployments, S \in Sides : deployment[w] = D /\ side[w] = S
  BY DEF Pass, GateInv, BasicInv, RequestInv
<1>2. /\ BasicInv /\ Kept(d, s) /\ w \notin broken
      /\ step[w] = "judge" /\ snapshot[w] # None /\ snapshot[w] \in Snapshots
  BY KeptIsInv DEF Pass, GateInv, BasicInv, RequestInv, TypeOK
<1>3. /\ Frame(w) /\ position' = position /\ open' = open /\ step'[w] = "send"
      /\ deployment' = deployment /\ side' = side
  BY <1>2 DEF Pass, Frame, GoTo, brokerVars, BasicInv, TypeOK
<1>4. Along(S, snapshot[w].position) < MaxPosition
  BY <1>1, <1>2, LimitsAssumption DEF Pass, PositionFits, Along, Snapshots, Sides
<1>5. /\ w \notin Passed(d, s) /\ w \notin MayGrow(d, s)'
      /\ w \in Passed(d, s)' <=> D = d /\ S = s
  BY <1>1, <1>2, <1>3 DEF Passed, MayGrow, Active
<1>6. MayGrow(d, s)' = MayGrow(d, s) \ {w} /\ Cardinality(MayGrow(d, s)') <= Cardinality(MayGrow(d, s))
  <2>1. MayGrow(d, s)' = MayGrow(d, s) \ {w}
    BY <1>3, <1>5, FrameSets
  <2> QED BY <1>2, <2>1, Numbers, CountSubset
<1>7. /\ Exposure(d, s) \in Int /\ Full(d, s) \in Int /\ N \in Nat
      /\ Exposure(d, s)' \in Int /\ Full(d, s)' \in Int
      /\ Cardinality(MayGrow(d, s)) \in Nat /\ Cardinality(MayGrow(d, s)') \in Nat
      /\ Cardinality(MayGrow(d, s)) <= N
  BY <1>2, Numbers, NumbersNext
<1>8. CASE ~(D = d /\ S = s)
  <2>1. Passed(d, s)' = Passed(d, s)
    BY <1>3, <1>5, <1>8, FrameSets
  <2>2. most'[d][s] = most[d][s] /\ misjudged'[d][s] = misjudged[d][s]
    BY <1>1, <1>2, <1>8 DEF Pass, BasicInv, TypeOK
  <2>3. /\ Outstanding(d, s)' = Outstanding(d, s) /\ Exposure(d, s)' = Exposure(d, s)
        /\ Full(d, s)' = Full(d, s)
    BY <1>3, <2>1, <2>2 DEF Outstanding, Exposure, Full
  <2>4. Outstanding(d, s)' <= most'[d][s]
    BY <1>2, <2>2, <2>3 DEF Kept
  <2>5. ASSUME Exposure(d, s)' >= Full(d, s)'
        PROVE  Exposure(d, s)' + Cardinality(MayGrow(d, s)') <= Full(d, s)' + N - 1
    BY <1>2, <1>6, <1>7, <2>3, <2>5 DEF Kept
  <2> QED
    BY <2>4, <2>5 DEF Kept, N
<1>9. CASE D = d /\ S = s
  <2>1. Passed(d, s)' = Passed(d, s) \cup {w}
    BY <1>3, <1>5, <1>9, FrameSets
  <2>2. Cardinality(Passed(d, s)') = Cardinality(Passed(d, s)) + 1
    BY <1>2, <1>5, <2>1, CountAdd, Numbers
  <2>3. Outstanding(d, s)' = Outstanding(d, s) + 1
    BY <1>2, <1>3, <2>2, Numbers DEF Outstanding
  <2>4. Exposure(d, s)' = Exposure(d, s) + 1
    BY <1>2, <1>3, <2>3, Numbers, NumbersNext
  <2>5. /\ most'[d][s] = IF most[d][s] < Outstanding(d, s) + 1
                         THEN Outstanding(d, s) + 1 ELSE most[d][s]
        /\ misjudged'[d][s] = IF snapshot[w].of = d THEN misjudged[d][s] ELSE misjudged[d][s] + 1
    BY <1>1, <1>2, <1>9 DEF Pass, BasicInv, TypeOK
  <2>6. Outstanding(d, s)' <= most'[d][s] /\ most[d][s] <= most'[d][s]
    BY <1>2, <2>3, <2>5, Numbers DEF Kept
  <2>7. Full(d, s)' >= Full(d, s) + IF snapshot[w].of = d THEN 0 ELSE 1
    BY <1>2, <2>5, <2>6, Numbers, NumbersNext, LimitsAssumption
  <2>8. ASSUME Exposure(d, s)' >= Full(d, s)'
        PROVE  Exposure(d, s)' + Cardinality(MayGrow(d, s)') <= Full(d, s)' + N - 1
    <3>1. CASE snapshot[w].of = d
      <4>1. w \in MayGrow(d, s)
        BY <1>2, <1>4, <1>9, <3>1 DEF MayGrow, Active
      <4>2. Cardinality(MayGrow(d, s)') = Cardinality(MayGrow(d, s)) - 1
        BY <1>2, <1>6, <4>1, CountRemove, Numbers
      <4> QED
        BY <1>2, <1>7, <2>4, <2>8, <2>7, <4>2 DEF Kept
    <3>2. CASE snapshot[w].of # d
      BY <1>2, <1>6, <1>7, <2>4, <2>8, <2>7, <3>2 DEF Kept
    <3> QED BY <3>1, <3>2
  <2> QED
    BY <2>6, <2>8 DEF Kept, N
<1> QED
  BY <1>8, <1>9

-----------------------------------------------------------------------------

LEMMA StepGate == GateInv /\ [Next]_vars => GateInv'
<1> SUFFICES ASSUME GateInv, [Next]_vars PROVE GateInv'
  OBVIOUS
<1>1. BasicInv /\ BasicInv'
  BY StepBasic DEF GateInv
<1>2. CASE UNCHANGED vars
  BY <1>1, <1>2 DEF vars, brokerVars, requestVars, history, GateInv, MostInv, GrowInv,
     Outstanding, Exposure, Passed, MayGrow, Active, Full, N
<1>3. SUFFICES ASSUME Next, NEW d \in Deployments, NEW s \in Sides PROVE Kept(d, s)'
  BY <1>1, <1>2, KeptIsInv
<1>4. ASSUME NEW w \in Workers, FetchPositions(w) PROVE Kept(d, s)'
  BY <1>1, <1>4, FetchPositionsKeeps
<1>5. ASSUME NEW w \in Workers, Pass(w) PROVE Kept(d, s)'
  BY <1>1, <1>5, PassKeeps
<1>6. ASSUME NEW w \in Workers,
             \/ \E trade \in Trades : Begin(w, trade[1], trade[2])
             \/ FetchAccount(w) \/ Refuse(w) \/ SendLost(w) \/ Invalidate(w)
             \/ CommitFails(w) \/ Crash(w) \/ Expire(w)
      PROVE  Kept(d, s)'
  BY <1>1, <1>6, RequestShrinks, ShrinkKeeps
<1>7. ASSUME NEW w \in Workers, Send(w) PROVE Kept(d, s)'
  BY <1>1, <1>7, SendShrinks, ShrinkKeeps
<1>8. ASSUME NEW D \in Deployments, NEW S \in Sides, BrokerFills(D, S) \/ BrokerDrops(D, S)
      PROVE  Kept(d, s)'
  BY <1>1, <1>8, BrokerShrinks, ShrinkKeeps
<1> QED
  BY <1>3, <1>4, <1>5, <1>6, <1>7, <1>8 DEF Next

LEMMA InitGate == Init => GateInv
<1> SUFFICES ASSUME Init PROVE GateInv
  OBVIOUS
<1>1. BasicInv
  BY InitBasic
<1>2. ASSUME NEW d \in Deployments, NEW s \in Sides
      PROVE  Outstanding(d, s) <= most[d][s] /\ Exposure(d, s) < Full(d, s)
  <2>1. Passed(d, s) = {} /\ open[d][s] = 0 /\ position[d] = 0
        /\ most[d][s] = 0 /\ misjudged[d][s] = 0
    BY DEF Init, Passed
  <2>2. Outstanding(d, s) = 0
    BY <2>1, FS_EmptySet DEF Outstanding
  <2>3. Along(s, position[d]) = 0
    <3>1. \A n \in Int : n <= 0 /\ 0 <= n => Along(s, n) = n
      BY DEF Along
    <3> QED BY <2>1, <3>1
  <2> QED BY <1>1, <2>1, <2>2, <2>3, Numbers, LimitsAssumption
<1> QED
  BY <1>1, <1>2, Numbers DEF GateInv, MostInv, GrowInv

\* For any number of workers and deployments, any limits and any number of orders:
\* a deployment never commits itself beyond max_position_size by more than the
\* orders that the snapshots of submit_live_order cannot show or take for another
\* deployment's, and one of each other worker.
THEOREM ExposureIsBounded == Spec => []ExposureBounded
<1>1. GateInv => ExposureBounded
  <2> SUFFICES ASSUME GateInv, NEW d \in Deployments, NEW s \in Sides
               PROVE  Exposure(d, s) <= Full(d, s) + N - 1
    BY DEF ExposureBounded, Full, N
  <2>1. BasicInv /\ Kept(d, s)
    BY KeptIsInv DEF GateInv
  <2>2. CASE Exposure(d, s) >= Full(d, s)
    BY <2>1, <2>2, Numbers DEF Kept
  <2>3. CASE Exposure(d, s) < Full(d, s)
    BY <2>1, <2>3, Numbers
  <2> QED BY <2>1, <2>2, <2>3, Numbers
<1> QED
  BY <1>1, InitGate, StepGate, PTL DEF Spec
=============================================================================
