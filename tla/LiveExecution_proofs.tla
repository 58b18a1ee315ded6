----------------------- MODULE LiveExecution_proofs ------------------------
(***************************************************************************)
(* Proofs about LiveExecution, for any set of workers, any set of          *)
(* client_order_ids and every choice of requests and failures.             *)
(***************************************************************************)
EXTENDS LiveExecution, TLAPS

LEMMA SessionFacts ==
    \A w \in Workers : /\ Live(w) \in Sessions /\ Rec(w) \in Sessions
                       /\ \A v \in Workers : Live(w) # Rec(v)
                       /\ \A v \in Workers : Live(w) = Live(v) => w = v
                       /\ \A v \in Workers : Rec(w) = Rec(v) => w = v
BY DEF Live, Rec, Sessions

-----------------------------------------------------------------------------
(* Types *)

\* A request between its first step and its last names an order.
CidInv == \A w \in Workers : cid[w] = None <=> pc[w] \in {"idle", "recover"}

\* A request that is about to write an answer of the broker has one.
ReplyInv ==
    \A w \in Workers :
        pc[w] \in {"ack", "write_cancel", "write_sync", "write_rec"} => reply[w] # None

TypeInv == TypeOK /\ CidInv /\ ReplyInv

LEMMA TypeInit == Init => TypeInv
BY DEF Init, TypeInv, TypeOK, CidInv, ReplyInv, NoChanges, Steps

LEMMA TypeUpdate ==
    ASSUME TypeOK, NEW s \in Sessions, NEW c \in ClientIds, NEW status \in Statuses,
           NEW bid \in BOOLEAN, UpdateStatus(s, c, status, bid)
    PROVE  pend' \in [Sessions -> [ClientIds -> Rows \cup {None}]]
BY DEF TypeOK, UpdateStatus, Visible, Rows

\* A request that writes an answer of the broker has an order and an answer.
LEMMA HasReply ==
    ASSUME TypeInv, NEW w \in Workers,
           pc[w] \in {"ack", "write_cancel", "write_sync", "write_rec"}
    PROVE  /\ cid[w] \in ClientIds
           /\ reply[w] \in Rows
           /\ reply[w].status \in Statuses
           /\ reply[w].bid \in BOOLEAN
<1>1. cid[w] \in ClientIds /\ reply[w] \in Rows
    BY NoneAssumption DEF TypeInv, TypeOK, CidInv, ReplyInv
<1> QED BY <1>1 DEF Rows

LEMMA TypeCommit ==
    ASSUME TypeOK, NEW s \in Sessions, Commit(s)
    PROVE  /\ orders' \in [ClientIds -> Rows \cup {None}]
           /\ pend' \in [Sessions -> [ClientIds -> Rows \cup {None}]]
BY DEF TypeOK, Commit, Visible, NoChanges

LEMMA TypeNext == TypeInv /\ [Next]_vars => TypeInv'
<1> SUFFICES ASSUME TypeInv, [Next]_vars PROVE TypeInv'
    OBVIOUS
<1> USE SessionFacts, NoneAssumption DEF TypeInv, Statuses, OpenStatuses, TerminalStatuses, CidInv, ReplyInv
<1>1. ASSUME NEW w \in Workers, NEW c \in ClientIds,
             BeginSubmit(w, c) \/ BeginCancel(w, c) \/ BeginSync(w, c)
      PROVE  TypeInv'
  <2>1. CASE BeginSubmit(w, c)
      BY <2>1 DEF TypeOK, BeginSubmit, Begin, Goto, Steps, brokerVars
  <2>2. CASE BeginCancel(w, c)
      BY <2>2 DEF TypeOK, BeginCancel, Begin, Goto, Steps, brokerVars
  <2>3. CASE BeginSync(w, c)
      BY <2>3 DEF TypeOK, BeginSync, Begin, Goto, Steps, brokerVars
  <2> QED BY <1>1, <2>1, <2>2, <2>3
<1>2. ASSUME NEW w \in Workers, NEW c \in ClientIds, Deliver(w, c)
      PROVE  TypeInv'
  <2>1. CASE BrokerCreate(w, c)
    <3>1. CASE pc[w] = "waiting" /\ cid[w] = c
        BY <2>1, <3>1 DEF TypeOK, BrokerCreate, Rows
    <3>2. CASE ~(pc[w] = "waiting" /\ cid[w] = c)
        BY <2>1, <3>2 DEF TypeOK, BrokerCreate, Rows
    <3> QED BY <3>1, <3>2
  <2>2. CASE BrokerDrop(w, c)
      BY <2>2 DEF TypeOK, BrokerDrop, requestVars
  <2> QED BY <1>2, <2>1, <2>2 DEF Deliver
<1>3. ASSUME NEW w \in Workers, BeginRecovery(w) PROVE TypeInv'
    BY <1>3 DEF TypeOK, BeginRecovery, Orphans, Goto, Steps, brokerVars
<1>4. ASSUME NEW w \in Workers, Submitting(w) PROVE TypeInv'
  <2>1. CASE Refuse(w)
      BY <2>1 DEF TypeOK, Refuse, Finish, Goto, Steps, brokerVars
  <2>2. CASE Lookup(w)
    <3>1. CASE Visible(Live(w), cid[w]) = None
        BY <2>2, <3>1, ZenonT(30) DEF TypeOK, Lookup, Goto, Steps, LiveDbSteps, brokerVars
    <3>2. CASE Visible(Live(w), cid[w]) # None
        BY <2>2, <3>2, ZenonT(30) DEF TypeOK, Lookup, Finish, Goto, Steps, brokerVars
    <3> QED BY <3>1, <3>2
  <2>3. CASE SaveOrder(w)
      BY <2>3 DEF TypeOK, SaveOrder, Rows, Goto, Steps, LiveDbSteps, brokerVars
  <2>4. CASE SaveDuplicate(w)
      BY <2>4 DEF TypeOK, SaveDuplicate, Rollback, NoChanges, Finish, Goto, Steps, brokerVars
  <2>5. CASE CommitOrder(w)
      BY <2>5, TypeCommit DEF TypeOK, CommitOrder, Goto, Steps, brokerVars
  <2>6. CASE CallSubmit(w)
      BY <2>6 DEF TypeOK, CallSubmit, Goto, Steps
  <2>7. CASE ReceiveAck(w)
      BY <2>7 DEF TypeOK, ReceiveAck, Goto, Steps, LiveDbSteps, brokerVars
  <2>8. CASE ReceiveError(w)
      BY <2>8 DEF TypeOK, ReceiveError, Goto, Steps, LiveDbSteps, brokerVars
  <2>9. CASE WriteAck(w)
    <3>1. /\ UpdateStatus(Live(w), cid[w], reply[w].status, reply[w].bid)
          /\ cid[w] \in ClientIds /\ reply[w].status \in Statuses /\ reply[w].bid \in BOOLEAN
        BY <2>9, HasReply DEF WriteAck
    <3>2. pend' \in [Sessions -> [ClientIds -> Rows \cup {None}]]
        BY <3>1, TypeUpdate
    <3> QED BY <2>9, <3>2 DEF TypeOK, WriteAck, Goto, Steps, LiveDbSteps, brokerVars
  <2>10. CASE CommitAck(w)
      BY <2>10, TypeCommit DEF TypeOK, CommitAck, Finish, Goto, Steps, brokerVars
  <2>11. CASE WriteReject(w)
      BY <2>11, TypeUpdate DEF TypeOK, WriteReject, Goto, Steps, LiveDbSteps, brokerVars
  <2>12. CASE CommitReject(w)
      BY <2>12, TypeCommit DEF TypeOK, CommitReject, Finish, Goto, Steps, brokerVars
  <2> QED BY <1>4, <2>1, <2>2, <2>3, <2>4, <2>5, <2>6, <2>7, <2>8, <2>9, <2>10, <2>11, <2>12 DEF Submitting
<1>5. ASSUME NEW w \in Workers, CancellingOrSyncing(w) PROVE TypeInv'
  <2>1. CASE CallCancel(w)
    <3>1. PICK status \in Statuses :
             /\ broker' = [broker EXCEPT ![cid[w]] = status]
             /\ reply' = [reply EXCEPT ![w] = [status |-> status, bid |-> FALSE]]
        BY <2>1 DEF CallCancel
    <3>2. [status |-> status, bid |-> FALSE] \in Rows
        BY DEF Rows
    <3> QED BY <2>1, <3>1, <3>2 DEF TypeOK, CallCancel, Goto, Steps, LiveDbSteps, brokerVars
  <2>2. CASE WriteCancel(w)
    <3>1. /\ UpdateStatus(Live(w), cid[w], reply[w].status, FALSE)
          /\ cid[w] \in ClientIds /\ reply[w].status \in Statuses /\ reply[w].bid \in BOOLEAN
        BY <2>2, HasReply DEF WriteCancel
    <3>2. pend' \in [Sessions -> [ClientIds -> Rows \cup {None}]]
        BY <3>1, TypeUpdate
    <3> QED BY <2>2, <3>2 DEF TypeOK, WriteCancel, Goto, Steps, LiveDbSteps, brokerVars
  <2>3. CASE CommitCancel(w)
      BY <2>3, TypeCommit DEF TypeOK, CommitCancel, Finish, Goto, Steps, brokerVars
  <2>4. CASE CallSync(w)
    <3>1. cid[w] \in ClientIds /\ broker[cid[w]] \in Statuses
        BY <2>4 DEF CallSync, TypeOK
    <3>2. [status |-> broker[cid[w]], bid |-> FALSE] \in Rows
        BY <3>1 DEF Rows
    <3> QED BY <2>4, <3>2 DEF TypeOK, CallSync, Goto, Steps, LiveDbSteps, brokerVars
  <2>5. CASE WriteSync(w)
    <3>1. /\ UpdateStatus(Live(w), cid[w], reply[w].status, FALSE)
          /\ cid[w] \in ClientIds /\ reply[w].status \in Statuses /\ reply[w].bid \in BOOLEAN
        BY <2>5, HasReply DEF WriteSync
    <3>2. pend' \in [Sessions -> [ClientIds -> Rows \cup {None}]]
        BY <3>1, TypeUpdate
    <3> QED BY <2>5, <3>2 DEF TypeOK, WriteSync, Finish, Goto, Steps, brokerVars
  <2>6. CASE CallFails(w)
    <3>1. broker' \in [ClientIds -> Statuses \cup {None}]
        BY <2>6 DEF TypeOK, CallFails
    <3> QED BY <2>6, <3>1 DEF TypeOK, CallFails, Finish, Goto, Steps
  <2> QED BY <1>5, <2>1, <2>2, <2>3, <2>4, <2>5, <2>6 DEF CancellingOrSyncing
<1>6. ASSUME NEW w \in Workers, Recovering(w) PROVE TypeInv'
  <2>0. ASSUME NEW c \in ClientIds, RecoverPending(w, c) \/ RecoverPartialFill(w, c)
        PROVE  TypeInv'
    <3>1. CASE RecoverPending(w, c)
      <4>1. PICK answer \in Rows : reply' = [reply EXCEPT ![w] = answer]
          BY <3>1 DEF TypeOK, RecoverPending, Rows
      <4> QED BY <3>1, <4>1 DEF TypeOK, RecoverPending, Goto, Steps, brokerVars
    <3>2. CASE RecoverPartialFill(w, c)
      <4>1. [status |-> "partial_fill", bid |-> FALSE] \in Rows
          BY DEF Rows
      <4> QED BY <3>2, <4>1 DEF TypeOK, RecoverPartialFill, Goto, Steps, brokerVars
    <3> QED BY <2>0, <3>1, <3>2
  <2>1. CASE RecoverSkip(w)
      BY <2>1 DEF TypeOK, RecoverSkip, brokerVars
  <2>2. CASE RecoverWrite(w)
    <3>1. /\ UpdateStatus(Rec(w), cid[w], reply[w].status, reply[w].bid)
          /\ cid[w] \in ClientIds /\ reply[w].status \in Statuses /\ reply[w].bid \in BOOLEAN
        BY <2>2, HasReply DEF RecoverWrite
    <3>2. pend' \in [Sessions -> [ClientIds -> Rows \cup {None}]]
        BY <3>1, TypeUpdate
    <3> QED BY <2>2, <3>2 DEF TypeOK, RecoverWrite, Goto, Steps, brokerVars
  <2>3. CASE EndRecovery(w)
      BY <2>3 DEF TypeOK, EndRecovery, Rollback, NoChanges, Finish, Goto, Steps, brokerVars
  <2>4. CASE RecoveryFails(w)
      BY <2>4 DEF TypeOK, RecoveryFails, Finish, Goto, Steps, brokerVars
  <2> QED BY <1>6, <2>0, <2>1, <2>2, <2>3, <2>4 DEF Recovering
<1>7. ASSUME NEW w \in Workers, AbortLive(w) \/ AbortRecovery(w) \/ Crash(w) PROVE TypeInv'
  <2>1. CASE AbortLive(w)
      BY <2>1 DEF TypeOK, AbortLive, Rollback, NoChanges, Finish, Goto, Steps, brokerVars
  <2>2. CASE AbortRecovery(w)
      BY <2>2 DEF TypeOK, AbortRecovery, Rollback, NoChanges, Finish, Goto, Steps, brokerVars
  <2>3. CASE Crash(w)
      BY <2>3 DEF TypeOK, Crash, NoChanges, Finish, Goto, Steps, brokerVars
  <2> QED BY <1>7, <2>1, <2>2, <2>3
<1>8. ASSUME NEW c \in ClientIds, BrokerAdvance(c) PROVE TypeInv'
    BY <1>8 DEF TypeOK, BrokerAdvance, requestVars
<1>9. CASE UNCHANGED vars
    BY <1>9 DEF TypeOK, vars
<1> QED
    BY <1>1, <1>2, <1>3, <1>4, <1>5, <1>6, <1>7, <1>8, <1>9
       DEF Next, Proceed, DbError, StatementTimeout

\* Every step of every request, failure and broker event keeps the types.
THEOREM TypeCorrect == Spec => []TypeOK
<1>1. TypeInv => TypeOK
    BY DEF TypeInv
<1> QED BY TypeInit, TypeNext, <1>1, PTL DEF Spec

-----------------------------------------------------------------------------

\* Two sessions never hold the same row.
LockInv ==
    \A s, t \in Sessions, c \in ClientIds :
        pend[s][c] # None /\ pend[t][c] # None => s = t

\* A flushed row that is not in the table yet is the insert of a submission ...
InsertInv ==
    \A w \in Workers, c \in ClientIds : orders[c] = None =>
        /\ pend[Rec(w)][c] = None
        /\ pend[Live(w)][c] # None => pc[w] = "saved" /\ cid[w] = c

\* ... and a submission that inserted its row still holds it.
SavedInv ==
    \A w \in Workers :
        pc[w] = "saved" => orders[cid[w]] = None /\ pend[Live(w)][cid[w]] # None

\* Before its row is committed, an order has left no trace but the requests
\* that are about to insert it.
UnwrittenInv ==
    \A c \in ClientIds : orders[c] = None =>
        /\ placed[c] = 0
        /\ \A w \in Workers :
              /\ <<w, c>> \notin wire
              /\ cid[w] = c => pc[w] \in {"lookup", "save", "saved"}

\* A recovery works on committed rows.
TodoInv == \A w \in Workers : \A item \in todo[w] : orders[item[1]] # None

\* A submission about to be sent is the first and the only one of its order ...
SendInv ==
    \A w \in Workers : pc[w] = "submit" =>
        /\ placed[cid[w]] = 0
        /\ \A v \in Workers :
              /\ <<v, cid[w]>> \notin wire
              /\ pc[v] = "submit" /\ cid[v] = cid[w] => v = w

\* ... so is one on the wire, and so is one that arrived.
WireInv ==
    /\ \A w, v \in Workers, c \in ClientIds :
          <<w, c>> \in wire => placed[c] = 0 /\ (<<v, c>> \in wire => v = w)
    /\ \A c \in ClientIds : placed[c] <= 1

SubmitInv ==
    /\ TypeInv
    /\ LockInv /\ InsertInv /\ SavedInv /\ UnwrittenInv /\ TodoInv
    /\ SendInv /\ WireInv

\* What the database operations do to the set of rows that exist.
LEMMA UpdateFrame ==
    ASSUME TypeOK, NEW s \in Sessions, NEW c \in ClientIds, NEW status \in Statuses,
           NEW bid, UpdateStatus(s, c, status, bid)
    PROVE  /\ pend'[s][c] # None
           /\ \A t \in Sessions : t # s => pend'[t][c] = None
           /\ \A t \in Sessions, d \in ClientIds :
                 t # s \/ d # c => pend'[t][d] = pend[t][d]
<1> DEFINE row == [status |-> status, bid |-> Visible(s, c).bid \/ bid]
<1>1. row \in Rows
    BY DEF Rows
<1>2. row # None
    BY <1>1, NoneAssumption
<1> HIDE DEF row
<1>3. pend' = [pend EXCEPT ![s][c] = row] /\ Unlocked(s, c)
    BY DEF UpdateStatus, row
<1> QED BY <1>2, <1>3 DEF TypeOK, Unlocked

LEMMA CommitFrame ==
    ASSUME TypeOK, NEW s \in Sessions, Commit(s)
    PROVE  /\ \A d \in ClientIds : orders'[d] = IF pend[s][d] # None THEN pend[s][d] ELSE orders[d]
           /\ \A t \in Sessions, d \in ClientIds :
                 pend'[t][d] = IF t = s THEN None ELSE pend[t][d]
BY DEF TypeOK, Commit, Visible, NoChanges

LEMMA RollbackFrame ==
    ASSUME TypeOK, NEW s \in Sessions, Rollback(s)
    PROVE  \A t \in Sessions, d \in ClientIds :
              pend'[t][d] = IF t = s THEN None ELSE pend[t][d]
BY DEF TypeOK, Rollback, NoChanges

LEMMA SubmitInit == Init => SubmitInv
<1> SUFFICES ASSUME Init PROVE LockInv /\ InsertInv /\ SavedInv /\ UnwrittenInv /\ TodoInv /\ SendInv /\ WireInv
    BY TypeInit DEF SubmitInv
<1>1. TypeInv
    BY TypeInit
<1>2. LockInv
    BY DEF Init, LockInv, NoChanges
<1>3. InsertInv
    BY SessionFacts DEF Init, InsertInv, NoChanges
<1>4. SavedInv /\ SendInv
    BY DEF Init, SavedInv, SendInv
<1>5. UnwrittenInv
    BY NoneAssumption DEF Init, UnwrittenInv
<1>6. TodoInv
    BY DEF Init, TodoInv
<1>7. WireInv
    BY DEF Init, WireInv
<1> QED BY <1>2, <1>3, <1>4, <1>5, <1>6, <1>7

\* A request past its insert names a committed row.
LEMMA Written ==
    ASSUME SubmitInv, NEW w \in Workers,
           pc[w] \notin {"idle", "recover", "lookup", "save", "saved"}
    PROVE  cid[w] \in ClientIds /\ orders[cid[w]] # None
<1>1. cid[w] \in ClientIds
    BY DEF SubmitInv, TypeInv, TypeOK, CidInv
<1>2. orders[cid[w]] # None
    BY <1>1 DEF SubmitInv, UnwrittenInv
<1> QED BY <1>1, <1>2


\* The row of a submission that inserted it is nobody else's.
LEMMA SavedRow ==
    ASSUME SubmitInv, NEW v \in Workers, pc[v] = "saved"
    PROVE  /\ cid[v] \in ClientIds
           /\ orders[cid[v]] = None
           /\ pend[Live(v)][cid[v]] # None
           /\ \A s \in Sessions : s # Live(v) => pend[s][cid[v]] = None
<1>1. cid[v] \in ClientIds
    BY DEF SubmitInv, TypeInv, TypeOK, CidInv
<1>2. orders[cid[v]] = None /\ pend[Live(v)][cid[v]] # None
    BY DEF SubmitInv, SavedInv
<1> QED BY <1>1, <1>2, SessionFacts DEF SubmitInv, LockInv

LEMMA SubmitNext == SubmitInv /\ [Next]_vars => SubmitInv'
<1> SUFFICES ASSUME SubmitInv, [Next]_vars PROVE (LockInv /\ InsertInv /\ SavedInv /\ UnwrittenInv /\ TodoInv /\ SendInv /\ WireInv)'
    BY TypeNext DEF SubmitInv
<1> USE SessionFacts, NoneAssumption DEF SubmitInv, TypeInv
<1>1. ASSUME NEW w \in Workers, NEW c \in ClientIds, BeginSubmit(w, c) \/ BeginCancel(w, c) \/ BeginSync(w, c)
      PROVE  (LockInv /\ InsertInv /\ SavedInv /\ UnwrittenInv /\ TodoInv /\ SendInv /\ WireInv)'
  <2>1. CASE BeginSubmit(w, c)
      BY <2>1 DEF BeginSubmit, LockInv, InsertInv, SavedInv, UnwrittenInv, TodoInv, SendInv, WireInv, TypeOK, CidInv, Begin, Goto, brokerVars
  <2>2. CASE BeginCancel(w, c)
    <3>1. LockInv' /\ InsertInv' /\ SavedInv' /\ TodoInv' /\ SendInv' /\ WireInv'
        BY <2>2 DEF BeginCancel, LockInv, InsertInv, SavedInv, TodoInv, SendInv, WireInv, TypeOK, CidInv, Begin, HasBrokerId, Visible, Goto, brokerVars
    <3>2. UnwrittenInv'
      <4>1. orders[c] # None
          BY <2>2 DEF BeginCancel, HasBrokerId, Visible, Begin, InsertInv, TypeOK
      <4> QED BY <2>2, <4>1 DEF BeginCancel, UnwrittenInv, TypeOK, Begin, Goto, brokerVars
    <3> QED BY <3>1, <3>2
  <2>3. CASE BeginSync(w, c)
    <3>1. LockInv' /\ InsertInv' /\ SavedInv' /\ TodoInv' /\ SendInv' /\ WireInv'
        BY <2>3 DEF BeginSync, LockInv, InsertInv, SavedInv, TodoInv, SendInv, WireInv, TypeOK, CidInv, Begin, HasBrokerId, Visible, Goto, brokerVars
    <3>2. UnwrittenInv'
      <4>1. orders[c] # None
          BY <2>3 DEF BeginSync, HasBrokerId, Visible, Begin, InsertInv, TypeOK
      <4> QED BY <2>3, <4>1 DEF BeginSync, UnwrittenInv, TypeOK, Begin, Goto, brokerVars
    <3> QED BY <3>1, <3>2
  <2> QED BY <1>1, <2>1, <2>2, <2>3
<1>2. ASSUME NEW w \in Workers, NEW c \in ClientIds, Deliver(w, c)
      PROVE  (LockInv /\ InsertInv /\ SavedInv /\ UnwrittenInv /\ TodoInv /\ SendInv /\ WireInv)'
  <2>1. CASE BrokerCreate(w, c)
      BY <2>1 DEF BrokerCreate, LockInv, InsertInv, SavedInv, UnwrittenInv, TodoInv, SendInv, WireInv, TypeOK, CidInv
  <2>2. CASE BrokerDrop(w, c)
      BY <2>2 DEF BrokerDrop, LockInv, InsertInv, SavedInv, UnwrittenInv, TodoInv, SendInv, WireInv, TypeOK, CidInv, requestVars
  <2> QED BY <1>2, <2>1, <2>2 DEF Deliver
<1>3. ASSUME NEW w \in Workers, BeginRecovery(w)
      PROVE  (LockInv /\ InsertInv /\ SavedInv /\ UnwrittenInv /\ TodoInv /\ SendInv /\ WireInv)'
  <2>1. CASE BeginRecovery(w)
      BY <2>1 DEF BeginRecovery, LockInv, InsertInv, SavedInv, UnwrittenInv, TodoInv, SendInv, WireInv, TypeOK, CidInv, Orphans, Goto, brokerVars
  <2> QED BY <1>3, <2>1
<1>4. ASSUME NEW w \in Workers, Submitting(w)
      PROVE  (LockInv /\ InsertInv /\ SavedInv /\ UnwrittenInv /\ TodoInv /\ SendInv /\ WireInv)'
  <2>1. CASE Refuse(w)
      BY <2>1 DEF Refuse, LockInv, InsertInv, SavedInv, UnwrittenInv, TodoInv, SendInv, WireInv, TypeOK, CidInv, Finish, Goto, brokerVars
  <2>2. CASE Lookup(w)
    <3>1. LockInv' /\ TodoInv' /\ WireInv'
        BY <2>2 DEF Lookup, LockInv, TodoInv, WireInv, TypeOK, CidInv, Finish, Goto, brokerVars
    <3>2. InsertInv'
      <4>1. CASE Visible(Live(w), cid[w]) = None
          BY <2>2, <4>1 DEF Lookup, InsertInv, TypeOK, CidInv, Goto, brokerVars
      <4>2. CASE Visible(Live(w), cid[w]) # None
          BY <2>2, <4>2 DEF Lookup, InsertInv, TypeOK, CidInv, Finish, Goto, brokerVars
      <4> QED BY <4>1, <4>2
    <3>3. SavedInv'
      <4> SUFFICES ASSUME NEW v \in Workers, pc'[v] = "saved"
                   PROVE  orders'[cid'[v]] = None /\ pend'[Live(v)][cid'[v]] # None
          BY DEF SavedInv
      <4>1. v # w /\ pc[v] = "saved" /\ cid'[v] = cid[v]
          BY <2>2 DEF Lookup, TypeOK, Finish, Goto
      <4> QED BY <2>2, <4>1, SavedRow DEF Lookup
    <3>4. UnwrittenInv'
      <4>1. \A v \in Workers : v # w => pc'[v] = pc[v] /\ cid'[v] = cid[v]
          BY <2>2 DEF Lookup, TypeOK, Finish, Goto
      <4>2. cid'[w] = None \/ (cid'[w] = cid[w] /\ pc'[w] = "save")
          BY <2>2 DEF Lookup, TypeOK, Finish, Goto
      <4> QED BY <2>2, <4>1, <4>2 DEF Lookup, UnwrittenInv, brokerVars
    <3>5. SendInv'
      <4>1. CASE Visible(Live(w), cid[w]) = None
          BY <2>2, <4>1 DEF Lookup, SendInv, TypeOK, CidInv, Goto, brokerVars
      <4>2. CASE Visible(Live(w), cid[w]) # None
          BY <2>2, <4>2 DEF Lookup, SendInv, TypeOK, CidInv, Finish, Goto, brokerVars
      <4> QED BY <4>1, <4>2
    <3> QED BY <3>1, <3>2, <3>3, <3>4, <3>5
  <2>3. CASE SaveOrder(w)
    <3>1. LockInv' /\ InsertInv' /\ UnwrittenInv' /\ TodoInv' /\ SendInv' /\ WireInv'
        BY <2>3 DEF SaveOrder, LockInv, InsertInv, UnwrittenInv, TodoInv, SendInv, WireInv, TypeOK, CidInv, Unlocked, Goto, brokerVars
    <3>2. SavedInv'
      <4> SUFFICES ASSUME NEW v \in Workers, pc'[v] = "saved"
                   PROVE  orders'[cid'[v]] = None /\ pend'[Live(v)][cid'[v]] # None
          BY DEF SavedInv
      <4>1. cid[w] \in ClientIds /\ orders[cid[w]] = None
          BY <2>3 DEF SaveOrder, TypeOK, CidInv
      <4>2. [status |-> "pending", bid |-> FALSE] # None
        <5>1. [status |-> "pending", bid |-> FALSE] \in Rows
            BY DEF Rows, Statuses, OpenStatuses
        <5> QED BY <5>1
      <4>3. CASE v = w
          BY <2>3, <4>1, <4>2, <4>3 DEF SaveOrder, TypeOK
      <4>4. CASE v # w
        <5>1. pc[v] = "saved" /\ cid'[v] = cid[v]
            BY <2>3, <4>4 DEF SaveOrder, TypeOK, Goto
        <5> QED BY <2>3, <4>4, <5>1, SavedRow DEF SaveOrder, TypeOK
      <4> QED BY <4>3, <4>4
    <3> QED BY <3>1, <3>2
  <2>4. CASE SaveDuplicate(w)
    <3>a. \A t \in Sessions, d \in ClientIds :
              pend'[t][d] = IF t = Live(w) THEN None ELSE pend[t][d]
        BY <2>4, RollbackFrame DEF SaveDuplicate
    <3>1. LockInv' /\ InsertInv' /\ UnwrittenInv' /\ TodoInv' /\ SendInv' /\ WireInv'
        BY <2>4, <3>a DEF SaveDuplicate, LockInv, InsertInv, UnwrittenInv, TodoInv, SendInv, WireInv, TypeOK, CidInv, Finish, Goto, brokerVars
    <3>2. SavedInv'
      <4> SUFFICES ASSUME NEW v \in Workers, pc'[v] = "saved"
                   PROVE  orders'[cid'[v]] = None /\ pend'[Live(v)][cid'[v]] # None
          BY DEF SavedInv
      <4>1. v # w /\ pc[v] = "saved" /\ cid'[v] = cid[v]
          BY <2>4 DEF SaveDuplicate, TypeOK, Finish, Goto
      <4> QED BY <2>4, <3>a, <4>1, SavedRow DEF SaveDuplicate
    <3> QED BY <3>1, <3>2
  <2>5. CASE CommitOrder(w)
    <3>a. /\ \A d \in ClientIds : orders'[d] = IF pend[Live(w)][d] # None THEN pend[Live(w)][d] ELSE orders[d]
          /\ \A t \in Sessions, d \in ClientIds :
                pend'[t][d] = IF t = Live(w) THEN None ELSE pend[t][d]
        BY <2>5, CommitFrame DEF CommitOrder
    <3>1. LockInv' /\ InsertInv' /\ TodoInv' /\ WireInv'
        BY <2>5, <3>a DEF CommitOrder, LockInv, InsertInv, TodoInv, WireInv, TypeOK, CidInv, Goto, brokerVars
    <3>2. SavedInv'
      <4> SUFFICES ASSUME NEW v \in Workers, pc'[v] = "saved"
                   PROVE  orders'[cid'[v]] = None /\ pend'[Live(v)][cid'[v]] # None
          BY DEF SavedInv
      <4>1. v # w /\ pc[v] = "saved" /\ cid'[v] = cid[v]
          BY <2>5 DEF CommitOrder, TypeOK, Goto
      <4> QED BY <2>5, <3>a, <4>1, SavedRow
    <3>3. UnwrittenInv'
      <4>1. orders'[cid[w]] # None
          BY <2>5, <3>a, SavedRow DEF CommitOrder
      <4>2. \A d \in ClientIds : orders'[d] = None => orders[d] = None /\ d # cid[w]
          BY <3>a, <4>1
      <4> QED BY <2>5, <4>2 DEF CommitOrder, UnwrittenInv, TypeOK, Goto, brokerVars
    <3>4. SendInv'
      <4>1. cid[w] \in ClientIds /\ orders[cid[w]] = None
          BY <2>5, SavedRow DEF CommitOrder
      <4>2. /\ placed[cid[w]] = 0
            /\ \A v \in Workers :
                  /\ <<v, cid[w]>> \notin wire
                  /\ ~(pc[v] = "submit" /\ cid[v] = cid[w])
          BY <4>1 DEF UnwrittenInv
      <4> QED BY <2>5, <4>2 DEF CommitOrder, SendInv, TypeOK, Goto, brokerVars
    <3> QED BY <3>1, <3>2, <3>3, <3>4
  <2>6. CASE CallSubmit(w)
    <3>1. LockInv' /\ InsertInv' /\ SavedInv' /\ UnwrittenInv' /\ TodoInv' /\ SendInv'
        BY <2>6 DEF CallSubmit, LockInv, InsertInv, SavedInv, UnwrittenInv, TodoInv, SendInv, TypeOK, CidInv, Goto
    <3>2. WireInv'
      <4>1. placed[cid[w]] = 0 /\ \A v \in Workers : <<v, cid[w]>> \notin wire
          BY <2>6 DEF CallSubmit, SendInv
      <4>2. \A v \in Workers, d \in ClientIds :
               <<v, d>> \in wire' <=> <<v, d>> \in wire \/ (v = w /\ d = cid[w])
          BY <2>6 DEF CallSubmit
      <4> QED BY <2>6, <4>1, <4>2 DEF CallSubmit, WireInv
    <3> QED BY <3>1, <3>2
  <2>7. CASE ReceiveAck(w)
      BY <2>7 DEF ReceiveAck, LockInv, InsertInv, SavedInv, UnwrittenInv, TodoInv, SendInv, WireInv, TypeOK, CidInv, Goto, brokerVars
  <2>8. CASE ReceiveError(w)
      BY <2>8 DEF ReceiveError, LockInv, InsertInv, SavedInv, UnwrittenInv, TodoInv, SendInv, WireInv, TypeOK, CidInv, Goto, brokerVars
  <2>9. CASE WriteAck(w)
    <3>a. cid[w] \in ClientIds /\ orders[cid[w]] # None
        BY <2>9, Written DEF WriteAck
    <3>b. /\ reply[w].status \in Statuses /\ reply[w].bid \in BOOLEAN
          /\ UpdateStatus(Live(w), cid[w], reply[w].status, reply[w].bid)
        BY <2>9 DEF WriteAck, TypeOK, ReplyInv, Rows
    <3>c. /\ pend'[Live(w)][cid[w]] # None
          /\ \A t \in Sessions : t # Live(w) => pend'[t][cid[w]] = None
          /\ \A t \in Sessions, d \in ClientIds :
                t # Live(w) \/ d # cid[w] => pend'[t][d] = pend[t][d]
        BY <3>a, <3>b, UpdateFrame, ZenonT(30)
    <3>1. InsertInv' /\ UnwrittenInv' /\ TodoInv' /\ SendInv' /\ WireInv'
        BY <2>9, <3>a, <3>c DEF WriteAck, InsertInv, UnwrittenInv, TodoInv, SendInv, WireInv, TypeOK, CidInv, Goto, brokerVars
    <3>2. LockInv'
      <4> SUFFICES ASSUME NEW s \in Sessions, NEW t \in Sessions, NEW d \in ClientIds,
                          pend'[s][d] # None, pend'[t][d] # None
                   PROVE  s = t
          BY DEF LockInv
      <4>1. CASE d = cid[w]
          BY <3>c, <4>1
      <4>2. CASE d # cid[w]
          BY <3>c, <4>2 DEF LockInv
      <4> QED BY <4>1, <4>2
    <3>3. SavedInv'
      <4> SUFFICES ASSUME NEW v \in Workers, pc'[v] = "saved"
                   PROVE  orders'[cid'[v]] = None /\ pend'[Live(v)][cid'[v]] # None
          BY DEF SavedInv
      <4>1. v # w /\ pc[v] = "saved" /\ cid'[v] = cid[v]
          BY <2>9 DEF WriteAck, TypeOK, Goto
      <4> QED BY <2>9, <3>a, <3>c, <4>1, SavedRow DEF WriteAck
    <3> QED BY <3>1, <3>2, <3>3
  <2>10. CASE CommitAck(w)
    <3>a. /\ \A d \in ClientIds : orders'[d] = IF pend[Live(w)][d] # None THEN pend[Live(w)][d] ELSE orders[d]
          /\ \A t \in Sessions, d \in ClientIds :
                pend'[t][d] = IF t = Live(w) THEN None ELSE pend[t][d]
        BY <2>10, CommitFrame DEF CommitAck
    <3>1. LockInv' /\ InsertInv' /\ UnwrittenInv' /\ TodoInv' /\ SendInv' /\ WireInv'
        BY <2>10, <3>a DEF CommitAck, LockInv, InsertInv, UnwrittenInv, TodoInv, SendInv, WireInv, TypeOK, CidInv, Finish, Goto, brokerVars
    <3>2. SavedInv'
      <4> SUFFICES ASSUME NEW v \in Workers, pc'[v] = "saved"
                   PROVE  orders'[cid'[v]] = None /\ pend'[Live(v)][cid'[v]] # None
          BY DEF SavedInv
      <4>1. v # w /\ pc[v] = "saved" /\ cid'[v] = cid[v]
          BY <2>10 DEF CommitAck, TypeOK, Finish, Goto
      <4> QED BY <2>10, <3>a, <4>1, SavedRow
    <3> QED BY <3>1, <3>2
  <2>11. CASE WriteReject(w)
    <3>a. cid[w] \in ClientIds /\ orders[cid[w]] # None
        BY <2>11, Written DEF WriteReject
    <3>b. "rejected" \in Statuses /\ UpdateStatus(Live(w), cid[w], "rejected", FALSE)
        BY <2>11 DEF WriteReject, TypeOK, ReplyInv, Statuses, TerminalStatuses
    <3>c. /\ pend'[Live(w)][cid[w]] # None
          /\ \A t \in Sessions : t # Live(w) => pend'[t][cid[w]] = None
          /\ \A t \in Sessions, d \in ClientIds :
                t # Live(w) \/ d # cid[w] => pend'[t][d] = pend[t][d]
        BY <3>a, <3>b, UpdateFrame, ZenonT(30)
    <3>1. InsertInv' /\ UnwrittenInv' /\ TodoInv' /\ SendInv' /\ WireInv'
        BY <2>11, <3>a, <3>c DEF WriteReject, InsertInv, UnwrittenInv, TodoInv, SendInv, WireInv, TypeOK, CidInv, Goto, brokerVars
    <3>2. LockInv'
      <4> SUFFICES ASSUME NEW s \in Sessions, NEW t \in Sessions, NEW d \in ClientIds,
                          pend'[s][d] # None, pend'[t][d] # None
                   PROVE  s = t
          BY DEF LockInv
      <4>1. CASE d = cid[w]
          BY <3>c, <4>1
      <4>2. CASE d # cid[w]
          BY <3>c, <4>2 DEF LockInv
      <4> QED BY <4>1, <4>2
    <3>3. SavedInv'
      <4> SUFFICES ASSUME NEW v \in Workers, pc'[v] = "saved"
                   PROVE  orders'[cid'[v]] = None /\ pend'[Live(v)][cid'[v]] # None
          BY DEF SavedInv
      <4>1. v # w /\ pc[v] = "saved" /\ cid'[v] = cid[v]
          BY <2>11 DEF WriteReject, TypeOK, Goto
      <4> QED BY <2>11, <3>a, <3>c, <4>1, SavedRow DEF WriteReject
    <3> QED BY <3>1, <3>2, <3>3
  <2>12. CASE CommitReject(w)
    <3>a. /\ \A d \in ClientIds : orders'[d] = IF pend[Live(w)][d] # None THEN pend[Live(w)][d] ELSE orders[d]
          /\ \A t \in Sessions, d \in ClientIds :
                pend'[t][d] = IF t = Live(w) THEN None ELSE pend[t][d]
        BY <2>12, CommitFrame DEF CommitReject
    <3>1. LockInv' /\ InsertInv' /\ UnwrittenInv' /\ TodoInv' /\ SendInv' /\ WireInv'
        BY <2>12, <3>a DEF CommitReject, LockInv, InsertInv, UnwrittenInv, TodoInv, SendInv, WireInv, TypeOK, CidInv, Finish, Goto, brokerVars
    <3>2. SavedInv'
      <4> SUFFICES ASSUME NEW v \in Workers, pc'[v] = "saved"
                   PROVE  orders'[cid'[v]] = None /\ pend'[Live(v)][cid'[v]] # None
          BY DEF SavedInv
      <4>1. v # w /\ pc[v] = "saved" /\ cid'[v] = cid[v]
          BY <2>12 DEF CommitReject, TypeOK, Finish, Goto
      <4> QED BY <2>12, <3>a, <4>1, SavedRow
    <3> QED BY <3>1, <3>2
  <2> QED BY <1>4, <2>1, <2>2, <2>3, <2>4, <2>5, <2>6, <2>7, <2>8, <2>9, <2>10, <2>11, <2>12 DEF Submitting
<1>5. ASSUME NEW w \in Workers, CancellingOrSyncing(w)
      PROVE  (LockInv /\ InsertInv /\ SavedInv /\ UnwrittenInv /\ TodoInv /\ SendInv /\ WireInv)'
  <2>1. CASE CallCancel(w)
      BY <2>1 DEF CallCancel, LockInv, InsertInv, SavedInv, UnwrittenInv, TodoInv, SendInv, WireInv, TypeOK, CidInv, Goto, brokerVars
  <2>2. CASE WriteCancel(w)
    <3>a. cid[w] \in ClientIds /\ orders[cid[w]] # None
        BY <2>2, Written DEF WriteCancel
    <3>b. reply[w].status \in Statuses /\ UpdateStatus(Live(w), cid[w], reply[w].status, FALSE)
        BY <2>2 DEF WriteCancel, TypeOK, ReplyInv, Rows
    <3>c. /\ pend'[Live(w)][cid[w]] # None
          /\ \A t \in Sessions : t # Live(w) => pend'[t][cid[w]] = None
          /\ \A t \in Sessions, d \in ClientIds :
                t # Live(w) \/ d # cid[w] => pend'[t][d] = pend[t][d]
        BY <3>a, <3>b, UpdateFrame, ZenonT(30)
    <3>1. InsertInv' /\ UnwrittenInv' /\ TodoInv' /\ SendInv' /\ WireInv'
        BY <2>2, <3>a, <3>c DEF WriteCancel, InsertInv, UnwrittenInv, TodoInv, SendInv, WireInv, TypeOK, CidInv, Goto, brokerVars
    <3>2. LockInv'
      <4> SUFFICES ASSUME NEW s \in Sessions, NEW t \in Sessions, NEW d \in ClientIds,
                          pend'[s][d] # None, pend'[t][d] # None
                   PROVE  s = t
          BY DEF LockInv
      <4>1. CASE d = cid[w]
          BY <3>c, <4>1
      <4>2. CASE d # cid[w]
          BY <3>c, <4>2 DEF LockInv
      <4> QED BY <4>1, <4>2
    <3>3. SavedInv'
      <4> SUFFICES ASSUME NEW v \in Workers, pc'[v] = "saved"
                   PROVE  orders'[cid'[v]] = None /\ pend'[Live(v)][cid'[v]] # None
          BY DEF SavedInv
      <4>1. v # w /\ pc[v] = "saved" /\ cid'[v] = cid[v]
          BY <2>2 DEF WriteCancel, TypeOK, Goto
      <4> QED BY <2>2, <3>a, <3>c, <4>1, SavedRow DEF WriteCancel
    <3> QED BY <3>1, <3>2, <3>3
  <2>3. CASE CommitCancel(w)
    <3>a. /\ \A d \in ClientIds : orders'[d] = IF pend[Live(w)][d] # None THEN pend[Live(w)][d] ELSE orders[d]
          /\ \A t \in Sessions, d \in ClientIds :
                pend'[t][d] = IF t = Live(w) THEN None ELSE pend[t][d]
        BY <2>3, CommitFrame DEF CommitCancel
    <3>1. LockInv' /\ InsertInv' /\ UnwrittenInv' /\ TodoInv' /\ SendInv' /\ WireInv'
        BY <2>3, <3>a DEF CommitCancel, LockInv, InsertInv, UnwrittenInv, TodoInv, SendInv, WireInv, TypeOK, CidInv, Finish, Goto, brokerVars
    <3>2. SavedInv'
      <4> SUFFICES ASSUME NEW v \in Workers, pc'[v] = "saved"
                   PROVE  orders'[cid'[v]] = None /\ pend'[Live(v)][cid'[v]] # None
          BY DEF SavedInv
      <4>1. v # w /\ pc[v] = "saved" /\ cid'[v] = cid[v]
          BY <2>3 DEF CommitCancel, TypeOK, Finish, Goto
      <4> QED BY <2>3, <3>a, <4>1, SavedRow
    <3> QED BY <3>1, <3>2
  <2>4. CASE CallSync(w)
      BY <2>4 DEF CallSync, LockInv, InsertInv, SavedInv, UnwrittenInv, TodoInv, SendInv, WireInv, TypeOK, CidInv, Goto, brokerVars
  <2>5. CASE WriteSync(w)
    <3>a. cid[w] \in ClientIds /\ orders[cid[w]] # None
        BY <2>5, Written DEF WriteSync
    <3>b. reply[w].status \in Statuses /\ UpdateStatus(Live(w), cid[w], reply[w].status, FALSE)
        BY <2>5 DEF WriteSync, TypeOK, ReplyInv, Rows
    <3>c. /\ pend'[Live(w)][cid[w]] # None
          /\ \A t \in Sessions : t # Live(w) => pend'[t][cid[w]] = None
          /\ \A t \in Sessions, d \in ClientIds :
                t # Live(w) \/ d # cid[w] => pend'[t][d] = pend[t][d]
        BY <3>a, <3>b, UpdateFrame, ZenonT(30)
    <3>1. InsertInv' /\ UnwrittenInv' /\ TodoInv' /\ SendInv' /\ WireInv'
        BY <2>5, <3>a, <3>c DEF WriteSync, InsertInv, UnwrittenInv, TodoInv, SendInv, WireInv, TypeOK, CidInv, Finish, Goto, brokerVars
    <3>2. LockInv'
      <4> SUFFICES ASSUME NEW s \in Sessions, NEW t \in Sessions, NEW d \in ClientIds,
                          pend'[s][d] # None, pend'[t][d] # None
                   PROVE  s = t
          BY DEF LockInv
      <4>1. CASE d = cid[w]
          BY <3>c, <4>1
      <4>2. CASE d # cid[w]
          BY <3>c, <4>2 DEF LockInv
      <4> QED BY <4>1, <4>2
    <3>3. SavedInv'
      <4> SUFFICES ASSUME NEW v \in Workers, pc'[v] = "saved"
                   PROVE  orders'[cid'[v]] = None /\ pend'[Live(v)][cid'[v]] # None
          BY DEF SavedInv
      <4>1. v # w /\ pc[v] = "saved" /\ cid'[v] = cid[v]
          BY <2>5 DEF WriteSync, TypeOK, Finish, Goto
      <4> QED BY <2>5, <3>a, <3>c, <4>1, SavedRow DEF WriteSync
    <3> QED BY <3>1, <3>2, <3>3
  <2>6. CASE CallFails(w)
      BY <2>6 DEF CallFails, LockInv, InsertInv, SavedInv, UnwrittenInv, TodoInv, SendInv, WireInv, TypeOK, CidInv, Finish, Goto, brokerVars
  <2> QED BY <1>5, <2>1, <2>2, <2>3, <2>4, <2>5, <2>6 DEF CancellingOrSyncing
<1>6. ASSUME NEW w \in Workers, Recovering(w)
      PROVE  (LockInv /\ InsertInv /\ SavedInv /\ UnwrittenInv /\ TodoInv /\ SendInv /\ WireInv)'
  <2>1. ASSUME NEW c \in ClientIds, RecoverPending(w, c)
        PROVE  (LockInv /\ InsertInv /\ SavedInv /\ UnwrittenInv /\ TodoInv /\ SendInv /\ WireInv)'
    <3>1. LockInv' /\ InsertInv' /\ SavedInv' /\ TodoInv' /\ SendInv' /\ WireInv'
        BY <2>1 DEF RecoverPending, LockInv, InsertInv, SavedInv, TodoInv, SendInv, WireInv, TypeOK, CidInv, Goto, brokerVars
    <3>2. UnwrittenInv'
      <4>1. orders[<<c, "pending">>[1]] # None
          BY <2>1 DEF RecoverPending, TodoInv
      <4>2. orders[c] # None
          BY <4>1
      <4> QED BY <2>1, <4>2 DEF RecoverPending, UnwrittenInv, TypeOK, Goto, brokerVars
    <3> QED BY <3>1, <3>2
  <2>2. ASSUME NEW c \in ClientIds, RecoverPartialFill(w, c)
        PROVE  (LockInv /\ InsertInv /\ SavedInv /\ UnwrittenInv /\ TodoInv /\ SendInv /\ WireInv)'
    <3>1. LockInv' /\ InsertInv' /\ SavedInv' /\ TodoInv' /\ SendInv' /\ WireInv'
        BY <2>2 DEF RecoverPartialFill, LockInv, InsertInv, SavedInv, TodoInv, SendInv, WireInv, TypeOK, CidInv, Goto, brokerVars
    <3>2. UnwrittenInv'
      <4>1. orders[<<c, "partial_fill">>[1]] # None
          BY <2>2 DEF RecoverPartialFill, TodoInv
      <4>2. orders[c] # None
          BY <4>1
      <4> QED BY <2>2, <4>2 DEF RecoverPartialFill, UnwrittenInv, TypeOK, Goto, brokerVars
    <3> QED BY <3>1, <3>2
  <2>3. CASE RecoverSkip(w)
      BY <2>3 DEF RecoverSkip, LockInv, InsertInv, SavedInv, UnwrittenInv, TodoInv, SendInv, WireInv, TypeOK, CidInv, brokerVars
  <2>4. CASE RecoverWrite(w)
    <3>a. cid[w] \in ClientIds /\ orders[cid[w]] # None
        BY <2>4, Written DEF RecoverWrite
    <3>b. /\ reply[w].status \in Statuses /\ reply[w].bid \in BOOLEAN
          /\ UpdateStatus(Rec(w), cid[w], reply[w].status, reply[w].bid)
        BY <2>4 DEF RecoverWrite, TypeOK, ReplyInv, Rows
    <3>c. /\ pend'[Rec(w)][cid[w]] # None
          /\ \A t \in Sessions : t # Rec(w) => pend'[t][cid[w]] = None
          /\ \A t \in Sessions, d \in ClientIds :
                t # Rec(w) \/ d # cid[w] => pend'[t][d] = pend[t][d]
        BY <3>a, <3>b, UpdateFrame, ZenonT(30)
    <3>1. InsertInv' /\ UnwrittenInv' /\ TodoInv' /\ SendInv' /\ WireInv'
        BY <2>4, <3>a, <3>c DEF RecoverWrite, InsertInv, UnwrittenInv, TodoInv, SendInv, WireInv, TypeOK, CidInv, Goto, brokerVars
    <3>2. LockInv'
      <4> SUFFICES ASSUME NEW s \in Sessions, NEW t \in Sessions, NEW d \in ClientIds,
                          pend'[s][d] # None, pend'[t][d] # None
                   PROVE  s = t
          BY DEF LockInv
      <4>1. CASE d = cid[w]
          BY <3>c, <4>1
      <4>2. CASE d # cid[w]
          BY <3>c, <4>2 DEF LockInv
      <4> QED BY <4>1, <4>2
    <3>3. SavedInv'
      <4> SUFFICES ASSUME NEW v \in Workers, pc'[v] = "saved"
                   PROVE  orders'[cid'[v]] = None /\ pend'[Live(v)][cid'[v]] # None
          BY DEF SavedInv
      <4>1. v # w /\ pc[v] = "saved" /\ cid'[v] = cid[v]
          BY <2>4 DEF RecoverWrite, TypeOK, Goto
      <4> QED BY <2>4, <3>a, <3>c, <4>1, SavedRow DEF RecoverWrite
    <3> QED BY <3>1, <3>2, <3>3
  <2>5. CASE EndRecovery(w)
    <3>a. \A t \in Sessions, d \in ClientIds :
              pend'[t][d] = IF t = Rec(w) THEN None ELSE pend[t][d]
        BY <2>5, RollbackFrame DEF EndRecovery
    <3>1. LockInv' /\ InsertInv' /\ UnwrittenInv' /\ TodoInv' /\ SendInv' /\ WireInv'
        BY <2>5, <3>a DEF EndRecovery, LockInv, InsertInv, UnwrittenInv, TodoInv, SendInv, WireInv, TypeOK, CidInv, Finish, Goto, brokerVars
    <3>2. SavedInv'
      <4> SUFFICES ASSUME NEW v \in Workers, pc'[v] = "saved"
                   PROVE  orders'[cid'[v]] = None /\ pend'[Live(v)][cid'[v]] # None
          BY DEF SavedInv
      <4>1. v # w /\ pc[v] = "saved" /\ cid'[v] = cid[v]
          BY <2>5 DEF EndRecovery, TypeOK, Finish, Goto
      <4> QED BY <2>5, <3>a, <4>1, SavedRow DEF EndRecovery
    <3> QED BY <3>1, <3>2
  <2>6. CASE RecoveryFails(w)
      BY <2>6 DEF RecoveryFails, LockInv, InsertInv, SavedInv, UnwrittenInv, TodoInv, SendInv, WireInv, TypeOK, CidInv, Finish, Goto, brokerVars
  <2> QED BY <1>6, <2>1, <2>2, <2>3, <2>4, <2>5, <2>6 DEF Recovering
<1>7. ASSUME NEW w \in Workers, AbortLive(w) \/ AbortRecovery(w) \/ Crash(w)
      PROVE  (LockInv /\ InsertInv /\ SavedInv /\ UnwrittenInv /\ TodoInv /\ SendInv /\ WireInv)'
  <2>1. CASE AbortLive(w)
    <3>a. \A t \in Sessions, d \in ClientIds :
              pend'[t][d] = IF t = Live(w) THEN None ELSE pend[t][d]
        BY <2>1, RollbackFrame DEF AbortLive
    <3>1. LockInv' /\ InsertInv' /\ UnwrittenInv' /\ TodoInv' /\ SendInv' /\ WireInv'
        BY <2>1, <3>a DEF AbortLive, LockInv, InsertInv, UnwrittenInv, TodoInv, SendInv, WireInv, TypeOK, CidInv, Finish, Goto, brokerVars
    <3>2. SavedInv'
      <4> SUFFICES ASSUME NEW v \in Workers, pc'[v] = "saved"
                   PROVE  orders'[cid'[v]] = None /\ pend'[Live(v)][cid'[v]] # None
          BY DEF SavedInv
      <4>1. v # w /\ pc[v] = "saved" /\ cid'[v] = cid[v]
          BY <2>1 DEF AbortLive, TypeOK, Finish, Goto
      <4> QED BY <2>1, <3>a, <4>1, SavedRow DEF AbortLive
    <3> QED BY <3>1, <3>2
  <2>2. CASE AbortRecovery(w)
    <3>a. \A t \in Sessions, d \in ClientIds :
              pend'[t][d] = IF t = Rec(w) THEN None ELSE pend[t][d]
        BY <2>2, RollbackFrame DEF AbortRecovery
    <3>1. LockInv' /\ InsertInv' /\ UnwrittenInv' /\ TodoInv' /\ SendInv' /\ WireInv'
        BY <2>2, <3>a DEF AbortRecovery, LockInv, InsertInv, UnwrittenInv, TodoInv, SendInv, WireInv, TypeOK, CidInv, Finish, Goto, brokerVars
    <3>2. SavedInv'
      <4> SUFFICES ASSUME NEW v \in Workers, pc'[v] = "saved"
                   PROVE  orders'[cid'[v]] = None /\ pend'[Live(v)][cid'[v]] # None
          BY DEF SavedInv
      <4>1. v # w /\ pc[v] = "saved" /\ cid'[v] = cid[v]
          BY <2>2 DEF AbortRecovery, TypeOK, Finish, Goto
      <4> QED BY <2>2, <3>a, <4>1, SavedRow DEF AbortRecovery
    <3> QED BY <3>1, <3>2
  <2>3. CASE Crash(w)
    <3>a. \A t \in Sessions, d \in ClientIds :
              pend'[t][d] = IF t \in {Live(w), Rec(w)} THEN None ELSE pend[t][d]
        BY <2>3 DEF Crash, NoChanges, TypeOK
    <3>1. LockInv' /\ InsertInv' /\ UnwrittenInv'
        BY <2>3, <3>a DEF Crash, LockInv, InsertInv, UnwrittenInv, TypeOK, CidInv, NoChanges, Finish, Goto, brokerVars
    <3>2. TodoInv' /\ SendInv' /\ WireInv'
        BY <2>3, <3>a DEF Crash, TodoInv, SendInv, WireInv, TypeOK, CidInv, NoChanges, Finish, Goto, brokerVars
    <3>3. SavedInv'
      <4> SUFFICES ASSUME NEW v \in Workers, pc'[v] = "saved"
                   PROVE  orders'[cid'[v]] = None /\ pend'[Live(v)][cid'[v]] # None
          BY DEF SavedInv
      <4>1. v # w /\ pc[v] = "saved" /\ cid'[v] = cid[v]
          BY <2>3 DEF Crash, TypeOK, Finish, Goto
      <4>2. Live(v) \notin {Live(w), Rec(w)} /\ Live(v) \in Sessions
          BY <4>1
      <4>3. cid[v] \in ClientIds /\ orders[cid[v]] = None /\ pend[Live(v)][cid[v]] # None
          BY <4>1, SavedRow
      <4>4. pend'[Live(v)][cid[v]] = pend[Live(v)][cid[v]]
          BY <3>a, <4>2, <4>3
      <4> QED BY <2>3, <4>1, <4>3, <4>4 DEF Crash
    <3> QED BY <3>1, <3>2, <3>3
  <2> QED BY <1>7, <2>1, <2>2, <2>3
<1>8. ASSUME NEW c \in ClientIds, BrokerAdvance(c)
      PROVE  (LockInv /\ InsertInv /\ SavedInv /\ UnwrittenInv /\ TodoInv /\ SendInv /\ WireInv)'
    BY <1>8 DEF BrokerAdvance, requestVars, TypeOK, LockInv, InsertInv, SavedInv, UnwrittenInv, TodoInv, SendInv, WireInv
<1>9. CASE UNCHANGED vars
    BY <1>9 DEF vars, LockInv, InsertInv, SavedInv, UnwrittenInv, TodoInv, SendInv, WireInv
<1> QED
    BY <1>1, <1>2, <1>3, <1>4, <1>5, <1>6, <1>7, <1>8, <1>9
       DEF Next, Proceed, DbError, StatementTimeout

LEMMA SubmitCorrect == Spec => []SubmitInv
BY SubmitInit, SubmitNext, PTL DEF Spec

\* Whatever the workers, the failures and the interleaving, no order is sent
\* to the broker before its row is committed (submit_live_order, step 5).
THEOREM Persisted == Spec => []PersistedBeforeSubmit
<1>1. SubmitInv => PersistedBeforeSubmit
  <2> SUFFICES ASSUME SubmitInv, NEW c \in ClientIds, orders[c] = None
               PROVE  ~(placed[c] > 0) /\ \A w \in Workers : <<w, c>> \notin wire
      BY DEF PersistedBeforeSubmit
  <2> QED BY DEF SubmitInv, UnwrittenInv
<1> QED BY SubmitCorrect, <1>1, PTL

\* A client_order_id has at most one order at the broker, however often and by
\* however many workers it is submitted.
THEOREM OneBrokerOrder == Spec => []AtMostOneBrokerOrder
<1>1. SubmitInv => AtMostOneBrokerOrder
    BY DEF SubmitInv, WireInv, AtMostOneBrokerOrder
<1> QED BY SubmitCorrect, <1>1, PTL

-----------------------------------------------------------------------------
(* What the table says of the broker *)

\* placed counts what the broker has.
PlacedInv == \A c \in ClientIds : placed[c] > 0 <=> broker[c] # None

\* A request that has asked nobody, or was refused, holds no answer.
QuietInv ==
    \A w \in Workers :
        pc[w] \in {"idle", "lookup", "save", "saved", "submit", "nack", "nacked",
                   "cancel", "sync", "recover"} => reply[w] = None

\* A request that will write a broker_order_id is about an order that has one.
AnswerInv ==
    \A w \in Workers :
        pc[w] \in {"waiting", "ack"} /\ reply[w] # None => placed[cid[w]] > 0

\* An answer, however old, is not ahead of the broker; only a recovery may guess.
ReplyBehindInv ==
    \A w \in Workers : reply[w] # None /\ pc[w] # "write_rec" =>
        Ledger!Behind(reply[w].status, broker[cid[w]])

\* What a row may say: its broker_order_id exists, its status is not ahead.
Truthful(row, c) ==
    /\ row.bid => placed[c] > 0
    /\ Ledger!Behind(row.status, broker[c])

NewRow == [status |-> "pending", bid |-> FALSE]

\* Rows are truthful, be they committed or flushed by a live session; a flushed
\* row is new, or has the id of the row it will replace.
RowInv ==
    /\ \A c \in ClientIds : orders[c] # None => Truthful(orders[c], c)
    /\ \A w \in Workers, c \in ClientIds : pend[Live(w)][c] # None =>
          /\ Truthful(pend[Live(w)][c], c)
          /\ orders[c] # None /\ orders[c].bid => pend[Live(w)][c].bid
          /\ orders[c] = None => pend[Live(w)][c] = NewRow

\* A submission about to answer with an id holds a row with it, then leaves it.
AckInv ==
    /\ \A w \in Workers : pc[w] = "acked" /\ reply[w].bid =>
          pend[Live(w)][cid[w]] # None /\ pend[Live(w)][cid[w]].bid
    /\ AckedHasBrokerId

RecordInv ==
    SubmitInv /\ PlacedInv /\ QuietInv /\ AnswerInv /\ ReplyBehindInv /\ RowInv /\ AckInv

LEMMA RecordInit == Init => RecordInv
<1> SUFFICES ASSUME Init PROVE PlacedInv /\ QuietInv /\ AnswerInv /\ ReplyBehindInv /\ RowInv /\ AckInv
    BY SubmitInit DEF RecordInv
<1>1. PlacedInv /\ QuietInv /\ AnswerInv
    BY NoneAssumption DEF Init, PlacedInv, QuietInv, AnswerInv, Statuses, OpenStatuses
<1>2. ReplyBehindInv
    BY DEF Init, ReplyBehindInv
<1>3. RowInv
    BY SessionFacts DEF Init, RowInv, NoChanges
<1>4. AckInv
    BY DEF Init, AckInv, AckedHasBrokerId
<1> QED BY <1>1, <1>2, <1>3, <1>4

\* The steps that change what the broker has.
LEMMA BrokerFrame ==
    [Next]_vars =>
        \/ UNCHANGED <<broker, placed>>
        \/ \E w \in Workers : CallCancel(w) \/ CallFails(w)
        \/ \E w \in Workers, c \in ClientIds : BrokerCreate(w, c)
        \/ \E c \in ClientIds : BrokerAdvance(c)
<1> SUFFICES ASSUME [Next]_vars PROVE
        \/ UNCHANGED <<broker, placed>>
        \/ \E w \in Workers : CallCancel(w) \/ CallFails(w)
        \/ \E w \in Workers, c \in ClientIds : BrokerCreate(w, c)
        \/ \E c \in ClientIds : BrokerAdvance(c)
    OBVIOUS
<1> USE DEF brokerVars
<1>1. ASSUME NEW w \in Workers, NEW c \in ClientIds, BeginSubmit(w, c) \/ BeginCancel(w, c) \/ BeginSync(w, c)
      PROVE  UNCHANGED <<broker, placed>>
    BY <1>1 DEF BeginSubmit, BeginCancel, BeginSync, Begin
<1>2. ASSUME NEW w \in Workers, BeginRecovery(w) \/ DbError(w) \/ StatementTimeout(w) \/ Crash(w)
      PROVE  UNCHANGED <<broker, placed>>
    BY <1>2 DEF BeginRecovery, DbError, StatementTimeout, AbortLive, AbortRecovery, Crash
<1>3. ASSUME NEW w \in Workers, Submitting(w)
      PROVE  UNCHANGED <<broker, placed>>
    BY <1>3 DEF Submitting, Refuse, Lookup, SaveOrder, SaveDuplicate, CommitOrder, CallSubmit,
                ReceiveAck, ReceiveError, WriteAck, CommitAck, WriteReject, CommitReject
<1>4. ASSUME NEW w \in Workers, WriteCancel(w) \/ CommitCancel(w) \/ CallSync(w) \/ WriteSync(w)
      PROVE  UNCHANGED <<broker, placed>>
    BY <1>4 DEF WriteCancel, CommitCancel, CallSync, WriteSync
<1>5. ASSUME NEW w \in Workers, Recovering(w)
      PROVE  UNCHANGED <<broker, placed>>
    BY <1>5 DEF Recovering, RecoverPending, RecoverPartialFill, RecoverSkip, RecoverWrite,
                EndRecovery, RecoveryFails
<1>6. ASSUME NEW w \in Workers, NEW c \in ClientIds, BrokerDrop(w, c)
      PROVE  UNCHANGED <<broker, placed>>
    BY <1>6 DEF BrokerDrop
<1>7. CASE UNCHANGED vars
    BY <1>7 DEF vars
<1> QED
    BY <1>1, <1>2, <1>3, <1>4, <1>5, <1>6, <1>7
       DEF Next, Proceed, CancellingOrSyncing, Deliver

\* What the broker did is not undone: an order once placed stays placed, and
\* what was true of it, or is, is not ahead of it later.
LEMMA BrokerStep ==
    ASSUME RecordInv, [Next]_vars
    PROVE  /\ PlacedInv'
           /\ \A c \in ClientIds :
                 /\ placed[c] > 0 => placed'[c] > 0
                 /\ \A status : Ledger!Behind(status, broker[c]) => Ledger!Behind(status, broker'[c])
<1> USE NoneAssumption
        DEF RecordInv, SubmitInv, TypeInv, TypeOK, PlacedInv, Statuses, OpenStatuses,
            TerminalStatuses, Ledger!Behind
<1>1. CASE UNCHANGED <<broker, placed>>
    BY <1>1
<1>2. ASSUME NEW w \in Workers, CallCancel(w) \/ CallFails(w)
      PROVE  /\ PlacedInv'
             /\ \A c \in ClientIds :
                   /\ placed[c] > 0 => placed'[c] > 0
                   /\ \A status : Ledger!Behind(status, broker[c]) => Ledger!Behind(status, broker'[c])
    BY <1>2 DEF CallCancel, CallFails
<1>3. ASSUME NEW w \in Workers, NEW c \in ClientIds, BrokerCreate(w, c)
      PROVE  /\ PlacedInv'
             /\ \A d \in ClientIds :
                   /\ placed[d] > 0 => placed'[d] > 0
                   /\ \A status : Ledger!Behind(status, broker[d]) => Ledger!Behind(status, broker'[d])
  <2>1. placed[c] = 0 /\ broker[c] = None
      BY <1>3 DEF BrokerCreate, WireInv
  <2>2. \A status, m : Ledger!Behind(status, None) => Ledger!Behind(status, m)
      OBVIOUS
  <2>3. PICK m \in Statuses : broker' = [broker EXCEPT ![c] = m]
      BY <1>3 DEF BrokerCreate, Rows
  <2>4. PlacedInv' /\ \A d \in ClientIds : placed[d] > 0 => placed'[d] > 0
      BY <1>3, <2>1, <2>3 DEF BrokerCreate
  <2>5. \A d \in ClientIds : \A status :
           Ledger!Behind(status, broker[d]) => Ledger!Behind(status, broker'[d])
    <3> TAKE d \in ClientIds
    <3>1. CASE d = c
        BY <2>1, <2>2, <2>3, <3>1
    <3>2. CASE d # c
        BY <2>3, <3>2
    <3> QED BY <3>1, <3>2
  <2> QED BY <2>4, <2>5
<1>4. ASSUME NEW c \in ClientIds, BrokerAdvance(c)
      PROVE  /\ PlacedInv'
             /\ \A d \in ClientIds :
                   /\ placed[d] > 0 => placed'[d] > 0
                   /\ \A status : Ledger!Behind(status, broker[d]) => Ledger!Behind(status, broker'[d])
    BY <1>4 DEF BrokerAdvance
<1> QED BY <1>1, <1>2, <1>3, <1>4, BrokerFrame

\* How a step changes rows: a live session overwrites one with an answer of the
\* broker ...
Overwrite(w, c, status, bid) ==
    /\ UpdateStatus(Live(w), c, status, bid)
    /\ UNCHANGED orders
    /\ orders[c] # None
    /\ bid => placed[c] > 0
    /\ Ledger!Behind(status, broker[c])

\* ... or drops what it flushed, or a recovery writes, which nobody will publish.
Discard ==
    /\ UNCHANGED orders
    /\ \A w \in Workers, c \in ClientIds : pend'[Live(w)][c] \in {pend[Live(w)][c], None}

LEMMA DiscardFacts ==
    ASSUME TypeOK, NEW w \in Workers,
           \/ Rollback(Live(w))
           \/ Rollback(Rec(w))
           \/ pend' = [pend EXCEPT ![Live(w)] = NoChanges, ![Rec(w)] = NoChanges]
           \/ \E c \in ClientIds, status \in Statuses, bid \in BOOLEAN :
                 UpdateStatus(Rec(w), c, status, bid),
           UNCHANGED orders
    PROVE  Discard
<1>1. CASE \E c \in ClientIds, status \in Statuses, bid \in BOOLEAN :
              UpdateStatus(Rec(w), c, status, bid)
    BY <1>1, SessionFacts DEF TypeOK, Discard, UpdateStatus
<1>2. CASE Rollback(Live(w)) \/ Rollback(Rec(w))
    BY <1>2, SessionFacts, RollbackFrame DEF Discard
<1>3. CASE pend' = [pend EXCEPT ![Live(w)] = NoChanges, ![Rec(w)] = NoChanges]
    BY <1>3, SessionFacts DEF TypeOK, Discard, NoChanges
<1> QED BY <1>1, <1>2, <1>3

LEMMA TableStep ==
    ASSUME RecordInv, [Next]_vars
    PROVE  \/ UNCHANGED <<orders, pend>>
           \/ \E w \in Workers, c \in ClientIds, status \in Statuses, bid \in BOOLEAN :
                 Overwrite(w, c, status, bid)
           \/ \E w \in Workers : SaveOrder(w) \/ Commit(Live(w))
           \/ Discard
<1> DEFINE Goal == \/ UNCHANGED <<orders, pend>>
                   \/ \E w \in Workers, c \in ClientIds, status \in Statuses, bid \in BOOLEAN :
                         Overwrite(w, c, status, bid)
                   \/ \E w \in Workers : SaveOrder(w) \/ Commit(Live(w))
                   \/ Discard
<1> SUFFICES Goal
    OBVIOUS
<1>t. TypeOK /\ SubmitInv
    BY DEF RecordInv, SubmitInv, TypeInv
<1>o. ASSUME NEW w \in Workers, NEW c \in ClientIds, NEW status \in Statuses,
             NEW bid \in BOOLEAN, Overwrite(w, c, status, bid)
      PROVE  Goal
    BY <1>o
<1>c. ASSUME NEW w \in Workers, Commit(Live(w)) PROVE Goal
    BY <1>c
<1> HIDE DEF Goal
<1>u. UNCHANGED <<orders, pend>> => Goal
    BY DEF Goal
<1>d. Discard => Goal
    BY DEF Goal
<1>s. ASSUME NEW w \in Workers, SaveOrder(w) PROVE Goal
    BY <1>s DEF Goal
<1>1. ASSUME NEW w \in Workers, NEW c \in ClientIds,
             \/ BeginSubmit(w, c) \/ BeginCancel(w, c) \/ BeginSync(w, c)
             \/ Deliver(w, c) \/ RecoverPending(w, c) \/ RecoverPartialFill(w, c)
      PROVE  Goal
    BY <1>1, <1>u DEF BeginSubmit, BeginCancel, BeginSync, Begin, Deliver, BrokerCreate,
                      BrokerDrop, RecoverPending, RecoverPartialFill
<1>2. ASSUME NEW w \in Workers,
             \/ Refuse(w) \/ Lookup(w) \/ CallSubmit(w) \/ ReceiveAck(w) \/ ReceiveError(w)
             \/ CallCancel(w) \/ CallSync(w) \/ CallFails(w)
             \/ BeginRecovery(w) \/ RecoverSkip(w) \/ RecoveryFails(w)
      PROVE  Goal
    BY <1>2, <1>u DEF Refuse, Lookup, CallSubmit, ReceiveAck, ReceiveError, CallCancel,
                      CallSync, CallFails, BeginRecovery, RecoverSkip, RecoveryFails
<1>3. ASSUME NEW w \in Workers, CommitOrder(w) \/ CommitAck(w) \/ CommitReject(w) \/ CommitCancel(w)
      PROVE  Goal
    BY <1>3, <1>c DEF CommitOrder, CommitAck, CommitReject, CommitCancel
<1>4. ASSUME NEW w \in Workers,
             SaveDuplicate(w) \/ AbortLive(w) \/ AbortRecovery(w) \/ Crash(w) \/ EndRecovery(w)
      PROVE  Goal
    BY <1>4, <1>d, <1>t, DiscardFacts
       DEF SaveDuplicate, AbortLive, AbortRecovery, Crash, EndRecovery
<1>5. ASSUME NEW w \in Workers, RecoverWrite(w) PROVE Goal
  <2>1. cid[w] \in ClientIds
      BY <1>5, <1>t, Written DEF RecoverWrite
  <2>2. reply[w].status \in Statuses /\ reply[w].bid \in BOOLEAN
      BY <1>5, <1>t DEF SubmitInv, TypeInv, TypeOK, ReplyInv, Rows, RecoverWrite
  <2>3. UpdateStatus(Rec(w), cid[w], reply[w].status, reply[w].bid) /\ UNCHANGED orders
      BY <1>5 DEF RecoverWrite
  <2> QED BY <1>d, <1>t, <2>1, <2>2, <2>3, DiscardFacts
<1>6. ASSUME NEW w \in Workers, WriteAck(w) PROVE Goal
  <2>1. cid[w] \in ClientIds /\ orders[cid[w]] # None
      BY <1>6, <1>t, Written DEF WriteAck
  <2>2. /\ reply[w].status \in Statuses /\ reply[w].bid \in BOOLEAN
        /\ placed[cid[w]] > 0 /\ Ledger!Behind(reply[w].status, broker[cid[w]])
      BY <1>6 DEF RecordInv, SubmitInv, TypeInv, TypeOK, ReplyInv, AnswerInv, ReplyBehindInv, Rows, WriteAck
  <2>3. Overwrite(w, cid[w], reply[w].status, reply[w].bid)
      BY <1>6, <2>1, <2>2 DEF Overwrite, WriteAck
  <2> QED BY <2>1, <2>2, <2>3, <1>o
<1>7. ASSUME NEW w \in Workers, WriteReject(w) PROVE Goal
  <2>1. cid[w] \in ClientIds /\ orders[cid[w]] # None
      BY <1>7, <1>t, Written DEF WriteReject
  <2>2. "rejected" \in Statuses /\ Ledger!Behind("rejected", broker[cid[w]])
      BY DEF Statuses, TerminalStatuses, Ledger!Behind
  <2>3. Overwrite(w, cid[w], "rejected", FALSE)
      BY <1>7, <2>1, <2>2 DEF Overwrite, WriteReject
  <2> QED BY <2>1, <2>2, <2>3, <1>o
<1>8. ASSUME NEW w \in Workers, WriteCancel(w) \/ WriteSync(w) PROVE Goal
  <2>1. cid[w] \in ClientIds /\ orders[cid[w]] # None
      BY <1>8, <1>t, Written DEF WriteCancel, WriteSync
  <2>2. reply[w].status \in Statuses /\ Ledger!Behind(reply[w].status, broker[cid[w]])
      BY <1>8 DEF RecordInv, SubmitInv, TypeInv, TypeOK, ReplyInv, ReplyBehindInv, Rows, WriteCancel, WriteSync
  <2>3. Overwrite(w, cid[w], reply[w].status, FALSE)
      BY <1>8, <2>1, <2>2 DEF Overwrite, WriteCancel, WriteSync
  <2> QED BY <2>1, <2>2, <2>3, <1>o
<1>9. ASSUME NEW c \in ClientIds, BrokerAdvance(c) PROVE Goal
    BY <1>9, <1>u DEF BrokerAdvance
<1>10. CASE UNCHANGED vars
    BY <1>10, <1>u DEF vars
<1> QED
    BY <1>1, <1>2, <1>3, <1>4, <1>5, <1>6, <1>7, <1>8, <1>9, <1>10, <1>s
       DEF Next, Proceed, DbError, StatementTimeout, Submitting, CancellingOrSyncing, Recovering

\* Every write keeps every row truthful, and the id of every row.
LEMMA RowNext == RecordInv /\ [Next]_vars => RowInv'
<1> SUFFICES ASSUME RecordInv, [Next]_vars PROVE RowInv'
    OBVIOUS
<1>t. TypeOK /\ SubmitInv /\ RowInv
    BY DEF RecordInv, SubmitInv, TypeInv
<1>b. \A c \in ClientIds : /\ placed[c] > 0 => placed'[c] > 0
                           /\ \A status : Ledger!Behind(status, broker[c]) => Ledger!Behind(status, broker'[c])
    BY BrokerStep
<1>1. CASE UNCHANGED <<orders, pend>>
    BY <1>1, <1>b, <1>t DEF RowInv, Truthful
<1>2. ASSUME NEW w \in Workers, NEW c \in ClientIds, NEW status \in Statuses,
             NEW bid \in BOOLEAN, Overwrite(w, c, status, bid)
      PROVE  RowInv'
  <2> DEFINE row == [status |-> status, bid |-> Visible(Live(w), c).bid \/ bid]
  <2>1. /\ pend'[Live(w)][c] = row
        /\ \A t \in Sessions, d \in ClientIds :
              t # Live(w) \/ d # c => pend'[t][d] = pend[t][d]
      BY <1>2, <1>t, SessionFacts DEF Overwrite, UpdateStatus, TypeOK
  <2>2. Visible(Live(w), c) # None /\ Truthful(Visible(Live(w), c), c) /\ (orders[c].bid => Visible(Live(w), c).bid)
      BY <1>2, <1>t DEF Overwrite, Visible, RowInv
  <2>3. Truthful(row, c) /\ (orders[c].bid => row.bid)
      BY <1>2, <2>2 DEF Truthful, Overwrite
  <2> HIDE DEF row
  <2>4. UNCHANGED orders
      BY <1>2 DEF Overwrite
  <2>5. ASSUME NEW v \in Workers, NEW d \in ClientIds, pend'[Live(v)][d] # None
        PROVE  /\ pend'[Live(v)][d].bid => placed'[d] > 0
               /\ Ledger!Behind(pend'[Live(v)][d].status, broker'[d])
               /\ orders'[d] # None /\ orders'[d].bid => pend'[Live(v)][d].bid
               /\ orders'[d] = None => pend'[Live(v)][d] = NewRow
    <3>1. CASE v = w /\ d = c
        BY <3>1, <1>2, <1>b, <2>1, <2>3, <2>4 DEF Overwrite, Truthful
    <3>2. CASE ~(v = w /\ d = c)
      <4>1. pend'[Live(v)][d] = pend[Live(v)][d] /\ pend[Live(v)][d] # None
          BY <3>2, <2>1, <2>5, SessionFacts
      <4> QED BY <4>1, <1>b, <1>t, <2>4 DEF RowInv, Truthful
    <3> QED BY <3>1, <3>2
  <2> QED BY <1>b, <1>t, <2>4, <2>5 DEF RowInv, Truthful
<1>3. ASSUME NEW w \in Workers, SaveOrder(w) PROVE RowInv'
  <2>1. cid[w] \in ClientIds /\ orders[cid[w]] = None /\ UNCHANGED orders
      BY <1>3, <1>t DEF SaveOrder, SubmitInv, TypeInv, TypeOK, CidInv
  <2>2. /\ pend'[Live(w)][cid[w]] = NewRow
        /\ \A t \in Sessions, d \in ClientIds :
              t # Live(w) \/ d # cid[w] => pend'[t][d] = pend[t][d]
      BY <1>3, <1>t, <2>1, SessionFacts DEF SaveOrder, TypeOK, NewRow
  <2>3. Truthful(NewRow, cid[w])
      BY DEF Truthful, NewRow, Ledger!Behind
  <2>4. ASSUME NEW v \in Workers, NEW d \in ClientIds, pend'[Live(v)][d] # None
        PROVE  /\ pend'[Live(v)][d].bid => placed'[d] > 0
               /\ Ledger!Behind(pend'[Live(v)][d].status, broker'[d])
               /\ orders'[d] # None /\ orders'[d].bid => pend'[Live(v)][d].bid
               /\ orders'[d] = None => pend'[Live(v)][d] = NewRow
    <3>1. CASE v = w /\ d = cid[w]
        BY <3>1, <1>b, <2>1, <2>2, <2>3 DEF Truthful
    <3>2. CASE ~(v = w /\ d = cid[w])
      <4>1. pend'[Live(v)][d] = pend[Live(v)][d] /\ pend[Live(v)][d] # None
          BY <3>2, <2>2, <2>4, SessionFacts
      <4> QED BY <4>1, <1>b, <1>t, <2>1 DEF RowInv, Truthful
    <3> QED BY <3>1, <3>2
  <2> QED BY <1>b, <1>t, <2>1, <2>4 DEF RowInv, Truthful
<1>4. ASSUME NEW w \in Workers, Commit(Live(w)) PROVE RowInv'
  <2>1. /\ \A d \in ClientIds :
              orders'[d] = IF pend[Live(w)][d] # None THEN pend[Live(w)][d] ELSE orders[d]
        /\ \A t \in Sessions, d \in ClientIds :
              pend'[t][d] = IF t = Live(w) THEN None ELSE pend[t][d]
      BY <1>4, <1>t, CommitFrame, SessionFacts
  <2>2. ASSUME NEW v \in Workers, NEW d \in ClientIds, pend'[Live(v)][d] # None
        PROVE  pend'[Live(v)][d] = pend[Live(v)][d] /\ orders'[d] = orders[d]
      BY <2>1, <2>2, <1>t, SessionFacts DEF SubmitInv, LockInv
  <2>3. \A d \in ClientIds : orders'[d] # None =>
           /\ orders'[d].bid => placed'[d] > 0
           /\ Ledger!Behind(orders'[d].status, broker'[d])
      BY <1>b, <1>t, <2>1 DEF RowInv, Truthful
  <2>4. ASSUME NEW v \in Workers, NEW d \in ClientIds, pend'[Live(v)][d] # None
        PROVE  /\ pend'[Live(v)][d].bid => placed'[d] > 0
               /\ Ledger!Behind(pend'[Live(v)][d].status, broker'[d])
               /\ orders'[d] # None /\ orders'[d].bid => pend'[Live(v)][d].bid
               /\ orders'[d] = None => pend'[Live(v)][d] = NewRow
      BY <2>2, <2>4, <1>b, <1>t DEF RowInv, Truthful
  <2> QED BY <2>3, <2>4 DEF RowInv, Truthful
<1>5. CASE Discard
    BY <1>5, <1>b, <1>t DEF Discard, RowInv, Truthful
<1> QED BY <1>1, <1>2, <1>3, <1>4, <1>5, TableStep

\* No step loses a committed row, nor its broker_order_id.
LEMMA RowsKept ==
    ASSUME RecordInv, [Next]_vars, NEW c \in ClientIds, orders[c] # None
    PROVE  orders'[c] # None /\ (orders[c].bid => orders'[c].bid)
<1>t. TypeOK /\ SubmitInv /\ RowInv
    BY DEF RecordInv, SubmitInv, TypeInv
<1>1. ASSUME NEW w \in Workers, Commit(Live(w))
      PROVE  orders'[c] # None /\ (orders[c].bid => orders'[c].bid)
  <2>1. orders'[c] = IF pend[Live(w)][c] # None THEN pend[Live(w)][c] ELSE orders[c]
      BY <1>1, <1>t, CommitFrame, SessionFacts
  <2> QED BY <2>1, <1>t DEF RowInv
<1>2. CASE UNCHANGED orders
    BY <1>2
<1> QED BY <1>1, <1>2, TableStep DEF Overwrite, SaveOrder, Discard

\* The part of RecordInv that is about requests.
AskInv == QuietInv /\ AnswerInv /\ ReplyBehindInv

LEMMA AskFinish ==
    ASSUME RecordInv, [Next]_vars, NEW w \in Workers, Finish(w)
    PROVE  AskInv'
<1>b. \A c \in ClientIds : /\ placed[c] > 0 => placed'[c] > 0
                           /\ \A status : Ledger!Behind(status, broker[c]) => Ledger!Behind(status, broker'[c])
    BY BrokerStep
<1>c. \A v \in Workers : pc[v] \notin {"idle", "recover"} => cid[v] \in ClientIds
    BY DEF RecordInv, SubmitInv, TypeInv, TypeOK, CidInv
<1>1. QuietInv'
    BY DEF RecordInv, SubmitInv, TypeInv, TypeOK, Finish, Goto, QuietInv
<1>2. AnswerInv'
    BY <1>b, <1>c DEF RecordInv, SubmitInv, TypeInv, TypeOK, Finish, Goto, AnswerInv
<1>3. ReplyBehindInv'
    BY <1>b, <1>c, NoneAssumption
       DEF RecordInv, SubmitInv, TypeInv, TypeOK, Finish, Goto, QuietInv, ReplyBehindInv
<1> QED BY <1>1, <1>2, <1>3 DEF AskInv

LEMMA BehindSelf == \A m \in Statuses : Ledger!Behind(m, m)
BY NoneAssumption DEF Ledger!Behind

LEMMA AskNext == RecordInv /\ [Next]_vars => AskInv'
<1> SUFFICES ASSUME RecordInv, [Next]_vars PROVE AskInv'
    OBVIOUS
<1>b. \A c \in ClientIds : /\ placed[c] > 0 => placed'[c] > 0
                           /\ \A status : Ledger!Behind(status, broker[c]) => Ledger!Behind(status, broker'[c])
    BY BrokerStep
<1>c. \A v \in Workers : pc[v] \notin {"idle", "recover"} => cid[v] \in ClientIds
    BY DEF RecordInv, SubmitInv, TypeInv, TypeOK, CidInv
<1>d. \A v \in Workers : reply[v] # None => cid[v] \in ClientIds /\ pc[v] \notin {"idle", "recover"}
    BY <1>c DEF RecordInv, QuietInv
<1> USE NoneAssumption DEF RecordInv, SubmitInv, TypeInv, TypeOK, AskInv, QuietInv, AnswerInv,
                           ReplyBehindInv, Statuses, OpenStatuses, TerminalStatuses
<1>1. ASSUME NEW w \in Workers, NEW c \in ClientIds, NEW step \in {"lookup", "cancel", "sync"},
             NEW request, Begin(w, request, c, step)
      PROVE  AskInv'
    BY <1>1, <1>b, <1>c, <1>d DEF Begin, Goto
<1>2. ASSUME NEW w \in Workers, NEW c \in ClientIds,
             BeginSubmit(w, c) \/ BeginCancel(w, c) \/ BeginSync(w, c)
      PROVE  AskInv'
    BY <1>1, <1>2 DEF BeginSubmit, BeginCancel, BeginSync
<1>3. ASSUME NEW w \in Workers,
             \/ Refuse(w) \/ SaveDuplicate(w) \/ CommitAck(w) \/ CommitReject(w)
             \/ CommitCancel(w) \/ WriteSync(w) \/ CallFails(w) \/ EndRecovery(w)
             \/ RecoveryFails(w) \/ AbortLive(w) \/ AbortRecovery(w) \/ Crash(w)
      PROVE  AskInv'
    BY <1>3, AskFinish DEF Refuse, SaveDuplicate, CommitAck, CommitReject, CommitCancel, WriteSync,
                           CallFails, EndRecovery, RecoveryFails, AbortLive, AbortRecovery, Crash
<1>4. ASSUME NEW w \in Workers,
             UNCHANGED <<cid, reply, todo>>,
             \/ pc[w] = "lookup" /\ Goto(w, "save")
             \/ pc[w] = "save" /\ Goto(w, "saved")
             \/ pc[w] = "saved" /\ Goto(w, "submit")
             \/ pc[w] = "submit" /\ Goto(w, "waiting")
             \/ pc[w] = "waiting" /\ Goto(w, "ack")
             \/ pc[w] = "ack" /\ Goto(w, "acked")
             \/ pc[w] = "nack" /\ Goto(w, "nacked")
             \/ pc[w] = "write_cancel" /\ Goto(w, "cancelled")
      PROVE  AskInv'
    BY <1>4, <1>b, <1>c, <1>d DEF Goto
<1>5. ASSUME NEW w \in Workers,
             \/ Lookup(w) \/ SaveOrder(w) \/ CommitOrder(w) \/ CallSubmit(w) \/ ReceiveAck(w)
             \/ WriteAck(w) \/ WriteReject(w) \/ WriteCancel(w)
      PROVE  AskInv'
    BY <1>5, <1>4, AskFinish DEF Lookup, SaveOrder, CommitOrder, CallSubmit, ReceiveAck, WriteAck,
                                 WriteReject, WriteCancel
<1>6. ASSUME NEW w \in Workers, ReceiveError(w) PROVE AskInv'
    BY <1>6, <1>b, <1>c, <1>d DEF ReceiveError, Goto
<1>7. ASSUME NEW w \in Workers, CallCancel(w) PROVE AskInv'
    BY <1>7, <1>b, <1>c, <1>d, BehindSelf DEF CallCancel, Goto
<1>8. ASSUME NEW w \in Workers, CallSync(w) PROVE AskInv'
    BY <1>8, <1>b, <1>c, <1>d, BehindSelf DEF CallSync, Goto, brokerVars
<1>9. ASSUME NEW w \in Workers, BeginRecovery(w) PROVE AskInv'
    BY <1>9, <1>b, <1>c, <1>d DEF BeginRecovery, Goto, brokerVars
<1>10. ASSUME NEW w \in Workers, NEW c \in ClientIds, RecoverPending(w, c) PROVE AskInv'
    BY <1>10, <1>b, <1>c, <1>d DEF RecoverPending, Goto, brokerVars
<1>11. ASSUME NEW w \in Workers, NEW c \in ClientIds, RecoverPartialFill(w, c) PROVE AskInv'
    BY <1>11, <1>b, <1>c, <1>d DEF RecoverPartialFill, Goto, brokerVars
<1>12. ASSUME NEW w \in Workers, RecoverSkip(w) PROVE AskInv'
    BY <1>12, <1>b, <1>c, <1>d DEF RecoverSkip, brokerVars
<1>13. ASSUME NEW w \in Workers, RecoverWrite(w) PROVE AskInv'
    BY <1>13, <1>b, <1>c, <1>d DEF RecoverWrite, Goto, brokerVars
<1>14. ASSUME NEW w \in Workers, NEW c \in ClientIds, BrokerCreate(w, c) PROVE AskInv'
  <2>1. PICK answer \in Rows :
           /\ broker' = [broker EXCEPT ![c] = answer.status]
           /\ reply' = IF pc[w] = "waiting" /\ cid[w] = c
                       THEN [reply EXCEPT ![w] = answer] ELSE reply
      BY <1>14 DEF BrokerCreate
  <2>0. Ledger!Behind(answer.status, answer.status)
      BY BehindSelf DEF Rows
  <2>2. UNCHANGED <<pc, cid, todo>> /\ placed' = [placed EXCEPT ![c] = @ + 1]
      BY <1>14 DEF BrokerCreate
  <2>3. CASE pc[w] = "waiting" /\ cid[w] = c
      BY <1>b, <1>c, <1>d, <2>0, <2>1, <2>2, <2>3
  <2>4. CASE ~(pc[w] = "waiting" /\ cid[w] = c)
      BY <1>b, <1>c, <1>d, <2>1, <2>2, <2>4
  <2> QED BY <2>3, <2>4
<1>15. CASE UNCHANGED requestVars
    BY <1>15, <1>b, <1>c, <1>d DEF requestVars
<1>16. ASSUME NEW w \in Workers, NEW c \in ClientIds, BrokerDrop(w, c)
       PROVE  AskInv'
    BY <1>15, <1>16 DEF BrokerDrop
<1>17. ASSUME NEW c \in ClientIds, BrokerAdvance(c) PROVE AskInv'
    BY <1>15, <1>17 DEF BrokerAdvance
<1>18. CASE UNCHANGED vars
    BY <1>15, <1>18 DEF vars, requestVars
<1> HIDE DEF AskInv
<1> QED
    BY <1>2, <1>3, <1>5, <1>6, <1>7, <1>8, <1>9, <1>10, <1>11, <1>12, <1>13, <1>14, <1>16,
       <1>17, <1>18
       DEF Next, Proceed, DbError, StatementTimeout, Submitting, CancellingOrSyncing, Recovering, Deliver

\* A step that leaves a request between its acknowledgement and the commit
\* leaves the row it has flushed alone.
LEMMA AckHeld ==
    ASSUME RecordInv, [Next]_vars, NEW v \in Workers, pc'[v] = "acked"
    PROVE  \/ WriteAck(v)
           \/ /\ pc[v] = "acked" /\ cid'[v] = cid[v] /\ reply'[v] = reply[v]
              /\ \A c \in ClientIds : pend'[Live(v)][c] = pend[Live(v)][c]
<1> DEFINE Kept == /\ pc[v] = "acked" /\ cid'[v] = cid[v] /\ reply'[v] = reply[v]
                   /\ \A c \in ClientIds : pend'[Live(v)][c] = pend[Live(v)][c]
<1> SUFFICES WriteAck(v) \/ Kept
    OBVIOUS
<1>t. TypeOK /\ TypeInv /\ SubmitInv
    BY DEF RecordInv, SubmitInv, TypeInv
<1> USE SessionFacts, <1>t DEF TypeOK, Goto
<1>1. ASSUME NEW w \in Workers, Finish(w)
      PROVE  v # w /\ pc[v] = "acked" /\ cid'[v] = cid[v] /\ reply'[v] = reply[v]
    BY <1>1 DEF Finish
<1>2. ASSUME NEW w \in Workers, NEW c \in ClientIds, BeginSubmit(w, c) \/ BeginCancel(w, c) \/ BeginSync(w, c)
      PROVE  Kept
    BY <1>2 DEF BeginSubmit, BeginCancel, BeginSync, Begin
<1>3. ASSUME NEW w \in Workers,
             Refuse(w) \/ Lookup(w) \/ CallFails(w) \/ RecoveryFails(w)
      PROVE  Kept
    BY <1>1, <1>3 DEF Refuse, Lookup, CallFails, RecoveryFails
<1>4. ASSUME NEW w \in Workers,
             \/ CallSubmit(w) \/ ReceiveAck(w) \/ ReceiveError(w) \/ CallCancel(w) \/ CallSync(w)
             \/ BeginRecovery(w) \/ RecoverSkip(w)
      PROVE  Kept
    BY <1>4 DEF CallSubmit, ReceiveAck, ReceiveError, CallCancel, CallSync, BeginRecovery, RecoverSkip
<1>5. ASSUME NEW w \in Workers, NEW c \in ClientIds,
             RecoverPending(w, c) \/ RecoverPartialFill(w, c) \/ BrokerCreate(w, c) \/ BrokerDrop(w, c)
      PROVE  Kept
    BY <1>5 DEF RecoverPending, RecoverPartialFill, BrokerCreate, BrokerDrop, requestVars
<1>6. ASSUME NEW w \in Workers, SaveOrder(w) PROVE Kept
    BY <1>6 DEF SaveOrder
<1>7. ASSUME NEW w \in Workers, NEW s \in {Live(w), Rec(w)}, v # w, Commit(s) \/ Rollback(s)
      PROVE  \A c \in ClientIds : pend'[Live(v)][c] = pend[Live(v)][c]
    BY <1>7, CommitFrame, RollbackFrame
<1>8. ASSUME NEW w \in Workers,
             SaveDuplicate(w) \/ AbortLive(w) \/ AbortRecovery(w) \/ CommitAck(w) \/ CommitReject(w)
             \/ CommitCancel(w) \/ EndRecovery(w)
      PROVE  Kept
    BY <1>1, <1>7, <1>8 DEF SaveDuplicate, AbortLive, AbortRecovery, CommitAck, CommitReject,
                            CommitCancel, EndRecovery
<1>9. ASSUME NEW w \in Workers, CommitOrder(w) PROVE Kept
    BY <1>7, <1>9 DEF CommitOrder
<1>10. ASSUME NEW w \in Workers, Crash(w) PROVE Kept
    BY <1>1, <1>10 DEF Crash
<1>11. ASSUME NEW w \in Workers, NEW s \in {Live(w), Rec(w)}, NEW c, NEW status, NEW bid, v # w,
              UpdateStatus(s, c, status, bid)
       PROVE  \A d \in ClientIds : pend'[Live(v)][d] = pend[Live(v)][d]
    BY <1>11 DEF UpdateStatus
<1>12. ASSUME NEW w \in Workers, WriteReject(w) \/ WriteCancel(w) \/ RecoverWrite(w) \/ WriteSync(w) PROVE Kept
    BY <1>1, <1>11, <1>12 DEF WriteReject, WriteCancel, RecoverWrite, WriteSync
<1>13. ASSUME NEW w \in Workers, WriteAck(w) PROVE WriteAck(v) \/ Kept
    BY <1>11, <1>13 DEF WriteAck
<1>14. ASSUME NEW c \in ClientIds, BrokerAdvance(c) PROVE Kept
    BY <1>14 DEF BrokerAdvance, requestVars
<1>15. CASE UNCHANGED vars
    BY <1>15 DEF vars
<1> HIDE DEF Kept
<1> QED
    BY <1>2, <1>3, <1>4, <1>5, <1>6, <1>8, <1>9, <1>10, <1>12, <1>13, <1>14, <1>15
       DEF Next, Proceed, DbError, StatementTimeout, Submitting, CancellingOrSyncing, Recovering, Deliver

\* Only the commit of an acknowledgement gives the caller an id.
LEMMA AckedFrame == [Next]_vars => UNCHANGED acked \/ \E w \in Workers : CommitAck(w)
<1> SUFFICES ASSUME [Next]_vars PROVE UNCHANGED acked \/ \E w \in Workers : CommitAck(w)
    OBVIOUS
<1>1. ASSUME NEW w \in Workers, NEW c \in ClientIds,
             BeginSubmit(w, c) \/ BeginCancel(w, c) \/ BeginSync(w, c) \/ Deliver(w, c)
      PROVE  UNCHANGED acked
    BY <1>1 DEF BeginSubmit, BeginCancel, BeginSync, Begin, Deliver, BrokerCreate, BrokerDrop
<1>2. ASSUME NEW w \in Workers, BeginRecovery(w) \/ DbError(w) \/ StatementTimeout(w) \/ Crash(w)
      PROVE  UNCHANGED acked
    BY <1>2 DEF BeginRecovery, DbError, StatementTimeout, AbortLive, AbortRecovery, Crash
<1>3. ASSUME NEW w \in Workers, Submitting(w) PROVE UNCHANGED acked \/ CommitAck(w)
    BY <1>3 DEF Submitting, Refuse, Lookup, SaveOrder, SaveDuplicate, CommitOrder, CallSubmit,
                ReceiveAck, ReceiveError, WriteAck, WriteReject, CommitReject
<1>4. ASSUME NEW w \in Workers, CancellingOrSyncing(w) PROVE UNCHANGED acked
    BY <1>4 DEF CancellingOrSyncing, CallCancel, WriteCancel, CommitCancel, CallSync, WriteSync, CallFails
<1>5. ASSUME NEW w \in Workers, Recovering(w) PROVE UNCHANGED acked
    BY <1>5 DEF Recovering, RecoverPending, RecoverPartialFill, RecoverSkip, RecoverWrite,
                EndRecovery, RecoveryFails
<1>6. ASSUME NEW c \in ClientIds, BrokerAdvance(c) PROVE UNCHANGED acked
    BY <1>6 DEF BrokerAdvance
<1>7. CASE UNCHANGED vars
    BY <1>7 DEF vars
<1> QED BY <1>1, <1>2, <1>3, <1>4, <1>5, <1>6, <1>7 DEF Next, Proceed

LEMMA AckNext == RecordInv /\ [Next]_vars => AckInv'
<1> SUFFICES ASSUME RecordInv, [Next]_vars PROVE AckInv'
    OBVIOUS
<1>t. TypeOK /\ SubmitInv /\ AckInv
    BY DEF RecordInv, SubmitInv, TypeInv
<1>1. ASSUME NEW v \in Workers, pc'[v] = "acked", reply'[v].bid
      PROVE  pend'[Live(v)][cid'[v]] # None /\ pend'[Live(v)][cid'[v]].bid
  <2>1. CASE WriteAck(v)
    <3>1. cid[v] \in ClientIds /\ cid'[v] = cid[v] /\ reply[v].bid
        BY <1>1, <2>1, <1>t, Written DEF WriteAck
    <3> DEFINE row == [status |-> reply[v].status, bid |-> Visible(Live(v), cid[v]).bid \/ reply[v].bid]
    <3>2. pend'[Live(v)][cid[v]] = row
        BY <2>1, <3>1, <1>t, SessionFacts DEF WriteAck, UpdateStatus, TypeOK
    <3>3. row.bid /\ row # None
      <4>1. row \in Rows
          BY <2>1, <1>t DEF WriteAck, Rows, SubmitInv, TypeInv, TypeOK, ReplyInv
      <4> QED BY <3>1, <4>1, NoneAssumption
    <3> HIDE DEF row
    <3> QED BY <3>1, <3>2, <3>3
  <2>2. CASE /\ pc[v] = "acked" /\ cid'[v] = cid[v] /\ reply'[v] = reply[v]
             /\ \A c \in ClientIds : pend'[Live(v)][c] = pend[Live(v)][c]
    <3>1. cid[v] \in ClientIds
        BY <2>2, <1>t DEF SubmitInv, TypeInv, TypeOK, CidInv
    <3> QED BY <1>1, <2>2, <3>1, <1>t DEF AckInv
  <2> QED BY <1>1, <2>1, <2>2, AckHeld
<1>2. AckedHasBrokerId'
  <2>1. \A c \in acked : orders'[c] # None /\ orders'[c].bid
      BY <1>t, RowsKept DEF AckInv, AckedHasBrokerId, TypeOK
  <2>2. CASE UNCHANGED acked
      BY <2>1, <2>2 DEF AckedHasBrokerId
  <2>3. ASSUME NEW w \in Workers, CommitAck(w), reply[w].bid PROVE AckedHasBrokerId'
    <3>1. cid[w] \in ClientIds /\ pend[Live(w)][cid[w]] # None /\ pend[Live(w)][cid[w]].bid
        BY <2>3, <1>t DEF CommitAck, AckInv, SubmitInv, TypeInv, TypeOK, CidInv
    <3>2. orders'[cid[w]] = pend[Live(w)][cid[w]]
        BY <2>3, <3>1, <1>t, CommitFrame, SessionFacts DEF CommitAck
    <3> QED BY <2>1, <2>3, <3>1, <3>2 DEF CommitAck, AckedHasBrokerId
  <2> QED BY <2>2, <2>3, AckedFrame DEF CommitAck
<1> QED BY <1>1, <1>2 DEF AckInv

LEMMA RecordNext == RecordInv /\ [Next]_vars => RecordInv'
<1> SUFFICES ASSUME RecordInv, [Next]_vars PROVE RecordInv'
    OBVIOUS
<1>1. SubmitInv'
    BY SubmitNext DEF RecordInv
<1>2. PlacedInv'
    BY BrokerStep
<1> QED BY <1>1, <1>2, AskNext, RowNext, AckNext DEF RecordInv, AskInv

LEMMA RecordCorrect == Spec => []RecordInv
BY RecordInit, RecordNext, PTL DEF Spec

\* Whatever any worker writes later, a caller that was given a broker_order_id
\* (step 7 of submit_live_order) finds it in the order's row.
THEOREM AckedKeepsBrokerId == Spec => []AckedHasBrokerId
BY RecordCorrect, PTL DEF RecordInv, AckInv

\* However stale the answers that workers write, no row carries the id of an
\* order that does not exist, and none says filled, cancelled or expired of an
\* order that is not (update_status and its callers).
THEOREM TableIsTruthful == Spec => []NoFalseClaim
<1>1. RecordInv => NoFalseClaim
    BY DEF RecordInv, RowInv, Truthful, Ledger!Behind, NoFalseClaim
<1> QED BY <1>1, RecordCorrect, PTL

\* Every step of every worker and every failure keeps committed rows and their
\* broker_order_ids (update_status assigns the id only when one is given).
THEOREM IdentityKept == Spec => RowsKeepIdentity
<1>1. RecordInv /\ [Next]_vars =>
        [\A c \in ClientIds : orders[c] # None =>
            orders'[c] # None /\ (orders[c].bid => orders'[c].bid)]_vars
    BY RowsKept
<1> QED BY <1>1, RecordCorrect, PTL DEF Spec, RowsKeepIdentity

-----------------------------------------------------------------------------
(* Refinement of the abstract table *)

\* A step that leaves the broker alone publishes rows, or nothing.
LEMMA PublishRefines ==
    ASSUME RecordInv, RecordInv', [Next]_vars, UNCHANGED <<broker, placed>>
    PROVE  Ledger!Publish
<1>t. TypeOK /\ SubmitInv /\ RowInv
    BY DEF RecordInv, SubmitInv, TypeInv
<1>1. ASSUME NEW c \in ClientIds
      PROVE  orders'[c] = orders[c] \/ Ledger!Entered(c) \/ Ledger!Followed(c)
  <2>1. ASSUME NEW w \in Workers, Commit(Live(w))
        PROVE  orders'[c] = orders[c] \/ Ledger!Entered(c) \/ Ledger!Followed(c)
    <3>1. orders'[c] = IF pend[Live(w)][c] # None THEN pend[Live(w)][c] ELSE orders[c]
        BY <2>1, <1>t, CommitFrame, SessionFacts
    <3>2. CASE pend[Live(w)][c] # None /\ orders[c] = None
      <4>1. placed[c] = 0 /\ broker[c] = None
          BY <3>2 DEF RecordInv, SubmitInv, UnwrittenInv, PlacedInv
      <4> QED BY <3>1, <3>2, <4>1, <1>t DEF RowInv, NewRow, Ledger!Entered
    <3>3. CASE pend[Live(w)][c] # None /\ orders[c] # None
      <4>1. pend[Live(w)][c].bid => broker[c] # None
          BY <3>3 DEF RecordInv, RowInv, Truthful, PlacedInv
      <4> QED BY <3>1, <3>3, <4>1, <1>t DEF RowInv, Truthful, Ledger!Followed
    <3> QED BY <3>1, <3>2, <3>3
  <2> QED BY <2>1, TableStep DEF Overwrite, SaveOrder, Discard
<1>2. \/ UNCHANGED acked
      \/ \E c \in ClientIds : /\ acked' = acked \cup {c}
                              /\ orders'[c] # None /\ orders'[c].bid
  <2>1. ASSUME NEW w \in Workers, CommitAck(w)
        PROVE  UNCHANGED acked \/ (cid[w] \in ClientIds /\ acked' = acked \cup {cid[w]})
      BY <2>1, <1>t DEF CommitAck, SubmitInv, TypeInv, TypeOK, CidInv
  <2> QED BY <2>1, AckedFrame DEF RecordInv, AckInv, AckedHasBrokerId
<1> QED BY <1>1, <1>2 DEF Ledger!Publish

LEMMA LedgerInit == Init => Ledger!Init
BY DEF Init, NoChanges, Ledger!Init

LEMMA LedgerStep ==
    RecordInv /\ RecordInv' /\ [Next]_vars => [Ledger!Next]_(Ledger!vars)
<1> SUFFICES ASSUME RecordInv, RecordInv', [Next]_vars
             PROVE  Ledger!Next \/ UNCHANGED <<orders, broker, acked>>
    BY DEF Ledger!vars
<1>t. TypeOK /\ SubmitInv /\ PlacedInv
    BY DEF RecordInv, SubmitInv, TypeInv
<1>1. CASE UNCHANGED <<broker, placed>>
    BY <1>1, PublishRefines DEF Ledger!Next
<1>2. ASSUME NEW w \in Workers, CallCancel(w) \/ CallFails(w)
      PROVE  Ledger!Next \/ UNCHANGED <<orders, broker, acked>>
  <2>1. UNCHANGED <<orders, acked>>
      BY <1>2 DEF CallCancel, CallFails
  <2>2. cid[w] \in ClientIds
      BY <1>2, <1>t DEF CallCancel, CallFails, SubmitInv, TypeInv, TypeOK, CidInv
  <2>3. CASE UNCHANGED broker
      BY <2>1, <2>3
  <2>4. ASSUME NEW status \in Statuses, broker[cid[w]] \in OpenStatuses,
               broker' = [broker EXCEPT ![cid[w]] = status]
        PROVE  Ledger!Next
    <3>1. Ledger!Progress(cid[w])
        BY <2>1, <2>4 DEF Ledger!Progress, Ledger!Open, Ledger!Closed, Statuses, OpenStatuses,
                          TerminalStatuses
    <3> QED BY <2>2, <3>1 DEF Ledger!Next
  <2>5. "cancelled" \in Statuses
      BY DEF Statuses, TerminalStatuses
  <2> QED BY <1>2, <2>3, <2>4, <2>5 DEF CallCancel, CallFails
<1>3. ASSUME NEW w \in Workers, NEW c \in ClientIds, BrokerCreate(w, c)
      PROVE  Ledger!Next
  <2>1. orders[c] # None /\ placed[c] = 0
      BY <1>3, <1>t DEF BrokerCreate, SubmitInv, UnwrittenInv, WireInv
  <2>2. broker[c] = None /\ UNCHANGED <<orders, acked>>
      BY <1>3, <1>t, <2>1 DEF BrokerCreate, PlacedInv
  <2>3. \E status \in Statuses : broker' = [broker EXCEPT ![c] = status]
      BY <1>3 DEF BrokerCreate, Rows
  <2>4. Ledger!Place(c)
      BY <2>1, <2>2, <2>3 DEF Ledger!Place, Ledger!Open, Ledger!Closed, Statuses, OpenStatuses,
                              TerminalStatuses
  <2> QED BY <2>4 DEF Ledger!Next
<1>4. ASSUME NEW c \in ClientIds, BrokerAdvance(c)
      PROVE  Ledger!Next
  <2>1. Ledger!Progress(c)
      BY <1>4 DEF BrokerAdvance, Ledger!Progress, Ledger!Open, Ledger!Closed, Statuses,
                  OpenStatuses, TerminalStatuses
  <2> QED BY <2>1 DEF Ledger!Next
<1> QED BY <1>1, <1>2, <1>3, <1>4, BrokerFrame

\* Any number of workers with their sessions, retries, crashes, lost answers
\* and recoveries implements the abstract table: every step of the live service,
\* the repository and the recovery is a step of OrderLedger or leaves it alone.
THEOREM LedgerImplemented == Spec => ImplementsLedger
BY RecordCorrect, LedgerInit, LedgerStep, PTL DEF Spec, ImplementsLedger, Ledger!Spec
=============================================================================
