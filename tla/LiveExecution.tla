--------------------------- MODULE LiveExecution ---------------------------
(***************************************************************************)
(* The life of a live order: LiveExecutionService (submit, cancel, sync),  *)
(* OrphanedOrderRecoveryService and SqlOrderRepository, run by several API *)
(* worker processes that share one database and one broker account.        *)
(*                                                                         *)
(* A worker serves one request at a time (the routes are coroutines that   *)
(* call the blocking service), so a step of a worker is a stretch of code  *)
(* between two interactions with the database or the broker.  Each worker  *)
(* keeps one long-lived session for the live service and opens a second    *)
(* one for a recovery.  Rows a session has flushed and not committed are   *)
(* in pend: they are locked, visible to that session only, and lost when   *)
(* the process dies.                                                       *)
(***************************************************************************)
EXTENDS Naturals

CONSTANTS
    Workers,     \* API worker processes
    ClientIds,   \* client_order_ids that callers use
    Requests,    \* the operations callers invoke
    LostReplies, \* may a broker call raise after the broker acted on it?
    None         \* no row, no order, no reply

\* OrderStatus, and its split into open and terminal by the repository.
OpenStatuses == {"pending", "submitted", "partial_fill"}
TerminalStatuses == {"filled", "cancelled", "rejected", "expired"}
Statuses == OpenStatuses \cup TerminalStatuses

\* The columns of an orders row the properties tell apart: bid says whether
\* broker_order_id names an order (it may be NULL or, from Schwab, empty).
Rows == [status : Statuses, bid : BOOLEAN]

Live(w) == <<w, "live">>
Rec(w) == <<w, "rec">>
Sessions == Workers \X {"live", "rec"}

ASSUME NoneAssumption ==
    /\ None \notin Rows
    /\ None \notin Statuses
    /\ None \notin ClientIds
ASSUME RequestsAssumption == Requests \subseteq {"submit", "cancel", "sync", "recover"}
ASSUME SwitchAssumption == LostReplies \in BOOLEAN

VARIABLES
    orders,  \* committed rows of the orders table, by client_order_id (unique)
    pend,    \* rows a session has flushed and not yet committed
    broken,  \* workers whose live session is inactive after a failed flush
    pc,      \* where the worker's request stands
    cid,     \* the order the request is about
    reply,   \* the broker's answer the request holds: a status, and an id or none
    todo,    \* recovery: rows read at its start and not yet processed
    wire,    \* order submissions on their way to the broker
    broker,  \* the broker's order for a client_order_id
    placed,  \* how many orders the broker created for it
    acked    \* orders whose submission was answered with a broker_order_id

vars == <<orders, pend, broken, pc, cid, reply, todo, wire, broker, placed, acked>>
requestVars == <<pc, cid, reply, todo>>
brokerVars == <<wire, broker, placed>>

NoChanges == [c \in ClientIds |-> None]

\* Steps of a request that talk to the database in the live session ...
LiveDbSteps == {"save", "saved", "ack", "acked", "nack", "nacked",
                "write_cancel", "cancelled", "write_sync"}
\* ... and all steps of a request.
Steps == LiveDbSteps \cup {"idle", "lookup", "submit", "waiting", "cancel",
                           "sync", "recover", "write_rec"}

TypeOK ==
    /\ orders \in [ClientIds -> Rows \cup {None}]
    /\ pend \in [Sessions -> [ClientIds -> Rows \cup {None}]]
    /\ broken \in SUBSET Workers
    /\ pc \in [Workers -> Steps]
    /\ cid \in [Workers -> ClientIds \cup {None}]
    /\ reply \in [Workers -> Rows \cup {None}]
    /\ todo \in [Workers -> SUBSET (ClientIds \X OpenStatuses)]
    /\ wire \in SUBSET (Workers \X ClientIds)
    /\ broker \in [ClientIds -> Statuses \cup {None}]
    /\ placed \in [ClientIds -> Nat]
    /\ acked \in SUBSET ClientIds

Init ==
    /\ orders = NoChanges
    /\ pend = [s \in Sessions |-> NoChanges]
    /\ broken = {}
    /\ pc = [w \in Workers |-> "idle"]
    /\ cid = [w \in Workers |-> None]
    /\ reply = [w \in Workers |-> None]
    /\ todo = [w \in Workers |-> {}]
    /\ wire = {}
    /\ broker = [c \in ClientIds |-> None]
    /\ placed = [c \in ClientIds |-> 0]
    /\ acked = {}

-----------------------------------------------------------------------------
(* The database *)

\* What a query of session s finds: its own flushed row before the committed one.
Visible(s, c) == IF pend[s][c] # None THEN pend[s][c] ELSE orders[c]

\* A flush waits while another session holds the row (or the unique key).
Unlocked(s, c) == \A t \in Sessions : t # s => pend[t][c] = None

\* Mutant: the broker_order_id is assigned even when none is given.
UpdateStatusClearsId(s, c, status, bid) ==
    /\ Unlocked(s, c)
    /\ pend' = [pend EXCEPT ![s][c] = [status |-> status, bid |-> bid]]

\* update_status: the status is overwritten whatever it was, broker_order_id
\* only when one is given; flushed, not committed.
UpdateStatus(s, c, status, bid) ==
    /\ Unlocked(s, c)
    /\ pend' = [pend EXCEPT ![s][c] =
                   [status |-> status, bid |-> Visible(s, c).bid \/ bid]]

Commit(s) ==
    /\ orders' = [c \in ClientIds |-> Visible(s, c)]
    /\ pend' = [pend EXCEPT ![s] = NoChanges]

Rollback(s) == pend' = [pend EXCEPT ![s] = NoChanges]

-----------------------------------------------------------------------------
(* Requests *)

Goto(w, step) == pc' = [pc EXCEPT ![w] = step]

\* The request of w returns or raises.
Finish(w) ==
    /\ Goto(w, "idle")
    /\ cid' = [cid EXCEPT ![w] = None]
    /\ reply' = [reply EXCEPT ![w] = None]
    /\ todo' = [todo EXCEPT ![w] = {}]

\* A request is taken up.  On an inactive session the first query of a live
\* request raises, which changes nothing.
Begin(w, request, c, step) ==
    /\ request \in Requests
    /\ pc[w] = "idle"
    /\ w \notin broken
    /\ cid' = [cid EXCEPT ![w] = c]
    /\ Goto(w, step)
    /\ UNCHANGED <<orders, pend, broken, reply, todo, brokerVars, acked>>

-----------------------------------------------------------------------------
(* submit_live_order *)

BeginSubmit(w, c) == Begin(w, "submit", c, "lookup")

\* Steps 0 to 2 and 4 refuse the order (live mode disabled, deployment not
\* executable, paper adapter, kill switch, risk gate): nothing was written.
Refuse(w) ==
    /\ pc[w] \in {"lookup", "save"}
    /\ Finish(w)
    /\ UNCHANGED <<orders, pend, broken, brokerVars, acked>>

\* Step 3: a known client_order_id returns the existing order.
Lookup(w) ==
    /\ pc[w] = "lookup"
    /\ \/ /\ Visible(Live(w), cid[w]) # None
          /\ Finish(w)
       \/ /\ Visible(Live(w), cid[w]) = None
          /\ Goto(w, "save")
          /\ UNCHANGED <<cid, reply, todo>>
    /\ UNCHANGED <<orders, pend, broken, brokerVars, acked>>

\* Mutant: a new order is stored with the broker's view of it, not pending.
SaveOrderUntyped(w) ==
    /\ pc[w] = "save"
    /\ Unlocked(Live(w), cid[w])
    /\ orders[cid[w]] = None
    /\ pend' = [pend EXCEPT ![Live(w)][cid[w]] = [status |-> reply[w], bid |-> FALSE]]
    /\ Goto(w, "saved")
    /\ UNCHANGED <<orders, broken, cid, reply, todo, brokerVars, acked>>

\* Step 5: the row is inserted as pending.
SaveOrder(w) ==
    /\ pc[w] = "save"
    /\ Unlocked(Live(w), cid[w])
    /\ orders[cid[w]] = None
    /\ pend' = [pend EXCEPT ![Live(w)][cid[w]] = [status |-> "pending", bid |-> FALSE]]
    /\ Goto(w, "saved")
    /\ UNCHANGED <<orders, broken, cid, reply, todo, brokerVars, acked>>

\* Mutant: a duplicate is taken for this caller's own row, and submitted.
SaveDuplicateAdopted(w) ==
    /\ pc[w] = "save"
    /\ Unlocked(Live(w), cid[w])
    /\ orders[cid[w]] # None
    /\ Goto(w, "saved")
    /\ UNCHANGED <<orders, pend, broken, cid, reply, todo, brokerVars, acked>>

\* Step 5 when another worker committed the same client_order_id since the
\* lookup: IntegrityError.  The flush rolls the session back and nobody calls
\* rollback(), so the session stays inactive until the process restarts.
SaveDuplicate(w) ==
    /\ pc[w] = "save"
    /\ Unlocked(Live(w), cid[w])
    /\ orders[cid[w]] # None
    /\ Rollback(Live(w))
    /\ broken' = broken \cup {w}
    /\ Finish(w)
    /\ UNCHANGED <<orders, brokerVars, acked>>

\* Mutant: the row is flushed but not committed before the broker call.
CommitOrderDeferred(w) ==
    /\ pc[w] = "saved"
    /\ Goto(w, "submit")
    /\ UNCHANGED <<orders, pend, broken, cid, reply, todo, brokerVars, acked>>

\* The critical transaction boundary before the broker call.
CommitOrder(w) ==
    /\ pc[w] = "saved"
    /\ Commit(Live(w))
    /\ Goto(w, "submit")
    /\ UNCHANGED <<broken, cid, reply, todo, brokerVars, acked>>

\* Step 6: adapter.submit_order(request).
CallSubmit(w) ==
    /\ pc[w] = "submit"
    /\ wire' = wire \cup {<<w, cid[w]>>}
    /\ Goto(w, "waiting")
    /\ UNCHANGED <<orders, pend, broken, cid, reply, todo, broker, placed, acked>>

ReceiveAck(w) ==
    /\ pc[w] = "waiting"
    /\ reply[w] # None
    /\ Goto(w, "ack")
    /\ UNCHANGED <<orders, pend, broken, cid, reply, todo, brokerVars, acked>>

\* Any exception of the adapter: the broker refused, or (LostReplies) the
\* answer did not arrive in time, whatever the broker did or will still do.
ReceiveError(w) ==
    /\ pc[w] = "waiting"
    /\ LostReplies \/ (reply[w] = None /\ <<w, cid[w]>> \notin wire)
    /\ Goto(w, "nack")
    /\ reply' = [reply EXCEPT ![w] = None]
    /\ UNCHANGED <<orders, pend, broken, cid, todo, brokerVars, acked>>

\* Step 7: the acknowledgement is written, with the broker's id if it has one ...
WriteAck(w) ==
    /\ pc[w] = "ack"
    /\ UpdateStatus(Live(w), cid[w], reply[w].status, reply[w].bid)
    /\ Goto(w, "acked")
    /\ UNCHANGED <<orders, broken, cid, reply, todo, brokerVars, acked>>

\* Mutant: the caller is answered before the acknowledgement is committed.
CommitAckDropped(w) ==
    /\ pc[w] = "acked"
    /\ acked' = IF reply[w].bid THEN acked \cup {cid[w]} ELSE acked
    /\ Finish(w)
    /\ UNCHANGED <<orders, pend, broken, brokerVars>>

\* ... committed, and the caller gets the broker's response.
CommitAck(w) ==
    /\ pc[w] = "acked"
    /\ Commit(Live(w))
    /\ acked' = IF reply[w].bid THEN acked \cup {cid[w]} ELSE acked
    /\ Finish(w)
    /\ UNCHANGED <<broken, brokerVars>>

\* The except branch of step 6: the row becomes rejected ...
WriteReject(w) ==
    /\ pc[w] = "nack"
    /\ UpdateStatus(Live(w), cid[w], "rejected", FALSE)
    /\ Goto(w, "nacked")
    /\ UNCHANGED <<orders, broken, cid, reply, todo, brokerVars, acked>>

\* ... is committed, and ExternalServiceError is raised.
CommitReject(w) ==
    /\ pc[w] = "nacked"
    /\ Commit(Live(w))
    /\ Finish(w)
    /\ UNCHANGED <<broken, brokerVars, acked>>

-----------------------------------------------------------------------------
(* cancel_live_order and sync_order_status *)

\* get_by_broker_order_id finds the row; otherwise NotFoundError, no change.
HasBrokerId(w, c) ==
    /\ Visible(Live(w), c) # None
    /\ Visible(Live(w), c).bid

BeginCancel(w, c) == HasBrokerId(w, c) /\ Begin(w, "cancel", c, "cancel")

\* adapter.cancel_order: an open order is cancelled at once or the request is
\* only noted, and the order is fetched again: it may have gone any other way.
CallCancel(w) ==
    /\ pc[w] = "cancel"
    /\ broker[cid[w]] \in OpenStatuses
    /\ \E status \in Statuses :
          /\ broker' = [broker EXCEPT ![cid[w]] = status]
          /\ reply' = [reply EXCEPT ![w] = [status |-> status, bid |-> FALSE]]
    /\ Goto(w, "write_cancel")
    /\ UNCHANGED <<orders, pend, broken, cid, todo, wire, placed, acked>>

\* Mutant: the row becomes cancelled because the call returned.
WriteCancelAssumed(w) ==
    /\ pc[w] = "write_cancel"
    /\ UpdateStatus(Live(w), cid[w], "cancelled", FALSE)
    /\ Goto(w, "cancelled")
    /\ UNCHANGED <<orders, broken, cid, reply, todo, brokerVars, acked>>

WriteCancel(w) ==
    /\ pc[w] = "write_cancel"
    /\ UpdateStatus(Live(w), cid[w], reply[w].status, FALSE)
    /\ Goto(w, "cancelled")
    /\ UNCHANGED <<orders, broken, cid, reply, todo, brokerVars, acked>>

CommitCancel(w) ==
    /\ pc[w] = "cancelled"
    /\ Commit(Live(w))
    /\ Finish(w)
    /\ UNCHANGED <<broken, brokerVars, acked>>

BeginSync(w, c) == HasBrokerId(w, c) /\ Begin(w, "sync", c, "sync")

\* adapter.get_order, which knows the order (else it raises).
CallSync(w) ==
    /\ pc[w] = "sync"
    /\ broker[cid[w]] # None
    /\ reply' = [reply EXCEPT ![w] = [status |-> broker[cid[w]], bid |-> FALSE]]
    /\ Goto(w, "write_sync")
    /\ UNCHANGED <<orders, pend, broken, cid, todo, brokerVars, acked>>

\* The status is flushed and the request returns: nothing commits it until a
\* later request of this worker does.
WriteSync(w) ==
    /\ pc[w] = "write_sync"
    /\ UpdateStatus(Live(w), cid[w], reply[w].status, FALSE)
    /\ Finish(w)
    /\ UNCHANGED <<orders, broken, brokerVars, acked>>

\* cancel_order or get_order raises (an order that is no longer open, a
\* communication failure after which the cancellation may have happened).
CallFails(w) ==
    /\ pc[w] \in {"cancel", "sync"}
    /\ \/ UNCHANGED broker
       \/ /\ LostReplies
          /\ pc[w] = "cancel"
          /\ broker[cid[w]] \in OpenStatuses
          /\ broker' = [broker EXCEPT ![cid[w]] = "cancelled"]
    /\ Finish(w)
    /\ UNCHANGED <<orders, pend, broken, wire, placed, acked>>

-----------------------------------------------------------------------------
(* recover_orphaned_orders, in a session of its own *)

\* The open rows it will look at: pending without a broker_order_id, and
\* partial fills with one.
Orphans ==
    {item \in ClientIds \X OpenStatuses :
        LET row == orders[item[1]] IN
        /\ row # None
        /\ row.status = item[2]
        /\ \/ row.status = "pending" /\ ~row.bid
           \/ row.status = "partial_fill" /\ row.bid}

BeginRecovery(w) ==
    /\ "recover" \in Requests
    /\ pc[w] = "idle"
    /\ todo' = [todo EXCEPT ![w] = Orphans]
    /\ Goto(w, "recover")
    /\ UNCHANGED <<orders, pend, broken, cid, reply, brokerVars, acked>>

\* _recover_pending_order asks the broker for its open orders: one that is
\* among them is imported with the id the broker lists, if it lists one; one
\* that is not will be marked expired.
RecoverPending(w, c) ==
    /\ pc[w] = "recover"
    /\ <<c, "pending">> \in todo[w]
    /\ cid' = [cid EXCEPT ![w] = c]
    /\ \E bid \in BOOLEAN :
          reply' = [reply EXCEPT ![w] =
                       IF broker[c] \in OpenStatuses
                       THEN [status |-> broker[c], bid |-> bid]
                       ELSE [status |-> "expired", bid |-> FALSE]]
    /\ todo' = [todo EXCEPT ![w] = @ \ {<<c, "pending">>}]
    /\ Goto(w, "write_rec")
    /\ UNCHANGED <<orders, pend, broken, brokerVars, acked>>

\* _sync_partial_fill_order rewrites the status it read at the start and passes
\* no id.
RecoverPartialFill(w, c) ==
    /\ pc[w] = "recover"
    /\ <<c, "partial_fill">> \in todo[w]
    /\ cid' = [cid EXCEPT ![w] = c]
    /\ reply' = [reply EXCEPT ![w] = [status |-> "partial_fill", bid |-> FALSE]]
    /\ todo' = [todo EXCEPT ![w] = @ \ {<<c, "partial_fill">>}]
    /\ Goto(w, "write_rec")
    /\ UNCHANGED <<orders, pend, broken, brokerVars, acked>>

\* The broker query of an order raises, or returns no fills: skipped.
RecoverSkip(w) ==
    /\ pc[w] = "recover"
    /\ \E item \in todo[w] : todo' = [todo EXCEPT ![w] = @ \ {item}]
    /\ UNCHANGED <<orders, pend, broken, pc, cid, reply, brokerVars, acked>>

RecoverWrite(w) ==
    /\ pc[w] = "write_rec"
    /\ UpdateStatus(Rec(w), cid[w], reply[w].status, reply[w].bid)
    /\ Goto(w, "recover")
    /\ cid' = [cid EXCEPT ![w] = None]
    /\ reply' = [reply EXCEPT ![w] = None]
    /\ UNCHANGED <<orders, broken, todo, brokerVars, acked>>

\* Mutant: a caller that commits what the recovery wrote.
EndRecoveryCommitting(w) ==
    /\ pc[w] = "recover"
    /\ todo[w] = {}
    /\ Commit(Rec(w))
    /\ Finish(w)
    /\ UNCHANGED <<broken, brokerVars, acked>>

\* Neither the service nor its callers in main.py and routes/live.py commit: they
\* close the session, which rolls back all that the recovery wrote.
EndRecovery(w) ==
    /\ pc[w] = "recover"
    /\ todo[w] = {}
    /\ Rollback(Rec(w))
    /\ Finish(w)
    /\ UNCHANGED <<orders, broken, brokerVars, acked>>

\* list_open_orders of step 4 raises before the first order: nothing written.
RecoveryFails(w) ==
    /\ pc[w] = "recover"
    /\ pend[Rec(w)] = NoChanges
    /\ Finish(w)
    /\ UNCHANGED <<orders, pend, broken, brokerVars, acked>>

-----------------------------------------------------------------------------
(* Failures *)

\* A database call of the live session fails: the transaction is gone and the
\* session inactive, the request raises.
AbortLive(w) ==
    /\ pc[w] \in LiveDbSteps
    /\ Rollback(Live(w))
    /\ broken' = broken \cup {w}
    /\ Finish(w)
    /\ UNCHANGED <<orders, brokerVars, acked>>

\* One of a recovery fails: the remaining orders are skipped, the rest is
\* rolled back with the session.
AbortRecovery(w) ==
    /\ pc[w] \in {"recover", "write_rec"}
    /\ Rollback(Rec(w))
    /\ Finish(w)
    /\ UNCHANGED <<orders, broken, brokerVars, acked>>

DbError(w) == AbortLive(w) \/ AbortRecovery(w)

\* Mutant: connections without a statement_timeout wait for the row for ever.
StatementTimeoutUnset(w) == FALSE

\* A flush that waits for a row another session holds is ended by the
\* statement_timeout every connection sets.
StatementTimeout(w) ==
    /\ \/ /\ pc[w] \in {"save", "ack", "nack", "write_cancel", "write_sync"}
          /\ ~Unlocked(Live(w), cid[w])
          /\ AbortLive(w)
       \/ /\ pc[w] = "write_rec"
          /\ ~Unlocked(Rec(w), cid[w])
          /\ AbortRecovery(w)

\* The process dies and is started again with fresh sessions.
Crash(w) ==
    /\ pend' = [pend EXCEPT ![Live(w)] = NoChanges, ![Rec(w)] = NoChanges]
    /\ broken' = broken \ {w}
    /\ Finish(w)
    /\ UNCHANGED <<orders, brokerVars, acked>>

-----------------------------------------------------------------------------
(* The broker (external) *)

\* A submission arrives and the order may be queued, working, filled, refused or
\* over by the time it is reported.  The worker gets the answer if it is still
\* waiting; the answer may lack the id.
BrokerCreate(w, c) ==
    /\ <<w, c>> \in wire
    /\ wire' = wire \ {<<w, c>>}
    /\ \E answer \in Rows :
          /\ broker' = [broker EXCEPT ![c] = answer.status]
          /\ reply' = IF pc[w] = "waiting" /\ cid[w] = c
                      THEN [reply EXCEPT ![w] = answer] ELSE reply
    /\ placed' = [placed EXCEPT ![c] = @ + 1]
    /\ UNCHANGED <<orders, pend, broken, pc, cid, todo, acked>>

\* A submission is refused, or never arrives.
BrokerDrop(w, c) ==
    /\ <<w, c>> \in wire
    /\ wire' = wire \ {<<w, c>>}
    /\ UNCHANGED <<orders, pend, broken, requestVars, broker, placed, acked>>

\* An open order moves on: it fills, in part or completely, is cancelled, refused
\* or expires, or is reported with another open status (a partial fill whose
\* cancellation is pending maps to submitted, a suspended order to pending).
BrokerAdvance(c) ==
    /\ broker[c] \in OpenStatuses
    /\ \E status \in Statuses : broker' = [broker EXCEPT ![c] = status]
    /\ UNCHANGED <<orders, pend, broken, requestVars, wire, placed, acked>>

-----------------------------------------------------------------------------

Submitting(w) ==
    \/ Refuse(w) \/ Lookup(w) \/ SaveOrder(w) \/ SaveDuplicate(w)
    \/ CommitOrder(w) \/ CallSubmit(w) \/ ReceiveAck(w) \/ ReceiveError(w)
    \/ WriteAck(w) \/ CommitAck(w) \/ WriteReject(w) \/ CommitReject(w)

CancellingOrSyncing(w) ==
    \/ CallCancel(w) \/ WriteCancel(w) \/ CommitCancel(w)
    \/ CallSync(w) \/ WriteSync(w) \/ CallFails(w)

Recovering(w) ==
    \/ \E c \in ClientIds : RecoverPending(w, c) \/ RecoverPartialFill(w, c)
    \/ RecoverSkip(w) \/ RecoverWrite(w) \/ EndRecovery(w) \/ RecoveryFails(w)

\* A worker goes on with the request it serves.
Proceed(w) ==
    Submitting(w) \/ CancellingOrSyncing(w) \/ Recovering(w) \/ StatementTimeout(w)

Deliver(w, c) == BrokerCreate(w, c) \/ BrokerDrop(w, c)

Next ==
    \/ \E w \in Workers :
          \/ \E c \in ClientIds :
                BeginSubmit(w, c) \/ BeginCancel(w, c) \/ BeginSync(w, c) \/ Deliver(w, c)
          \/ BeginRecovery(w) \/ Proceed(w) \/ DbError(w) \/ Crash(w)
    \/ \E c \in ClientIds : BrokerAdvance(c)

Spec == Init /\ [][Next]_vars

\* A worker that serves a request goes on with it, and a submission does not
\* stay on the wire for ever.
FairSpec ==
    /\ Spec
    /\ \A w \in Workers : WF_vars(Proceed(w))
    /\ \A w \in Workers, c \in ClientIds : WF_vars(Deliver(w, c))

-----------------------------------------------------------------------------
(* Properties *)

\* No order reaches the broker, nor the wire to it, before its row is durable
\* (step 5 and the commit before step 6 of submit_live_order), whatever crashes.
PersistedBeforeSubmit ==
    \A c \in ClientIds :
        (placed[c] > 0 \/ \E w \in Workers : <<w, c>> \in wire) => orders[c] # None

\* Retries and concurrent submissions of a client_order_id create at most one
\* order at the broker, even one that does not deduplicate: the idempotency
\* check is backed by the unique key, taken before the broker is called.
AtMostOneBrokerOrder == \A c \in ClientIds : placed[c] <= 1

\* A caller of submit_live_order that was given a broker_order_id finds it in the
\* order's row, and no later write of any worker loses it.
AckedHasBrokerId ==
    \A c \in acked : orders[c] # None /\ orders[c].bid

\* The table never claims what the broker did not do: a row with a
\* broker_order_id has an order at the broker, a row that says filled, cancelled
\* or expired has an order that is.
NoFalseClaim ==
    \A c \in ClientIds : orders[c] # None =>
        /\ orders[c].bid => placed[c] > 0
        /\ orders[c].status \in {"filled", "cancelled", "expired"} =>
              broker[c] = orders[c].status

\* A durable row is never lost, and its broker_order_id never cleared.
RowsKeepIdentity ==
    [][\A c \in ClientIds : orders[c] # None =>
          orders'[c] # None /\ (orders[c].bid => orders'[c].bid)]_vars

\* Every request ends: an unanswered broker call, a row locked by a session
\* that syncs and does not commit, two recoveries waiting for each other.
RequestsEnd == \A w \in Workers : pc[w] # "idle" ~> pc[w] = "idle"

Ledger == INSTANCE OrderLedger WITH
    ledger <- orders,
    market <- broker,
    confirmed <- acked

\* The table that workers, retries, crashes and recoveries write, with sessions
\* that publish each other's flushed rows, keeps the promise of OrderLedger:
\* entered first, placed once, never ahead of the broker, never forgetful.
ImplementsLedger == Ledger!Spec

-----------------------------------------------------------------------------
(* A claim of the repository that the code does not keep *)

\* sql_order_repository.py: filled, cancelled, rejected and expired are
\* terminal statuses: a row that has one keeps it.
TerminalIsFinal ==
    [][\A c \in ClientIds :
          orders[c] # None /\ orders[c].status \in TerminalStatuses
          => orders'[c].status = orders[c].status]_vars
=============================================================================
