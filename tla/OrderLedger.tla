---------------------------- MODULE OrderLedger ----------------------------
(***************************************************************************)
(* What the orders table promises about the broker, with no worker,        *)
(* session, request, crash or recovery in it.  A row is entered before its *)
(* order is placed, and an order is placed once.  From then on the row     *)
(* follows the order: it may be behind it, or have been given up as        *)
(* rejected, but it is never ahead of it, and what it knows of the         *)
(* broker's id it does not forget.  A caller is told an id only when the   *)
(* table knows it.                                                         *)
(***************************************************************************)
CONSTANTS ClientIds, None

VARIABLES
    ledger,    \* the row of an order, or None
    market,    \* the order's status at the broker, or None
    confirmed  \* orders whose broker id was given to the caller

vars == <<ledger, market, confirmed>>

Open == {"pending", "submitted", "partial_fill"}
Closed == {"filled", "cancelled", "rejected", "expired"}

\* A row that says status of an order that has m at the broker is not ahead of
\* it.  pending and rejected say nothing of the broker.
Behind(status, m) ==
    /\ status \in {"submitted", "partial_fill"} => m # None
    /\ status \in {"filled", "cancelled", "expired"} => m = status

Init ==
    /\ ledger = [c \in ClientIds |-> None]
    /\ market = [c \in ClientIds |-> None]
    /\ confirmed = {}

Place(c) ==
    /\ ledger[c] # None
    /\ market[c] = None
    /\ \E status \in Open \cup Closed :
          market' = [market EXCEPT ![c] = status]
    /\ UNCHANGED <<ledger, confirmed>>

Progress(c) ==
    /\ market[c] \in Open
    /\ \E status \in Open \cup Closed :
          market' = [market EXCEPT ![c] = status]
    /\ UNCHANGED <<ledger, confirmed>>

Entered(c) ==
    /\ ledger[c] = None
    /\ market[c] = None
    /\ ledger'[c] = [status |-> "pending", bid |-> FALSE]

Followed(c) ==
    /\ ledger[c] # None
    /\ ledger'[c] # None
    /\ ledger[c].bid => ledger'[c].bid
    /\ ledger'[c].bid => market[c] # None
    /\ Behind(ledger'[c].status, market[c])

\* A commit: any number of rows change, and an id may be given to the caller.
Publish ==
    /\ \A c \in ClientIds : ledger'[c] = ledger[c] \/ Entered(c) \/ Followed(c)
    /\ \/ UNCHANGED confirmed
       \/ \E c \in ClientIds :
             /\ confirmed' = confirmed \cup {c}
             /\ ledger'[c] # None /\ ledger'[c].bid
    /\ UNCHANGED market

Next == Publish \/ \E c \in ClientIds : Place(c) \/ Progress(c)

Spec == Init /\ [][Next]_vars
=============================================================================
