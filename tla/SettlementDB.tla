---------------------------- MODULE SettlementDB ----------------------------
(***************************************************************************)
(* The PostgreSQL tables behind the settlement of ONE order, and the       *)
(* transactions open on them.  Committed rows are the variables status,    *)
(* payStatus, events, ledger and stock; the rows a transaction has written *)
(* and not yet committed are in tx, where they act as row locks: another   *)
(* transaction that needs the same row, or inserts the same unique key,    *)
(* waits for the first to end (READ COMMITTED).                            *)
(***************************************************************************)
EXTENDS Integers

CONSTANTS
    Txns,          \* who may open a transaction
    Events,        \* the event ids a payment provider may send for the order
    Stock          \* units of the ordered product on the shelf at the start

ASSUME StockAssumption == Stock \in Nat

VARIABLES
    status,        \* orders.status
    payStatus,     \* orders.payment_status
    events,        \* event ids with a processed row in payment_events
    ledger,        \* event ids credited in financial_ledger (PAYMENT_CREDIT)
    stocked,       \* the order names a product whose stock is counted
    stock,         \* products.stock of that product
    tx             \* [Txns -> Pending]

dbVars == <<status, payStatus, events, ledger, stocked, stock, tx>>
tables == <<status, payStatus, events, ledger, stocked, stock>>

Statuses    == {"absent", "PENDING", "CANCELLED", "PAID"}
PayStatuses == {"none", "PENDING", "PAID"}

(* What a transaction has written.  orders: "full" writes status and       *)
(* payment_status, "status" writes status alone.  broken: a statement      *)
(* failed, the server refuses the rest and turns COMMIT into ROLLBACK.     *)
Pending == [event : SUBSET Events, order : {"no", "full", "status"},
            credit : SUBSET Events, units : {0, 1}, broken : BOOLEAN]

NoTx == [event |-> {}, order |-> "no", credit |-> {}, units |-> 0,
         broken |-> FALSE]

DBTypeOK ==
    /\ status \in Statuses
    /\ payStatus \in PayStatuses
    /\ events \subseteq Events
    /\ ledger \subseteq Events
    /\ stocked \in BOOLEAN
    /\ stock \in Int
    /\ tx \in [Txns -> Pending]

DBInit(startStatuses, startPayStatuses) ==
    /\ status \in startStatuses
    /\ payStatus \in startPayStatuses
    /\ stocked \in BOOLEAN
    /\ status = "absent" => payStatus = "none" /\ ~stocked
    /\ events = {}
    /\ ledger = {}
    /\ stock = Stock
    /\ tx = [t \in Txns |-> NoTx]

(* An order is lost for another settlement when either column says so.     *)
Paid == status = "PAID" \/ payStatus = "PAID"

(* Nobody else holds the row.                                              *)
EventFree(t, e) == \A u \in Txns \ {t} : e \notin tx[u].event
OrderFree(t)    == \A u \in Txns \ {t} : tx[u].order = "no"
CreditFree(t)   == \A u \in Txns \ {t} : tx[u].credit = {}
StockFree(t)    == \A u \in Txns \ {t} : tx[u].units = 0

(* COMMIT: a broken transaction is rolled back and reports no error.       *)
CommitTx(t) ==
    LET p == tx[t] IN
    /\ IF p.broken THEN UNCHANGED tables
       ELSE /\ status' = IF p.order = "no" THEN status ELSE "PAID"
            /\ payStatus' = IF p.order = "full" THEN "PAID" ELSE payStatus
            /\ events' = events \cup p.event
            /\ ledger' = ledger \cup p.credit
            /\ stock' = stock - p.units
            /\ UNCHANGED stocked
    /\ tx' = [tx EXCEPT ![t] = NoTx]

RollbackTx(t) ==
    /\ tx' = [tx EXCEPT ![t] = NoTx]
    /\ UNCHANGED tables

(* The server rolls back the transactions of the connections it lost.      *)
RollbackAll(ts) ==
    /\ tx' = [t \in Txns |-> IF t \in ts THEN NoTx ELSE tx[t]]
    /\ UNCHANGED tables

-----------------------------------------------------------------------------
(* Statements of the settlement transaction                                *)

(* INSERT INTO payment_events ... ON CONFLICT (event_id) DO NOTHING        *)
InsertEvent(t, e) ==
    /\ EventFree(t, e)
    /\ tx' = [tx EXCEPT ![t].event = {e} \ events]
    /\ UNCHANGED tables

(* The WHERE clause of the conditional UPDATE of orders.                   *)
AwaitsPayment == status = "PENDING" \/ (payStatus = "PENDING" /\ status # "PAID")

(* Mutant: the UPDATE forgets payment_status.                              *)
UpdateStatusOnly(t) ==
    /\ AwaitsPayment
    /\ OrderFree(t)
    /\ tx' = [tx EXCEPT ![t].order = "status"]
    /\ UNCHANGED tables

(* The UPDATE finds the row, waits for its lock and writes it.             *)
UpdateOrder(t) ==
    /\ AwaitsPayment
    /\ OrderFree(t)
    /\ tx' = [tx EXCEPT ![t].order = "full"]
    /\ UNCHANGED tables

(* INSERT INTO orders ... ON CONFLICT (id) DO UPDATE SET status = 'PAID'   *)
UpsertOrder(t) ==
    /\ OrderFree(t)
    /\ tx' = [tx EXCEPT ![t].order = "full"]
    /\ UNCHANGED tables

(* UPDATE orders SET status = 'PAID' WHERE status is a pending one; and    *)
(* INSERT INTO orders ... ON CONFLICT (id) DO UPDATE SET status = 'PAID'.  *)
(* Both leave payment_status alone.                                        *)
UpdateStatus(t) ==
    /\ status = "PENDING"
    /\ OrderFree(t)
    /\ tx' = [tx EXCEPT ![t].order = "status"]
    /\ UNCHANGED tables

UpsertStatus(t) ==
    /\ OrderFree(t)
    /\ tx' = [tx EXCEPT ![t].order = "status"]
    /\ UNCHANGED tables

(* Mutant: no unique index on the order of a credit.                       *)
InsertCreditUnchecked(t, e) ==
    /\ tx' = [tx EXCEPT ![t].credit = {e}]
    /\ UNCHANGED tables

(* INSERT INTO financial_ledger ... ON CONFLICT (order_id) DO NOTHING      *)
InsertCredit(t, e) ==
    /\ CreditFree(t)
    /\ tx' = [tx EXCEPT ![t].credit = IF ledger = {} THEN {e} ELSE {}]
    /\ UNCHANGED tables

(* UPDATE products SET stock = stock - 1 WHERE stock >= 1                  *)
DeductStock(t) ==
    /\ StockFree(t)
    /\ stocked /\ stock >= 1
    /\ tx' = [tx EXCEPT ![t].units = 1]
    /\ UNCHANGED tables

(* A statement fails inside the transaction and the code swallows it.      *)
BreakTx(t) ==
    /\ tx' = [tx EXCEPT ![t].broken = TRUE]
    /\ UNCHANGED tables
-----------------------------------------------------------------------------
(* What the unique index on the order of a credit keeps: one transaction   *)
(* at most has an uncommitted credit, and only while the ledger has none.  *)
CreditElectsOne ==
    \A t \in Txns : tx[t].credit # {} => ledger = {} /\ CreditFree(t)

-----------------------------------------------------------------------------
(* Statements that are a transaction of their own.  They find no row of an *)
(* absent order, not even one that waits to be committed, and wait for     *)
(* whoever has written the row of an order that exists.                    *)
RowUnlocked == status = "absent" \/ \A t \in Txns : tx[t].order = "no"

(* Mutant: the seller's update resets payment_status too.                  *)
OverwriteBoth(s) ==
    /\ RowUnlocked
    /\ status' = IF status = "absent" THEN "absent" ELSE s
    /\ payStatus' = IF status = "absent" THEN payStatus ELSE "PENDING"
    /\ UNCHANGED <<events, ledger, stocked, stock, tx>>

(* UPDATE orders SET status = s                                            *)
OverwriteStatus(s) ==
    /\ RowUnlocked
    /\ status' = IF status = "absent" THEN "absent" ELSE s
    /\ UNCHANGED <<payStatus, events, ledger, stocked, stock, tx>>

(* UPDATE orders SET status = 'LUNAS', payment_status = 'PAID'             *)
OverwritePaid ==
    /\ RowUnlocked
    /\ IF status = "absent" THEN UNCHANGED <<status, payStatus>>
       ELSE status' = "PAID" /\ payStatus' = "PAID"
    /\ UNCHANGED <<events, ledger, stocked, stock, tx>>

(* INSERT INTO payment_events ... ON CONFLICT DO NOTHING, by itself        *)
RecordReplay(t, e) ==
    /\ EventFree(t, e)
    /\ events' = events \cup {e}
    /\ UNCHANGED <<status, payStatus, ledger, stocked, stock, tx>>
=============================================================================
