----------------------------- MODULE UnifiedRail -----------------------------
(***************************************************************************)
(* The other way to settle an order: unified_qris_payment_webhook of       *)
(* app/routes/payment.py and reconcile_payment_webhook of                  *)
(* app/services/checkout_flow_service.py, which take the same lock and     *)
(* call the same execute_order_settlement_transaction of                   *)
(* app/services/checkout_service.py; and the agent who marks an order paid *)
(* by hand (app/routes/d2c_order_routes.py).                               *)
(*                                                                         *)
(* This module has no specification of its own: it is a set of actions on  *)
(* the lock and the tables, to be composed with those of the other rail.   *)
(***************************************************************************)
EXTENDS PaymentLock, SettlementDB

CONSTANTS
    Callbacks,         \* slots for callbacks in flight
    CallbackKind,      \* [Callbacks -> Kinds]: the endpoint called
    CallbackWorker,    \* [Callbacks -> Workers]
    CallbackEvent,     \* [Callbacks -> Events]
    Notices,           \* TRUE: callbacks arrive whose status is no paid one
    RailFaults,        \* TRUE: a statement or a COMMIT may raise
    SupabaseFaults,    \* TRUE: a call of the Supabase client may raise
    EntitlementFaults, \* TRUE: the entitlement statement may raise (it does by
                       \* every schema in the repository)
    Agents             \* people who mark orders paid by hand

Kinds == {"qris", "checkout"}

ASSUME CallbacksAssumption ==
    /\ Callbacks \subseteq Txns
    /\ CallbackKind \in [Callbacks -> Kinds]
    /\ CallbackWorker \in [Callbacks -> Workers]
    /\ CallbackEvent \in [Callbacks -> Events]
    /\ {Notices, RailFaults, SupabaseFaults, EntitlementFaults} \subseteq BOOLEAN

VARIABLES
    cpc,           \* [Callbacks -> CallbackLabels]
    orderData,     \* [Callbacks -> BOOLEAN]: the Supabase lookup found the order
    ordRow,        \* [Callbacks -> BOOLEAN]: the transaction found the order
    swallowed,     \* the callbacks that swallowed the error of a write and went on
    told,          \* history: the customer got a receipt or the goods
    acked,         \* history: payment events answered with HTTP 200
    agent          \* [Agents -> {"idle", "marking"}]

railVars == <<cpc, orderData, ordRow, swallowed, told, acked, agent>>

(* Labels inside the transaction, and all labels.                          *)
InSettlement == {"state", "event", "credit", "order", "insert", "stock", "entitle", "commit"}
CallbackLabels == InSettlement \cup {"idle", "notice", "lock", "guard", "fallback", "tell"}

RailTypeOK ==
    /\ cpc \in [Callbacks -> CallbackLabels]
    /\ orderData \in [Callbacks -> BOOLEAN]
    /\ ordRow \in [Callbacks -> BOOLEAN]
    /\ swallowed \subseteq Callbacks
    /\ told \in BOOLEAN
    /\ acked \subseteq Events
    /\ agent \in [Agents -> {"idle", "marking"}]

RailInit ==
    /\ cpc = [c \in Callbacks |-> "idle"]
    /\ orderData = [c \in Callbacks |-> FALSE]
    /\ ordRow = [c \in Callbacks |-> FALSE]
    /\ swallowed = {}
    /\ told = FALSE
    /\ acked = {}
    /\ agent = [a \in Agents |-> "idle"]

-----------------------------------------------------------------------------
(* Moving a callback                                                       *)

Step(c, from, to) ==
    /\ cpc[c] = from
    /\ cpc' = [cpc EXCEPT ![c] = to]
    /\ UNCHANGED agent

(* Every answer of this rail is HTTP 200.  The lock is not released.       *)
Leave(c, from) ==
    /\ Step(c, from, "idle")
    /\ orderData' = [orderData EXCEPT ![c] = FALSE]
    /\ ordRow' = [ordRow EXCEPT ![c] = FALSE]
    /\ swallowed' = swallowed \ {c}

Answer(c, from) ==
    /\ Leave(c, from)
    /\ acked' = acked \cup {CallbackEvent[c]}

(* A step that leaves the lock and what the customer knows alone.          *)
Quietly == UNCHANGED <<lockVars, told>>

Receive(c) ==
    /\ \/ Step(c, "idle", "lock")
       \/ Notices /\ Step(c, "idle", "notice")
    /\ Quietly
    /\ UNCHANGED <<dbVars, orderData, ordRow, swallowed, acked>>

(* The lock is asked for before the status is looked at.                   *)
LockRefused(c) ==
    /\ TryLock(CallbackWorker[c], FALSE)
    /\ Answer(c, "lock")
    /\ UNCHANGED <<dbVars, told>>

AcknowledgeNotice(c) ==
    /\ \E got \in BOOLEAN : TryLock(CallbackWorker[c], got)
    /\ Leave(c, "notice")
    /\ UNCHANGED <<dbVars, told, acked>>

LockTaken(c) ==
    /\ TryLock(CallbackWorker[c], TRUE)
    /\ Step(c, "lock", "guard")
    /\ UNCHANGED <<dbVars, told, orderData, ordRow, swallowed, acked>>

-----------------------------------------------------------------------------
(* The guard reads orders.status through Supabase.  Both endpoints stop at *)
(* a paid order, only the QRIS endpoint stops at a cancelled one, and an   *)
(* error of the lookup stops neither.                                      *)
StopsAt(c) == IF CallbackKind[c] = "qris" THEN {"PAID", "CANCELLED"} ELSE {"PAID"}

GuardStops(c) ==
    /\ status \in StopsAt(c)
    /\ Answer(c, "guard")
    /\ Quietly
    /\ UNCHANGED dbVars

GuardPasses(c) ==
    /\ Step(c, "guard", "state")
    /\ \/ /\ status \notin StopsAt(c)
          /\ orderData' = [orderData EXCEPT ![c] = status # "absent"]
       \/ SupabaseFaults /\ UNCHANGED orderData
    /\ Quietly
    /\ UNCHANGED <<dbVars, ordRow, swallowed, acked>>

-----------------------------------------------------------------------------
(* execute_order_settlement_transaction.  Its result is not looked at:     *)
(* whatever it returns, the caller goes on to tell the customer; when it   *)
(* raises, the caller first marks the order paid through Supabase.         *)
Within(c, from, to) ==
    /\ Step(c, from, to)
    /\ Quietly
    /\ UNCHANGED <<orderData, ordRow, acked>>

InRail(c, from, to) == Within(c, from, to) /\ UNCHANGED swallowed

(* The error of a write is caught, logged and forgotten.                   *)
Swallow(c, from, to) == Within(c, from, to) /\ swallowed' = swallowed \cup {c}

StateRejects(c) ==
    /\ status \in {"PAID", "CANCELLED"}
    /\ InRail(c, "state", "tell")
    /\ UNCHANGED dbVars

StateAccepts(c) ==
    /\ status \in {"absent", "PENDING"}
    /\ Step(c, "state", "event")
    /\ ordRow' = [ordRow EXCEPT ![c] = status # "absent"]
    /\ Quietly
    /\ UNCHANGED <<dbVars, orderData, swallowed, acked>>

RecordCallback(c) == InsertEvent(c, CallbackEvent[c]) /\ InRail(c, "event", "credit")

(* INSERT INTO financial_ledger with no ON CONFLICT: a second credit of    *)
(* the order is a unique violation, which raises.                          *)
CreditFirst(c) ==
    /\ ledger = {}
    /\ InsertCredit(c, CallbackEvent[c])
    /\ InRail(c, "credit", "order")

CreditTwice(c) ==
    /\ ledger # {}
    /\ CreditFree(c)
    /\ RollbackTx(c)
    /\ InRail(c, "credit", "fallback")

(* Mutant: the WHERE clause misses the status the order has.               *)
MissStatus(c) ==
    /\ status = "PENDING"
    /\ InRail(c, "order", "stock")
    /\ UNCHANGED dbVars

MarkStatus(c) == UpdateStatus(c) /\ InRail(c, "order", "stock")

(* No pending row: go on when the transaction had found the order, else    *)
(* insert it.                                                              *)
NoPendingRow(c) ==
    /\ status # "PENDING"
    /\ InRail(c, "order", IF ordRow[c] THEN "stock" ELSE "insert")
    /\ UNCHANGED dbVars

CreateOrder(c) == UpsertStatus(c) /\ InRail(c, "insert", "stock")

SellUnit(c) == DeductStock(c) /\ InRail(c, "stock", "entitle")

NothingToSell(c) ==
    /\ ~stocked
    /\ InRail(c, "stock", "entitle")
    /\ UNCHANGED dbVars

SoldOut(c) ==
    /\ stocked /\ StockFree(c) /\ stock < 1
    /\ RollbackTx(c)
    /\ InRail(c, "stock", "fallback")

Entitle(c) == InRail(c, "entitle", "commit") /\ UNCHANGED dbVars

(* The error is swallowed and there is no savepoint: the COMMIT will roll  *)
(* back without an error.  The statement names columns (feature,           *)
(* is_active) which no schema in the repository gives the table.           *)
EntitleFails(c) ==
    /\ EntitlementFaults
    /\ BreakTx(c)
    /\ Swallow(c, "entitle", "commit")

CommitRail(c) == CommitTx(c) /\ InRail(c, "commit", "tell")

(* An error rolls back and is raised to the caller; a COMMIT whose answer  *)
(* is lost may have succeeded.                                             *)
SettlementRaises(c) ==
    /\ RailFaults
    /\ \/ \E l \in InSettlement : RollbackTx(c) /\ InRail(c, l, "fallback")
       \/ CommitTx(c) /\ InRail(c, "commit", "fallback")

-----------------------------------------------------------------------------
(* Mutant: the fallback is left out.                                       *)
NoFallback(c) == InRail(c, "fallback", "tell") /\ UNCHANGED dbVars

(* UPDATE orders SET status = 'PAID' through Supabase; an error, or a      *)
(* client that could not be made, is ignored.                              *)
MarkPaidAnyway(c) ==
    \/ OverwriteStatus("PAID") /\ InRail(c, "fallback", "tell")
    \/ SupabaseFaults /\ Swallow(c, "fallback", "tell") /\ UNCHANGED dbVars

(* The customer gets a receipt (QRIS), or the access to the product when   *)
(* the order was found (checkout), and the provider HTTP 200.              *)
Tell(c) ==
    /\ told' = (told \/ CallbackKind[c] = "qris" \/ orderData[c])
    /\ Answer(c, "tell")
    /\ UNCHANGED <<lockVars, dbVars>>

-----------------------------------------------------------------------------
(* mark-paid: read the order, then update it with no condition on what was *)
(* read, then start the fulfilment, which sends the goods.  The check      *)
(* knows PAID only: an order the webhook of the other rail settled is      *)
(* LUNAS, with payment_status PAID, and passes.                            *)
AgentReads(a) ==
    /\ agent[a] = "idle"
    /\ status # "absent"
    /\ status # "PAID" \/ payStatus = "PAID"
    /\ agent' = [agent EXCEPT ![a] = "marking"]
    /\ UNCHANGED <<lockVars, dbVars, cpc, orderData, ordRow, swallowed, told, acked>>

(* Mutant: the agent writes a status the rest of the code does not know.   *)
AgentWritesSettled(a) ==
    /\ agent[a] = "marking"
    /\ OverwriteStatus("SETTLED_BY_HAND")
    /\ agent' = [agent EXCEPT ![a] = "idle"]
    /\ told' = TRUE
    /\ UNCHANGED <<lockVars, cpc, orderData, ordRow, swallowed, acked>>

AgentMarksPaid(a) ==
    /\ agent[a] = "marking"
    /\ OverwriteStatus("PAID")
    /\ agent' = [agent EXCEPT ![a] = "idle"]
    /\ told' = TRUE
    /\ UNCHANGED <<lockVars, cpc, orderData, ordRow, swallowed, acked>>

-----------------------------------------------------------------------------
Begin(c) ==
    \/ LockRefused(c) \/ AcknowledgeNotice(c) \/ LockTaken(c)
    \/ GuardStops(c) \/ GuardPasses(c)
Settlement(c) ==
    \/ StateRejects(c) \/ StateAccepts(c)
    \/ RecordCallback(c)
    \/ CreditFirst(c) \/ CreditTwice(c)
    \/ MarkStatus(c) \/ NoPendingRow(c) \/ CreateOrder(c)
    \/ SellUnit(c) \/ NothingToSell(c) \/ SoldOut(c)
    \/ Entitle(c) \/ EntitleFails(c)
    \/ CommitRail(c)

Proceed(c) == Begin(c) \/ Settlement(c) \/ MarkPaidAnyway(c) \/ Tell(c)
Process(c) == Proceed(c) \/ SettlementRaises(c)

CallbacksOn(w) == {c \in Callbacks : CallbackWorker[c] = w}

(* The callbacks a dead process was working on.                            *)
LoseCallbacks(w) ==
    /\ cpc' = [c \in Callbacks |-> IF c \in CallbacksOn(w) THEN "idle" ELSE cpc[c]]
    /\ orderData' = [c \in Callbacks |-> c \notin CallbacksOn(w) /\ orderData[c]]
    /\ ordRow' = [c \in Callbacks |-> c \notin CallbacksOn(w) /\ ordRow[c]]
    /\ swallowed' = swallowed \ CallbacksOn(w)
    /\ UNCHANGED <<told, acked, agent>>
=============================================================================
