---------------------------- MODULE ReaderMatch ----------------------------
(***************************************************************************)
(* receive_notification of app/api/v1/reader_router.py: the phone of a     *)
(* seller reads "money received" off its screen and posts it, and the      *)
(* newest order of that amount which is PENDING is taken for paid.         *)
(*                                                                         *)
(* All orders and receipts here are of one tenant and one amount, the case *)
(* in which they can be mistaken.  The handler's calls to PostgreSQL and   *)
(* Supabase (here the same tables) are synchronous, so a server process    *)
(* handles one notification at a time.                                     *)
(***************************************************************************)
EXTENDS Naturals, FiniteSets

CONSTANTS
    Readers,        \* server processes that take notifications
    Orders,         \* numbered by the time they were created
    Receipts,       \* payments that were received
    Resendable,     \* those whose notification is posted more than once
    ReaderFaults    \* calls to PostgreSQL may raise

ASSUME ReaderAssumption ==
    /\ Orders \subseteq Nat
    /\ Resendable \subseteq Receipts
    /\ ReaderFaults \in BOOLEAN

VARIABLES
    orderStatus,    \* [Orders -> status]
    reading,        \* [Readers -> what a process is doing]
    found,          \* [Readers -> SUBSET Orders]: matched_order, one or none
    receipt,        \* [Readers -> SUBSET Receipts]: what it has been told of
    posted,         \* history: receipts a process has begun to handle
    paidFor,        \* history: [Receipts -> SUBSET Orders]: set to PAID for it
    reported,       \* history: orders whose purchase was reported to Meta
    between,        \* history: orders written between a SELECT and its UPDATE
    unwritten       \* history: orders matched by a handler whose UPDATE failed

readerVars == <<orderStatus, reading, found, receipt, posted, paidFor, reported, between, unwritten>>

ReaderTypeOK ==
    /\ orderStatus \in [Orders -> {"PENDING", "PAID", "CANCELLED"}]
    /\ reading \in [Readers -> {"idle", "select", "update", "supabase", "resync", "report"}]
    /\ found \in [Readers -> SUBSET Orders]
    /\ receipt \in [Readers -> SUBSET Receipts]
    /\ posted \subseteq Receipts
    /\ paidFor \in [Receipts -> SUBSET Orders]
    /\ reported \subseteq Orders
    /\ between \subseteq Orders
    /\ unwritten \subseteq Orders

ReaderInit ==
    /\ orderStatus = [x \in Orders |-> "PENDING"]
    /\ reading = [h \in Readers |-> "idle"]
    /\ found = [h \in Readers |-> {}]
    /\ receipt = [h \in Readers |-> {}]
    /\ posted = {}
    /\ paidFor = [n \in Receipts |-> {}]
    /\ reported = {} /\ between = {} /\ unwritten = {}

-----------------------------------------------------------------------------
(* Mutant: the status is not asked for.                                    *)
NewestOfAny == {x \in Orders : \A y \in Orders : y <= x}

(* ORDER BY created_at DESC LIMIT 1                                        *)
Newest ==
    LET open == {x \in Orders : orderStatus[x] = "PENDING"} IN
    {x \in open : \A y \in open : y <= x}

(* A write to x while one of the processes has selected x and not yet      *)
(* updated it, which it will do without looking at the status again.       *)
Overtakes(x, processes) ==
    between' = IF \E h \in processes : reading[h] \in {"update", "resync"} /\ x \in found[h]
                 THEN between \cup {x} ELSE between

NotificationArrives(h, n) ==
    /\ reading[h] = "idle"
    /\ n \in posted => n \in Resendable
    /\ reading' = [reading EXCEPT ![h] = "select"]
    /\ receipt' = [receipt EXCEPT ![h] = {n}]
    /\ posted' = posted \cup {n}
    /\ UNCHANGED <<orderStatus, found, paidFor, reported, between, unwritten>>

(* SELECT in PostgreSQL, or in Supabase when PostgreSQL failed or had      *)
(* nothing; with nothing in either the request is UNMATCHED.               *)
SelectOrder(h, at, next, otherwise) ==
    /\ reading[h] = at
    /\ \/ /\ Newest # {}
          /\ found' = [found EXCEPT ![h] = Newest]
          /\ reading' = [reading EXCEPT ![h] = next]
       \/ /\ Newest = {} \/ ReaderFaults
          /\ reading' = [reading EXCEPT ![h] = otherwise]
          /\ UNCHANGED found
    /\ UNCHANGED <<orderStatus, receipt, posted, paidFor, reported, between, unwritten>>

SelectInPostgres(h) == SelectOrder(h, "select", "update", "supabase")
SelectInSupabase(h) == SelectOrder(h, "supabase", "resync", "idle")

(* UPDATE orders SET status = 'PAID' WHERE id: the status is not asked for *)
(* again.  An error leaves matched_order as it was, and the handler goes   *)
(* on as if the order had been updated.                                    *)
MarkPaid(h) ==
    /\ reading[h] \in {"update", "resync"}
    /\ reading' = [reading EXCEPT ![h] = "report"]
    /\ \E x \in found[h] :
          \/ /\ orderStatus' = [orderStatus EXCEPT ![x] = "PAID"]
             /\ paidFor' = [n \in Receipts |->
                    IF n \in receipt[h] THEN paidFor[n] \cup {x} ELSE paidFor[n]]
             /\ Overtakes(x, Readers \ {h})
             /\ UNCHANGED unwritten
          \/ /\ ReaderFaults
             /\ unwritten' = unwritten \cup {x}
             /\ UNCHANGED <<orderStatus, paidFor, between>>
    /\ UNCHANGED <<found, receipt, posted, reported>>

(* The fulfilment is never started (its module is not imported here) and   *)
(* the purchase is reported.                                               *)
Report(h) ==
    /\ reading[h] = "report"
    /\ reported' = reported \cup found[h]
    /\ reading' = [reading EXCEPT ![h] = "idle"]
    /\ found' = [found EXCEPT ![h] = {}]
    /\ receipt' = [receipt EXCEPT ![h] = {}]
    /\ UNCHANGED <<orderStatus, posted, paidFor, between, unwritten>>

(* The seller cancels an order, whatever its status.                       *)
SellerCancels(x) ==
    /\ orderStatus[x] # "CANCELLED"
    /\ orderStatus' = [orderStatus EXCEPT ![x] = "CANCELLED"]
    /\ Overtakes(x, Readers)
    /\ UNCHANGED <<reading, found, receipt, posted, paidFor, reported, unwritten>>

ReaderNext ==
    \/ \E h \in Readers :
        \/ \E n \in Receipts : NotificationArrives(h, n)
        \/ SelectInPostgres(h) \/ SelectInSupabase(h)
        \/ MarkPaid(h) \/ Report(h)
    \/ \E x \in Orders : SellerCancels(x)

ReaderSpec == ReaderInit /\ [][ReaderNext]_readerVars

-----------------------------------------------------------------------------
(* What the matching must get right                                        *)

(* A receipt pays one order and an order is paid by one receipt, although  *)
(* nothing but the amount connects them, and Meta is told of no other      *)
(* purchase.  The exceptions are the three the handler leaves open: the    *)
(* order was written between SELECT and UPDATE, the notification was       *)
(* posted again (its id is not looked at), or the UPDATE failed.           *)
OneReceiptOneOrder ==
    /\ \A m, n \in Receipts : m # n => paidFor[m] \cap paidFor[n] \subseteq between
    /\ \A n \in Receipts : Cardinality(paidFor[n]) > 1 => n \in Resendable
    /\ \A x \in reported : x \in unwritten \/ \E n \in Receipts : x \in paidFor[n]
=============================================================================
