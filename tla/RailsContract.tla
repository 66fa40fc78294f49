--------------------------- MODULE RailsContract ---------------------------
(***************************************************************************)
(* What an order that awaits payment promises when two rails and people    *)
(* may make it paid.  The ledger is credited once, in the step that makes  *)
(* the order paid or after it, and with the credit at most one unit leaves *)
(* the shelf.  Nothing of this is taken back.  The goods of the webhook    *)
(* are dispatched once, for an order that has its credit.  The customer is *)
(* told of a paid order only, but for one excuse: a request that swallowed *)
(* the error of a write is under way.  Unlike SettlementContract it lets   *)
(* an order be paid without a credit, for good.                            *)
(***************************************************************************)
EXTENDS Naturals

VARIABLES
    paid,          \* the row of the order says so
    credited,      \* the ledger has its credit
    sold,          \* units taken from the shelf for it
    excused,       \* a request that swallowed an error is under way
    told,          \* the customer got a receipt or the goods
    dispatched     \* times the webhook sent off receipt and goods

vars == <<paid, credited, sold, excused, told, dispatched>>

Init ==
    /\ paid = FALSE
    /\ credited = FALSE
    /\ sold = 0
    /\ excused = FALSE
    /\ told = FALSE
    /\ dispatched = 0

Settle ==
    /\ ~credited
    /\ credited' = TRUE
    /\ paid' = TRUE
    /\ sold' \in {sold, sold + 1}
    /\ UNCHANGED <<excused, told, dispatched>>

MarkPaid ==
    /\ ~paid
    /\ paid' = TRUE
    /\ told' \in {told, TRUE}
    /\ UNCHANGED <<credited, sold, excused, dispatched>>

(* An error is swallowed, or the request that swallowed one ends.          *)
Excuse ==
    /\ excused' = ~excused
    /\ UNCHANGED <<paid, credited, sold, told, dispatched>>

Tell ==
    /\ paid \/ excused
    /\ told' = TRUE
    /\ excused' \in {excused, FALSE}
    /\ UNCHANGED <<paid, credited, sold, dispatched>>

Dispatch ==
    /\ paid /\ credited
    /\ dispatched = 0
    /\ dispatched' = 1
    /\ UNCHANGED <<paid, credited, sold, excused, told>>

Next == Settle \/ MarkPaid \/ Excuse \/ Tell \/ Dispatch

Spec == Init /\ [][Next]_vars
=============================================================================
