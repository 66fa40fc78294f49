------------------------- MODULE SettlementContract -------------------------
(***************************************************************************)
(* What the settlement of one order promises, whoever delivers the         *)
(* payment, how often, and whatever fails on the way: the order becomes    *)
(* paid once, together with its ledger credit and at most one unit of      *)
(* stock; only a paid order is dispatched, once; only a paid order is      *)
(* confirmed to the payment provider.                                      *)
(***************************************************************************)
EXTENDS Naturals

VARIABLES
    paid,          \* the order is settled
    credited,      \* the ledger has its credit
    sold,          \* units taken from the shelf for it
    dispatched,    \* times receipt, purchase report and goods were sent off
    fulfilled,     \* they were carried out
    confirmed      \* the provider was told that the order is settled

vars == <<paid, credited, sold, dispatched, fulfilled, confirmed>>

Init ==
    /\ paid = FALSE
    /\ credited = FALSE
    /\ sold = 0
    /\ dispatched = 0
    /\ fulfilled = FALSE
    /\ confirmed = FALSE

Settle ==
    /\ ~paid
    /\ paid' = TRUE
    /\ credited' = TRUE
    /\ sold' \in {0, 1}
    /\ UNCHANGED <<dispatched, fulfilled, confirmed>>

Dispatch ==
    /\ paid
    /\ dispatched = 0
    /\ dispatched' = 1
    /\ confirmed' = TRUE
    /\ UNCHANGED <<paid, credited, sold, fulfilled>>

Confirm ==
    /\ paid
    /\ confirmed' = TRUE
    /\ UNCHANGED <<paid, credited, sold, dispatched, fulfilled>>

Fulfil ==
    /\ dispatched = 1
    /\ fulfilled' = TRUE
    /\ UNCHANGED <<paid, credited, sold, dispatched, confirmed>>

Next == Settle \/ Dispatch \/ Confirm \/ Fulfil

Spec == Init /\ [][Next]_vars
=============================================================================
