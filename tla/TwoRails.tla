------------------------------ MODULE TwoRails ------------------------------
(***************************************************************************)
(* One order that may be settled over two rails at once: the deliveries of *)
(* XenditWebhook and the callbacks and agents of UnifiedRail, on one lock  *)
(* and one database.  A step is a step of one rail that leaves the other's *)
(* requests where they are, a crash of a worker with the requests of both, *)
(* or the choice PostgreSQL makes between two transactions that wait for   *)
(* each other.                                                             *)
(***************************************************************************)
EXTENDS XenditWebhook, UnifiedRail, FiniteSets

ASSUME RailsAssumption ==
    /\ Txns = Deliveries \cup Callbacks
    /\ Deliveries \cap Callbacks = {}

xenditVars == <<pc, polls, memVars, histVars, seller, crashes>>
allVars == <<vars, railVars>>

BothTypeOK == TypeOK /\ RailTypeOK

BothInit == Init /\ RailInit

-----------------------------------------------------------------------------
(* Waits between the rails.  A callback has written the credit when it     *)
(* asks for the order row, a delivery the order row when it asks for the   *)
(* credit.                                                                 *)
WaitsForOrder(c) ==
    /\ (cpc[c] = "order" /\ status = "PENDING") \/ cpc[c] = "insert"
    /\ ~OrderFree(c)

WaitsForCredit(d) == pc[d] = "credit" /\ ~CreditFree(d)

Deadlocked(d, c) ==
    /\ WaitsForCredit(d) /\ tx[c].credit # {}
    /\ WaitsForOrder(c) /\ tx[d].order # "no"

(* PostgreSQL finds the cycle and ends one of the two with an error.       *)
DeadlockDetected ==
    \E d \in Deliveries, c \in Callbacks :
        /\ Deadlocked(d, c)
        /\ \/ RollbackTx(d) /\ InTx(d, "credit", "failed") /\ UNCHANGED railVars
           \/ /\ \E l \in {"order", "insert"} : RollbackTx(c) /\ InRail(c, l, "fallback")
              /\ UNCHANGED xenditVars

(* A worker dies with the requests of both rails.                          *)
WorkerDies(w) ==
    /\ LoseWorker(w)
    /\ LoseCallbacks(w)
    /\ RollbackAll(OnWorker(w) \cup CallbacksOn(w))

NobodyWorks == LockAbandoned /\ \A c \in Callbacks : cpc[c] = "idle"

DeliverOne(d)    == Deliver(d) /\ UNCHANGED railVars
HandleOne(d)     == Handle(d) /\ UNCHANGED railVars
RunTasksOf(w)    == RunTasks(w) /\ UNCHANGED railVars
SellerActs       == ((\E s \in SellerStatuses : SellerUpdates(s)) \/ SellerSyncs) /\ UNCHANGED railVars
ReceiveOne(c)    == Receive(c) /\ UNCHANGED xenditVars
ProcessOne(c)    == Process(c) /\ UNCHANGED xenditVars
AgentActs(a)     == (AgentReads(a) \/ AgentMarksPaid(a)) /\ UNCHANGED xenditVars
Environment      == LockChanges(NobodyWorks) /\ UNCHANGED railVars

BothNext ==
    \/ \E d \in Deliveries : DeliverOne(d) \/ HandleOne(d)
    \/ \E c \in Callbacks : ReceiveOne(c) \/ ProcessOne(c)
    \/ \E a \in Agents : AgentActs(a)
    \/ \E w \in Workers : RunTasksOf(w) \/ WorkerDies(w)
    \/ SellerActs
    \/ DeadlockDetected
    \/ Environment

BothSpec == BothInit /\ [][BothNext]_allVars

-----------------------------------------------------------------------------
(* Safety                                                                  *)

(* Whatever mixture of rails, fallbacks, agents and deadlock victims       *)
(* settles the order, the ledger is credited at most once, and an order    *)
(* that was credited is paid in the order table too.                       *)
CreditedOncePaid ==
    /\ Cardinality(ledger) <= 1
    /\ ledger # {} => Paid

(* Whatever fails half way, and whoever overwrites the order meanwhile so  *)
(* that it can be paid again, the ledger keeps one credit, and the event   *)
(* that justifies it is in the audit table.                                *)
OneJustifiedCredit ==
    /\ Cardinality(ledger) <= 1
    /\ ledger \subseteq events

(* No rail takes a unit off the shelf for a payment the ledger does not    *)
(* know, and none takes a second one for a payment the other rail booked.  *)
SoldOnlyWithCredit ==
    /\ stock \in {Stock - 1, Stock} \cap Nat
    /\ stock < Stock => ledger # {}

(* A callback that tells the customer of a payment leaves an order whose   *)
(* row says so, also when it lost the race, found the shelf empty or was   *)
(* ended as a deadlock victim: all but the callback which swallowed an     *)
(* error of its own.                                                       *)
UnpaidIsSwallowed ==
    [][\A c \in Callbacks : Tell(c) => Paid \/ c \in swallowed]_allVars

(* The webhook dispatches only what it settled itself: payment_status,     *)
(* which only the webhook writes, says PAID.  An order the other rail or   *)
(* an agent made paid between the webhook's check and its transaction is   *)
(* left to them.                                                           *)
OnlyTheSettlerDispatches ==
    /\ dispatches <= 1
    /\ dispatches = 1 => payStatus = "PAID"

-----------------------------------------------------------------------------
(* Why these promises hold.  Of the order they need, beyond what each says *)
(* of itself: that it awaits payment and that no seller overwrites it.     *)
NoSeller           == SellerStatuses = {}
OrderAwaitsPayment == StartStatuses = {"PENDING"} /\ NoSeller

(* A callback that has booked its credit and not yet committed it.         *)
Booked == {"order", "insert", "stock", "entitle", "commit"}

AtMostOne(S) == \A e, f \in S : e = f

(* The unique index elects one credit at a time, and a transaction inserts *)
(* it after its event, or after finding the event processed.               *)
JustifiedInv ==
    /\ AtMostOne(ledger) /\ ledger \subseteq events
    /\ CreditElectsOne
    /\ \A t \in Txns :
         AtMostOne(tx[t].credit) /\ tx[t].credit \subseteq events \cup tx[t].event
    /\ \A d \in Deliveries :
         /\ tx[d].credit # {} => pc[d] \in {"stock", "commit"}
         /\ pc[d] \in {"order", "reread", "upsert", "credit"}
               => EventOf[d] \in events \cup tx[d].event
    /\ \A c \in Callbacks :
         /\ tx[c].credit # {} => cpc[c] \in Booked
         /\ cpc[c] = "credit" => CallbackEvent[c] \in events \cup tx[c].event

(* Whoever commits a credit has written the order too, or goes without it  *)
(* because the order it had found pending has become paid.                 *)
CreditedInv ==
    /\ ledger # {} => status = "PAID"
    /\ \A d \in Deliveries : Settling(d) => tx[d].order = "full"
    /\ \A c \in Callbacks :
         /\ cpc[c] \in {"event", "credit"} \cup Booked => status # "CANCELLED"
         /\ ordRow[c] => status # "absent"
         /\ cpc[c] \in {"stock", "entitle", "commit"}
               => tx[c].order = "status" \/ status = "PAID"

(* The row of the order elects one of both rails while it is PENDING; who  *)
(* finds it taken finds it paid.  Nobody inserts it.                       *)
ElectedInv ==
    /\ NobodyForces
    /\ payStatus = "PAID" => status = "PAID"
    /\ \A t \in Txns : tx[t].order # "no" => status = "PENDING" /\ OrderFree(t)
    /\ \A c \in Callbacks :
         /\ cpc[c] # "insert"
         /\ cpc[c] \in {"event", "credit", "order"} => ordRow[c]

(* A unit goes with a credit: a delivery asks for it as the one that holds *)
(* the row of the order, so its credit was not refused.                    *)
SoldInv ==
    /\ stock = Stock \/ (stock = Stock - 1 /\ Stock >= 1 /\ ledger # {})
    /\ \A t \in Txns : tx[t].units = 1 => tx[t].credit # {} /\ Stock >= 1
    /\ \A d \in Deliveries : pc[d] \in {"stock", "commit"} => tx[d].credit # {}
    /\ \A c \in Callbacks : cpc[c] \in Booked => tx[c].credit # {}

(* A callback that goes on to tell the customer has found the order paid,  *)
(* committed it, marked it through Supabase, or swallowed an error.        *)
ToldInv ==
    \A c \in Callbacks :
        /\ cpc[c] = "tell" => status = "PAID" \/ c \in swallowed
        /\ tx[c].broken => cpc[c] = "commit" /\ c \in swallowed

(* The delivery that wrote payment_status is the one that dispatches.      *)
SettledInv ==
    /\ \A d \in Deliveries : ~tx[d].broken
    /\ \A d \in Deliveries : Settled(d) => payStatus = "PAID" /\ dispatches = 0
    /\ \A c, d \in Deliveries : Settled(c) /\ Settled(d) => c = d
    /\ dispatches \in {0, 1}
    /\ dispatches = 1 => payStatus = "PAID"

-----------------------------------------------------------------------------
(* What both rails and the agents together make of one order: each of      *)
(* their steps is a step of the contract, or leaves all that the contract  *)
(* speaks of as it was.                                                    *)
Rails == INSTANCE RailsContract WITH
    paid       <- Paid,
    credited   <- ledger # {},
    sold       <- Stock - stock,
    excused    <- swallowed # {},
    dispatched <- dispatches

ImplementsRailsContract == Rails!Spec

-----------------------------------------------------------------------------
(* What the repository says of a payment and the second rail does not keep *)

(* A payment event answered with HTTP 200 is not delivered again: when no  *)
(* callback is left that could settle it, the order must be paid.          *)
AcknowledgedCallbackSettles ==
    acked # {} /\ (\A c \in Callbacks : cpc[c] = "idle") => Paid

(* Every order marked paid has its entry in the ledger.                    *)
PaidHasLedgerEntry == Paid => ledger # {}

(* The receipt and the goods go out for an order that is PAID, never for a *)
(* pending one.                                                            *)
ToldOnlyPaid == told => Paid

-----------------------------------------------------------------------------
(* Liveness.  PostgreSQL breaks every deadlock and hands a row to those    *)
(* who wait for it in the order they came, so whoever can get it again and *)
(* again does get it.  Nothing relies on a statement that raises.          *)
BothFairness ==
    /\ \A d \in Deliveries : SF_allVars(HandleOne(d))
    /\ \A c \in Callbacks : SF_allVars(Proceed(c) /\ UNCHANGED xenditVars)
    /\ WF_allVars(DeadlockDetected)

BothFairSpec == BothSpec /\ BothFairness

(* No request of either rail waits for ever for a row the other rail has   *)
(* written, although the rails write ledger and order in opposite orders.  *)
EveryRequestEnds ==
    /\ \A d \in Deliveries : pc[d] # "idle" ~> pc[d] = "idle"
    /\ \A c \in Callbacks : cpc[c] # "idle" ~> cpc[c] = "idle"
=============================================================================
