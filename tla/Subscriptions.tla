--------------------------- MODULE Subscriptions ---------------------------
(***************************************************************************)
(* app/routes/shop_subscription_routes.py and                              *)
(* app/services/subscription_service.py: the subscription of ONE tenant,   *)
(* made by the onboarding with a trial.  Invoices are issued and paid at   *)
(* Xendit; its callbacks, any number for an invoice, renew or upgrade the  *)
(* subscription in several calls to Supabase with no transaction.          *)
(*                                                                         *)
(* The calls are synchronous, so a process activates one invoice at a      *)
(* time; processes interleave between the calls.  Every invoice names an   *)
(* affiliate who may be paid.  What these operations write and none of     *)
(* them reads (merchants.status, reservations of the slug, entitlements,   *)
(* audit rows, the tier) is left out.                                      *)
(***************************************************************************)
EXTENDS Naturals

CONSTANTS
    Servers,        \* server processes
    Invoices,       \* invoices of the tenant
    Period,         \* days of a subscription
    Trial,          \* days of the trial
    LastDay,        \* bound on the calendar
    MaxActivations, \* bound on activations begun
    PlanFaults      \* calls to Supabase raise, processes die

ASSUME PlanAssumption ==
    /\ Period \in Nat /\ Trial \in Nat \ {0} /\ Trial <= Period
    /\ LastDay \in Nat /\ MaxActivations \in Nat
    /\ PlanFaults \in BOOLEAN

VARIABLES
    day,            \* today
    invoice,        \* [Invoices -> Bills]
    active,         \* rows of shop_subscriptions with status ACTIVE
    upgradeComms,   \* invoices with a row in affiliate_commissions
    ledger,         \* [Invoices -> rows in shop_commission_ledger]
    merchantUntil,  \* merchants.active_until
    tenant,         \* tenants: status counts as paying, subscription_ends_at
    work,           \* [Servers -> what the process is doing]
    begun,          \* activations begun
    unseen,         \* history: invoices whose earlier activation a later one missed
    cut,            \* history: invoices with an activation that stopped half-way
    behind          \* history: upgrades with a date older than the tenant's

moneyVars == <<upgradeComms, ledger>>
dateVars  == <<merchantUntil, tenant>>
pastVars  == <<unseen, cut, behind>>
planVars  == <<day, invoice, active, moneyVars, dateVars, work, begun, pastVars>>

(* until is the date in the metadata of an upgrade's invoice; 0 stands for *)
(* none: a renewal, or a callback that brings no metadata.                 *)
Bills  == [state : {"unissued", "open", "paid"}, upgrade : BOOLEAN, until : Nat, on : Nat]
Row    == [invoice : Invoices, until : Nat]
Idle   == [step |-> "idle"]
Early  == {"commission", "insert"}
Late   == {"ledger", "merchant", "tenant"}
Busy   == [step : Early \cup Late, invoice : Invoices, until : Nat]

PlanTypeOK ==
    /\ day \in Nat
    /\ invoice \in [Invoices -> Bills]
    /\ active \subseteq Row
    /\ upgradeComms \subseteq Invoices
    /\ ledger \in [Invoices -> Nat]
    /\ merchantUntil \in Nat
    /\ tenant \in [paying : BOOLEAN, until : Nat]
    /\ work \in [Servers -> {Idle} \cup Busy]
    /\ begun \in Nat
    /\ unseen \subseteq Invoices /\ cut \subseteq Invoices /\ behind \subseteq Invoices

PlanInit ==
    /\ day = 0
    /\ invoice = [i \in Invoices |-> [state |-> "unissued", upgrade |-> FALSE, until |-> 0, on |-> 0]]
    /\ active = {} /\ upgradeComms = {}
    /\ ledger = [i \in Invoices |-> 0]
    /\ merchantUntil = 0
    /\ \E paying \in BOOLEAN : tenant = [paying |-> paying, until |-> Trial]
    /\ work = [s \in Servers |-> Idle]
    /\ begun = 0
    /\ unseen = {} /\ cut = {} /\ behind = {}

-----------------------------------------------------------------------------
(* Invoices                                                                *)

(* new_valid_until of calculate_upgrade_proration: the present end, or a   *)
(* whole period for a tenant on trial, expired, or not found by an error.  *)
Quotes ==
    {IF tenant.paying /\ tenant.until > day THEN tenant.until ELSE day + Period}
        \cup (IF PlanFaults THEN {day + Period} ELSE {})

(* create_subscription: the callback will bring the metadata or not.       *)
Issue(i, upgrade) ==
    /\ invoice[i].state = "unissued"
    /\ \E u \in IF upgrade THEN Quotes \cup {0} ELSE {0} :
          invoice' = [invoice EXCEPT ![i] =
              [state |-> "open", upgrade |-> upgrade, until |-> u, on |-> day]]
    /\ UNCHANGED <<day, active, moneyVars, dateVars, work, begun, pastVars>>

(* An invoice can be paid for 24 hours.                                    *)
Pay(i) ==
    /\ invoice[i].state = "open" /\ day <= invoice[i].on + 1
    /\ invoice' = [invoice EXCEPT ![i].state = "paid"]
    /\ UNCHANGED <<day, active, moneyVars, dateVars, work, begun, pastVars>>

(* No activation takes until the next day.                                 *)
Midnight ==
    /\ day < LastDay
    /\ \A s \in Servers : work[s] = Idle
    /\ day' = day + 1
    /\ UNCHANGED <<invoice, active, moneyVars, dateVars, work, begun, pastVars>>

-----------------------------------------------------------------------------
(* process_successful_subscription                                         *)

Doing(s, steps)  == work[s].step \in steps
On(s, i, steps)  == Doing(s, steps) /\ work[s].invoice = i
Proceeds(s, step) == work' = [work EXCEPT ![s].step = step]
Dates(s, u)      == work' = [work EXCEPT ![s].step = "insert", ![s].until = u]
Stops(s)         == work' = [work EXCEPT ![s] = Idle]
Recorded(i)      == \E x \in active : x.invoice = i

(* The idempotency check of a PAID callback: an invoice with an ACTIVE row *)
(* is answered "already processed".                                        *)
Activate(s, i) ==
    /\ work[s] = Idle /\ invoice[i].state = "paid"
    /\ ~Recorded(i) \/ PlanFaults
    /\ begun < MaxActivations /\ begun' = begun + 1
    /\ work' = [work EXCEPT ![s] =
            IF invoice[i].upgrade
              THEN [step |-> "commission", invoice |-> i, until |-> 0]
              ELSE [step |-> "insert", invoice |-> i, until |-> day + Period]]
    /\ unseen' = IF Recorded(i) \/ \E t \in Servers : On(t, i, Early)
                   THEN unseen \cup {i} ELSE unseen
    /\ UNCHANGED <<day, invoice, active, moneyVars, dateVars, cut, behind>>

(* allocate_upgrade_commission, whose table takes one row of an invoice;   *)
(* then the end date: of the metadata, of the tenant, or, when that read   *)
(* fails, of the merchant.                                                 *)
Commission(s) ==
    LET i == work[s].invoice IN
    /\ Doing(s, {"commission"})
    /\ upgradeComms' = upgradeComms \cup {i}
    /\ \/ /\ Dates(s, IF invoice[i].until # 0 THEN invoice[i].until ELSE tenant.until)
          /\ UNCHANGED behind
       \/ /\ PlanFaults /\ invoice[i].until = 0
          /\ \E u \in {merchantUntil, day + Period} : u # 0 /\ Dates(s, u)
          /\ behind' = behind \cup {i}
    /\ UNCHANGED <<day, invoice, begun, active, ledger, dateVars, unseen, cut>>

(* Mutant: an exception of the insert is logged like the later ones.       *)
InsertLogged(s) ==
    /\ Doing(s, {"insert"})
    /\ \/ active' = active \cup {[invoice |-> work[s].invoice, until |-> work[s].until]}
       \/ PlanFaults /\ UNCHANGED active
    /\ Proceeds(s, "ledger")
    /\ UNCHANGED <<day, invoice, begun, moneyVars, dateVars, pastVars>>

(* The row with status ACTIVE.                                             *)
InsertActive(s) ==
    /\ Doing(s, {"insert"})
    /\ active' = active \cup {[invoice |-> work[s].invoice, until |-> work[s].until]}
    /\ Proceeds(s, "ledger")
    /\ UNCHANGED <<day, invoice, begun, moneyVars, dateVars, pastVars>>

(* Before the row is there an exception makes the answer an error.         *)
Raises(s) ==
    /\ PlanFaults /\ Doing(s, Early)
    /\ Stops(s)
    /\ UNCHANGED <<day, invoice, begun, active, moneyVars, dateVars, pastVars>>

(* shop_commission_ledger; an exception is logged.                         *)
Book(s) ==
    /\ Doing(s, {"ledger"})
    /\ \/ ledger' = [ledger EXCEPT ![work[s].invoice] = @ + 1]
       \/ PlanFaults /\ UNCHANGED ledger
    /\ Proceeds(s, "merchant")
    /\ UNCHANGED <<day, invoice, begun, active, upgradeComms, dateVars, pastVars>>

(* An upgrade without metadata leaves active_until.                        *)
UpdateMerchant(s) ==
    LET bill == invoice[work[s].invoice] IN
    /\ Doing(s, {"merchant"})
    /\ merchantUntil' = IF bill.upgrade /\ bill.until = 0 THEN merchantUntil ELSE work[s].until
    /\ Proceeds(s, "tenant")
    /\ UNCHANGED <<day, invoice, begun, active, moneyVars, tenant, pastVars>>

(* Upgrades that have taken their date already.                            *)
Dated ==
    {i \in Invoices : /\ invoice[i].upgrade
                      /\ \/ invoice[i].until # 0
                         \/ \E s \in Servers : On(s, i, {"insert"} \cup Late)}

(* Mutant: the tenant's own end date is not written.                       *)
UpdateTenantTier(s) ==
    /\ Doing(s, {"tenant"})
    /\ tenant' = [tenant EXCEPT !.paying = TRUE]
    /\ behind' = behind
    /\ Stops(s)
    /\ UNCHANGED <<day, invoice, begun, active, moneyVars, merchantUntil, unseen, cut>>

(* The row in tenants: status, end date, and metadata written back whole.  *)
(* A later end date leaves behind the upgrades that have taken theirs.     *)
UpdateTenant(s) ==
    /\ Doing(s, {"tenant"})
    /\ tenant' = [paying |-> TRUE, until |-> work[s].until]
    /\ behind' = IF work[s].until > tenant.until THEN behind \cup Dated ELSE behind
    /\ Stops(s)
    /\ UNCHANGED <<day, invoice, begun, active, moneyVars, merchantUntil, unseen, cut>>

(* An exception of the merchant's update skips the tenant's, one of the    *)
(* tenant's is logged, and the callback is answered with success; or the   *)
(* process dies.  A redelivery finds the ACTIVE row and does nothing.      *)
StopsHalfWay(s) ==
    /\ PlanFaults /\ Doing(s, Late)
    /\ cut' = cut \cup {work[s].invoice}
    /\ Stops(s)
    /\ UNCHANGED <<day, invoice, begun, active, moneyVars, dateVars, unseen, behind>>

PlanNext ==
    \/ Midnight
    \/ \E i \in Invoices : Pay(i) \/ \E upgrade \in BOOLEAN : Issue(i, upgrade)
    \/ \E s \in Servers :
          \/ \E i \in Invoices : Activate(s, i)
          \/ Commission(s) \/ InsertActive(s) \/ Book(s)
          \/ UpdateMerchant(s) \/ UpdateTenant(s)
          \/ Raises(s) \/ StopsHalfWay(s)

PlanSpec == PlanInit /\ [][PlanNext]_planVars

-----------------------------------------------------------------------------
(* What activations must get right together                                *)

(* "Avoid duplicate commissions": an invoice is booked for its affiliate   *)
(* twice only if the second activation could not see the first, which had  *)
(* not inserted its row yet or was hidden by an error of the check.  And   *)
(* no upgrade is recorded without the row that owes its commission.        *)
CommissionsAreDue ==
    /\ \A i \in Invoices : ledger[i] > 1 => i \in unseen
    /\ \A x \in active : invoice[x.invoice].upgrade => x.invoice \in upgradeComms

(* A period that was paid for and recorded is what the tenant is served:   *)
(* not while its activation is at work, not after one stopped half-way,    *)
(* and not after an upgrade whose date was taken before an extension       *)
(* ("without advancing valid_until") put the end back.                     *)
PaidPeriodIsServed ==
    \A x \in active :
        \/ tenant.until >= x.until
        \/ \E s \in Servers : On(s, x.invoice, Late) /\ work[s].until = x.until
        \/ x.invoice \in cut
        \/ \E i \in behind : Recorded(i)
=============================================================================
