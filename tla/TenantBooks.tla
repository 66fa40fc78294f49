---------------------------- MODULE TenantBooks ----------------------------
(***************************************************************************)
(* tenants.metadata of ONE tenant and its writers, which all read it,      *)
(* change it and write it back whole: the charge of a conversation and     *)
(* the paid top-up (app/services/quota_service.py, the top-up branch of    *)
(* app/routes/xendit.py), the fulfilment of a paid order                   *)
(* (app/services/order_fulfillment_service.py), which sends the goods too, *)
(* and the worker that reminds merchants whose plan ends                   *)
(* (subscription_reminder_worker.py).                                      *)
(*                                                                         *)
(* All calls to the databases are synchronous: a process does one of these *)
(* jobs at a time, and jobs of different processes interleave between the  *)
(* calls.  Everything is about one top-up, one order and the last day of   *)
(* the plan of a tenant whose tier column is set (the quota of its tier is *)
(* then the same throughout) and whose goods are links, not Telegram       *)
(* invitations.                                                            *)
(***************************************************************************)
EXTENDS Naturals

CONSTANTS
    Processes,      \* server processes
    Contacts,       \* customers who write to the tenant
    BaseQuota,      \* sessions of the tenant's tier
    PackSize,       \* sessions of the top-up
    Deployments,    \* pairs of what may go wrong and whether there is one database
    MaxCredits, MaxCharges, MaxSends, MaxReminders  \* bounds on jobs begun

(* Calls to Supabase raise, calls to PostgreSQL raise, processes die.      *)
Troubles == {"supabase", "postgres", "crash"}

ASSUME BooksAssumption ==
    /\ Deployments \subseteq (SUBSET Troubles) \X BOOLEAN
    /\ BaseQuota \in Nat /\ PackSize \in Nat
    /\ MaxCredits \in Nat /\ MaxCharges \in Nat /\ MaxSends \in Nat /\ MaxReminders \in Nat

VARIABLES
    trouble,        \* what may go wrong in this behaviour; never changes
    oneDatabase,    \* Supabase and PostgreSQL are one database; never changes
    metadata,       \* tenants.metadata, a record of Books
    invoices,       \* rows of billing_invoices for the top-up
    delivered,      \* databases where the order's fulfillment_status is DELIVERED
    window,         \* [Processes -> SUBSET Contacts]: _SESSION_WINDOWS
    job,            \* [Processes -> Jobs]
    copy,           \* [Processes -> Books]: the metadata a job has read
    charges,        \* history: charges written
    credits,        \* history: times the top-up was written
    sends,          \* history: times the goods were sent off
    reminders,      \* history: reminders by WhatsApp that reached the merchant
    stale,          \* history: processes whose copy another one has overwritten
    lost,           \* history: a stale copy was written back
    beside,         \* history: a fulfilment began while another was at work
    unmarked,       \* history: DELIVERED could not be written
    slipped         \* history: two scans at once, or the flag of a reminder not written

tableVars  == <<metadata, invoices, delivered>>
countVars  == <<charges, credits, sends, reminders>>
notesVars  == <<stale, lost, beside, unmarked, slipped>>
booksVars  == <<trouble, oneDatabase, tableVars, window, job, copy, countVars, notesVars>>

Fulfilling == {"tier", "retier", "deliver"}
Scanning   == {"scan", "flag", "mail"}
Jobs == {"free", "charge", "topup", "invoice"} \cup Fulfilling \cup Scanning

(* The keys that are read or written here; "lite" stands for the keys that *)
(* the fulfilment sets, "reminded" for wa_reminder_sent, "listed" counts   *)
(* billing_invoices_history.                                               *)
Books == [remaining : Nat, overage : Nat, used : Nat, listed : Nat,
          lite : BOOLEAN, reminded : BOOLEAN]

NewBooks ==
    [remaining |-> BaseQuota, overage |-> 0, used |-> 0, listed |-> 0,
     lite |-> FALSE, reminded |-> FALSE]

BooksTypeOK ==
    /\ trouble \subseteq Troubles /\ oneDatabase \in BOOLEAN
    /\ metadata \in Books
    /\ invoices \in Nat
    /\ delivered \subseteq {"postgres", "supabase"}
    /\ window \in [Processes -> SUBSET Contacts]
    /\ job \in [Processes -> Jobs]
    /\ copy \in [Processes -> Books]
    /\ charges \in Nat /\ credits \in Nat /\ sends \in Nat /\ reminders \in Nat
    /\ stale \subseteq Processes
    /\ lost \in BOOLEAN /\ beside \in BOOLEAN /\ unmarked \in BOOLEAN /\ slipped \in BOOLEAN

BooksInit ==
    /\ \E x \in Deployments : trouble = x[1] /\ oneDatabase = x[2]
    /\ metadata = NewBooks
    /\ invoices = 0 /\ delivered = {}
    /\ window = [p \in Processes |-> {}]
    /\ job = [p \in Processes |-> "free"]
    /\ copy = [p \in Processes |-> NewBooks]
    /\ charges = 0 /\ credits = 0 /\ sends = 0 /\ reminders = 0
    /\ stale = {} /\ lost = FALSE /\ beside = FALSE /\ unmarked = FALSE /\ slipped = FALSE

-----------------------------------------------------------------------------
(* Steps of a job                                                          *)

Fails(service) == service \in trouble

Become(p, next) == job' = [job EXCEPT ![p] = next]

(* A job without a copy any more; what it had read is forgotten.           *)
Drop(p) == copy' = [copy EXCEPT ![p] = NewBooks]

Holds(q) == job[q] \in {"charge", "topup", "invoice", "retier"} \cup Scanning

(* SELECT metadata: the job goes on with what it has read.                 *)
Read(p, next) ==
    /\ Become(p, next)
    /\ copy' = [copy EXCEPT ![p] = metadata]
    /\ stale' = stale \ {p}

(* UPDATE ... SET metadata: the whole record is replaced, and every copy   *)
(* that another job holds is out of date.                                  *)
Write(p, books) ==
    /\ metadata' = books
    /\ stale' = {q \in Processes \ {p} : Holds(q)}
    /\ lost' = (lost \/ p \in stale)

NotWritten(p) ==
    /\ stale' = stale \ {p}
    /\ UNCHANGED <<metadata, lost>>

-----------------------------------------------------------------------------
(* decrement_session_quota_if_eligible: the contact's window is marked     *)
(* before anything is read, so a charge that fails is not tried again.     *)
ChargeBegins(p, c) ==
    /\ job[p] = "free" /\ c \notin window[p] /\ charges < MaxCharges
    /\ window' = [window EXCEPT ![p] = @ \cup {c}]
    /\ \/ Read(p, "charge")
       \/ Fails("supabase") /\ UNCHANGED <<job, copy, stale>>
    /\ UNCHANGED <<trouble, oneDatabase, tableVars, countVars, lost, beside, unmarked, slipped>>

(* What is left never falls below zero; what is used is counted anyway.    *)
Charged(books) ==
    [books EXCEPT !.remaining = IF @ = 0 THEN 0 ELSE @ - 1, !.used = @ + 1]

(* An update that raised may have been carried out.                        *)
ChargeWrites(p) ==
    /\ job[p] = "charge"
    /\ \/ Write(p, Charged(copy[p])) /\ charges' = charges + 1
       \/ Fails("supabase") /\ NotWritten(p) /\ UNCHANGED charges
    /\ Become(p, "free") /\ Drop(p)
    /\ UNCHANGED <<trouble, oneDatabase, invoices, delivered, window, credits, sends,
                   reminders, beside, unmarked, slipped>>

WindowEnds(p, c) ==
    /\ c \in window[p]
    /\ window' = [window EXCEPT ![p] = @ \ {c}]
    /\ UNCHANGED <<trouble, oneDatabase, tableVars, job, copy, countVars, notesVars>>

(* The top-up branch of the webhook: every delivery of a paid event, the   *)
(* first or another, is a call of increment_session_quota, and every call  *)
(* is answered 200 TOPUP_PROCESSED, one that failed as well.               *)
TopUpBegins(p) ==
    /\ job[p] = "free" /\ credits < MaxCredits
    /\ Read(p, "topup")
    /\ UNCHANGED <<trouble, oneDatabase, tableVars, window, countVars, lost, beside, unmarked, slipped>>

(* Mutant: sessions are added, but not to what was bought.                 *)
ToppedUpOnly(books) == [books EXCEPT !.remaining = @ + PackSize]

ToppedUp(books) ==
    [books EXCEPT !.remaining = @ + PackSize, !.overage = @ + PackSize]

(* Mutant: the invoice goes on with the metadata as read.                  *)
TopUpWritesAside(p) ==
    /\ job[p] = "topup"
    /\ Write(p, ToppedUp(copy[p]))
    /\ credits' = credits + 1
    /\ Become(p, "invoice")
    /\ UNCHANGED <<trouble, oneDatabase, invoices, delivered, window, copy, charges, sends,
                   reminders, beside, unmarked, slipped>>

TopUpWrites(p) ==
    /\ job[p] = "topup"
    /\ \/ /\ Write(p, ToppedUp(copy[p]))
          /\ credits' = credits + 1
          /\ \/ Become(p, "invoice") /\ copy' = [copy EXCEPT ![p] = ToppedUp(@)]
             \/ Fails("supabase") /\ Become(p, "free") /\ Drop(p)
       \/ /\ Fails("supabase") /\ NotWritten(p)
          /\ Become(p, "free") /\ Drop(p)
          /\ UNCHANGED credits
    /\ UNCHANGED <<trouble, oneDatabase, invoices, delivered, window, charges, sends,
                   reminders, beside, unmarked, slipped>>

Listed(books) == [books EXCEPT !.listed = @ + 1]

(* The invoice row; when the insert raises, the metadata of this job are   *)
(* written a second time, with the invoice in them.                        *)
InvoiceWritten(p) ==
    /\ job[p] = "invoice"
    /\ invoices' = invoices + 1 \/ (Fails("supabase") /\ UNCHANGED invoices)
    /\ \/ NotWritten(p)
       \/ Fails("supabase") /\ Write(p, Listed(copy[p]))
    /\ Become(p, "free") /\ Drop(p)
    /\ UNCHANGED <<trouble, oneDatabase, delivered, window, countVars, beside, unmarked, slipped>>

(* Mutant: an order that is DELIVERED is taken as well.                    *)
FulfilmentUnchecked(p) ==
    /\ job[p] = "free" /\ sends < MaxSends
    /\ Become(p, "tier")
    /\ beside' = (beside \/ \E q \in Processes : job[q] \in Fulfilling)
    /\ UNCHANGED <<trouble, oneDatabase, tableVars, window, copy, countVars, stale, lost, unmarked, slipped>>

(* handle_order_paid_fulfillment: the order is read from PostgreSQL, or    *)
(* from Supabase when that fails, and one that is DELIVERED there is left  *)
(* alone.                                                                  *)
FulfilmentBegins(p) ==
    /\ job[p] = "free" /\ sends < MaxSends
    /\ \E source \in {"postgres", "supabase"} :
          /\ source = "supabase" => Fails("postgres")
          /\ source \notin delivered
    /\ Become(p, "tier")
    /\ beside' = (beside \/ \E q \in Processes : job[q] \in Fulfilling)
    /\ UNCHANGED <<trouble, oneDatabase, tableVars, window, copy, countVars, stale, lost, unmarked, slipped>>

(* The tenant's plan; its errors are swallowed.                            *)
TierReads(p) ==
    /\ job[p] = "tier"
    /\ \/ Read(p, "retier")
       \/ Fails("supabase") /\ Become(p, "deliver") /\ UNCHANGED <<copy, stale>>
    /\ UNCHANGED <<trouble, oneDatabase, tableVars, window, countVars, lost, beside, unmarked, slipped>>

TierWrites(p) ==
    /\ job[p] = "retier"
    /\ \/ Write(p, [copy[p] EXCEPT !.lite = TRUE])
       \/ Fails("supabase") /\ NotWritten(p)
    /\ Become(p, "deliver") /\ Drop(p)
    /\ UNCHANGED <<trouble, oneDatabase, invoices, delivered, window, countVars, beside, unmarked, slipped>>

(* DELIVERED is written to Supabase, errors are swallowed, and the goods   *)
(* are sent off.                                                           *)
Deliver(p) ==
    /\ job[p] = "deliver"
    /\ \/ /\ delivered' = delivered \cup {"supabase"}
                            \cup (IF oneDatabase THEN {"postgres"} ELSE {})
          /\ UNCHANGED unmarked
       \/ /\ Fails("supabase")
          /\ unmarked' = TRUE
          /\ UNCHANGED delivered
    /\ sends' = sends + 1
    /\ Become(p, "free")
    /\ UNCHANGED <<trouble, oneDatabase, metadata, invoices, window, copy, charges, credits,
                   reminders, stale, lost, beside, slipped>>

(* No link to send: the fulfilment gives up, with the plan already changed. *)
NothingToDeliver(p) ==
    /\ job[p] = "deliver"
    /\ Become(p, "free")
    /\ UNCHANGED <<trouble, oneDatabase, tableVars, window, copy, countVars, notesVars>>

(* run_reminder_scan: the rows of all tenants are read, and looked at one  *)
(* after the other while messages to earlier ones are sent.  Before its    *)
(* scan the worker waits an hour, or for whoever starts it.                *)
ScanBegins(p) ==
    /\ job[p] = "free" /\ reminders < MaxReminders
    /\ Read(p, "scan")
    /\ slipped' = (slipped \/ \E q \in Processes : job[q] \in Scanning)
    /\ UNCHANGED <<trouble, oneDatabase, tableVars, window, countVars, lost, beside, unmarked>>

(* Mutant: the flag is not looked at.                                      *)
RemindUnchecked(p) ==
    /\ job[p] = "scan"
    /\ reminders' = reminders + 1
    /\ Become(p, "flag")
    /\ UNCHANGED <<trouble, oneDatabase, tableVars, window, copy, charges, credits, sends, notesVars>>

(* evaluate_and_process_tenant: the reminder, at most one by the flag in   *)
(* the row that was read.                                                  *)
Remind(p) ==
    /\ job[p] = "scan" /\ ~copy[p].reminded
    /\ reminders' = reminders + 1
    /\ Become(p, "flag")
    /\ UNCHANGED <<trouble, oneDatabase, tableVars, window, copy, charges, credits, sends, notesVars>>

(* It was sent before, or there is an error, which may hide a message that *)
(* did arrive.  An e-mail may be sent, whose flag is written all the same. *)
RemindsNot(p) ==
    /\ job[p] = "scan"
    /\ \/ UNCHANGED <<reminders, slipped>>
       \/ ~copy[p].reminded /\ reminders' = reminders + 1 /\ slipped' = TRUE
    /\ \/ Become(p, "mail") /\ UNCHANGED <<copy, stale>>
       \/ Become(p, "free") /\ Drop(p) /\ stale' = stale \ {p}
    /\ UNCHANGED <<trouble, oneDatabase, tableVars, window, charges, credits, sends,
                   lost, beside, unmarked>>

Reminded(books) == [books EXCEPT !.reminded = TRUE]

(* "ATOMIC PERSISTENCE & IDEMPOTENCY COMMIT": the row as it was read, with *)
(* the flags of this scan.                                                 *)
ScanWrites(p) ==
    /\ job[p] \in {"flag", "mail"}
    /\ \/ /\ Write(p, IF job[p] = "flag" THEN Reminded(copy[p]) ELSE copy[p])
          /\ UNCHANGED slipped
       \/ /\ Fails("supabase") /\ NotWritten(p)
          /\ slipped' = (slipped \/ job[p] = "flag")
    /\ Become(p, "free") /\ Drop(p)
    /\ UNCHANGED <<trouble, oneDatabase, invoices, delivered, window, countVars, beside, unmarked>>

ProcessDies(p) ==
    /\ Fails("crash")
    /\ Become(p, "free") /\ Drop(p)
    /\ window' = [window EXCEPT ![p] = {}]
    /\ stale' = stale \ {p}
    /\ slipped' = (slipped \/ job[p] = "flag")
    /\ UNCHANGED <<trouble, oneDatabase, tableVars, countVars, lost, beside, unmarked>>

ChargeNext(p) ==
    \/ \E c \in Contacts : ChargeBegins(p, c) \/ WindowEnds(p, c)
    \/ ChargeWrites(p)

TopUpNext(p) == TopUpBegins(p) \/ TopUpWrites(p) \/ InvoiceWritten(p)

FulfilNext(p) ==
    \/ FulfilmentBegins(p) \/ TierReads(p) \/ TierWrites(p)
    \/ Deliver(p) \/ NothingToDeliver(p)

ScanNext(p) == ScanBegins(p) \/ Remind(p) \/ RemindsNot(p) \/ ScanWrites(p)

BooksNext ==
    \E p \in Processes : ChargeNext(p) \/ TopUpNext(p) \/ FulfilNext(p)
                            \/ ScanNext(p) \/ ProcessDies(p)

BooksSpec == BooksInit /\ [][BooksNext]_booksVars

-----------------------------------------------------------------------------
(* What the writers must get right together                                *)

(* The sessions left, used and bought always add up to the plan, whichever *)
(* writer's copy was written last: a lost update loses a whole charge or a *)
(* whole top-up and never half of one.  Uses beyond what was left are the  *)
(* only surplus.  The record lists no invoice for sessions it lacks,       *)
(* although an invoice comes with a second write, which may fail or be     *)
(* overtaken.                                                              *)
BalanceIsCoherent ==
    /\ metadata.remaining + metadata.used >= BaseQuota + metadata.overage
    /\ metadata.remaining <= BaseQuota + metadata.overage
    /\ PackSize * metadata.listed <= metadata.overage

(* Nothing is booked that did not happen.                                  *)
NothingInvented ==
    /\ metadata.used <= charges
    /\ metadata.overage <= PackSize * credits

(* Charges and top-ups are only ever lost because a process wrote back a   *)
(* copy that another had overwritten: no failure of Supabase and no crash  *)
(* loses one that was written.                                             *)
LostOnlyToStaleCopies ==
    ~lost => /\ metadata.used = charges
             /\ metadata.overage = PackSize * credits

(* "Check if already fulfilled": the goods are sent off twice only if the  *)
(* fulfilment reads another database than it writes, or two of them ran    *)
(* beside each other, or DELIVERED could not be written.                   *)
SentTwiceOnlyUnmarked == sends > 1 => ~oneDatabase \/ beside \/ unmarked

(* "Maksimal Tepat 1 Kali" (exactly once at most): the merchant is         *)
(* reminded twice only if two scans ran beside each other, the flag of the *)
(* first reminder was not written, or a stale copy of the record, which    *)
(* any of its writers may hold, was written over it.                       *)
RemindedTwiceOnlySlipped == reminders > 1 => slipped \/ lost

(* "Return 200 on replay without duplicate mutation": a top-up that was    *)
(* paid once is credited once.                                             *)
TopUpCreditedOnce == credits <= 1
=============================================================================
