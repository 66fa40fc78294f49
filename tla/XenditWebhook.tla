--------------------------- MODULE XenditWebhook ---------------------------
(***************************************************************************)
(* The Xendit webhook of app/routes/xendit.py as it settles ONE order      *)
(* (process_xendit_webhook_core and the functions it runs in threads),     *)
(* together with the payment lock, the PostgreSQL tables and the seller's  *)
(* endpoint that overwrites orders.status.                                 *)
(*                                                                         *)
(* A delivery is one HTTP request of the payment provider.  Each member of *)
(* Deliveries is a slot: it carries one event to one worker, again and     *)
(* again, so a duplicate is another slot with the same event and a retry   *)
(* is another use of the slot.  A delivery runs from one label to the      *)
(* next; between two labels any other delivery, worker or fault may step.  *)
(***************************************************************************)
EXTENDS PaymentLock, SettlementDB

CONSTANTS
    Deliveries,         \* slots for requests in flight
    WorkerOf,           \* [Deliveries -> Workers]
    EventOf,            \* [Deliveries -> Events]
    NonPaid,            \* events that are no payment (EXPIRED, FAILED, PENDING)
    Rejected,           \* events with a wrong amount or without a tenant
    IntentWorkers,      \* processes that hold the payment intent in memory
    StartStatuses, StartPayStatuses,   \* the order before the first delivery
    SellerStatuses,     \* what a seller may write into orders.status
    DbFaults,           \* TRUE: a statement or a COMMIT may raise
    StockFaults,        \* TRUE: a stock statement may raise
    EarlyExpiry,        \* TRUE: the lock may expire under a working holder
    MaxPolls,           \* 6 in the code
    MaxCrashes          \* bound on worker crashes

ASSUME SlotsAssumption ==
    /\ Deliveries \subseteq Txns
    /\ WorkerOf \in [Deliveries -> Workers]
    /\ EventOf \in [Deliveries -> Events]
    /\ NonPaid \subseteq Events /\ Rejected \subseteq Events
    /\ IntentWorkers \subseteq Workers

ASSUME StartAssumption ==
    /\ StartStatuses \subseteq {"absent", "PENDING", "CANCELLED"}
    /\ StartPayStatuses \subseteq {"none", "PENDING"}
    /\ SellerStatuses \subseteq {"PENDING", "CANCELLED"}

ASSUME FaultsAssumption ==
    /\ DbFaults \in BOOLEAN /\ StockFaults \in BOOLEAN /\ EarlyExpiry \in BOOLEAN
    /\ MaxPolls \in Nat /\ MaxCrashes \in Nat

VARIABLES
    pc,            \* [Deliveries -> Labels]
    polls,         \* [Deliveries -> 0..MaxPolls]: turns of the poll loop done
    l1,            \* [Workers -> BOOLEAN]: the order is in _processed_transactions
    intent,        \* [Workers -> BOOLEAN]: the intent is in PAYMENT_INTENTS
    tasks,         \* workers with background tasks created and not yet run
    dispatches,    \* history: times the background tasks were created
    fulfilled,     \* history: the background tasks ran at least once
    answers,       \* [Events -> SUBSET Answers]: what HTTP 200 told the provider
    seller,        \* "idle", or the status the seller has yet to sync
    crashes        \* crashes so far

memVars  == <<l1, intent, tasks>>
histVars == <<dispatches, fulfilled, answers>>
vars == <<lockVars, dbVars, pc, polls, memVars, histVars, seller, crashes>>

(* Labels of a request inside the settlement transaction, and of one that  *)
(* owns the lock.                                                          *)
InTransaction == {"event", "order", "reread", "upsert", "credit", "stock", "commit"}
Critical == InTransaction \cup {"lookup", "sync", "release", "already", "failed"}
Labels   == Critical \cup {"idle", "check", "local", "poll", "finish"}

Answers == {"SUCCESS", "ALREADY_PROCESSED", "ALREADY_PROCESSING", "IGNORED"}

TypeOK ==
    /\ LockTypeOK
    /\ DBTypeOK
    /\ pc \in [Deliveries -> Labels]
    /\ polls \in [Deliveries -> 0..MaxPolls]
    /\ l1 \in [Workers -> BOOLEAN]
    /\ intent \in [Workers -> BOOLEAN]
    /\ tasks \subseteq Workers
    /\ dispatches \in Nat
    /\ fulfilled \in BOOLEAN
    /\ answers \in [Events -> SUBSET Answers]
    /\ seller \in {"idle"} \cup SellerStatuses
    /\ crashes \in 0..MaxCrashes

Init ==
    /\ LockInit
    /\ DBInit(StartStatuses, StartPayStatuses)
    /\ pc = [d \in Deliveries |-> "idle"]
    /\ polls = [d \in Deliveries |-> 0]
    /\ l1 = [w \in Workers |-> FALSE]
    /\ intent = [w \in Workers |-> w \in IntentWorkers]
    /\ tasks = {}
    /\ dispatches = 0
    /\ fulfilled = FALSE
    /\ answers = [e \in Events |-> {}]
    /\ seller = "idle"
    /\ crashes = 0

-----------------------------------------------------------------------------
(* Moving a request                                                        *)

Goto(d, from, to) ==
    /\ pc[d] = from
    /\ pc' = [pc EXCEPT ![d] = to]

(* HTTP 200: the provider takes the event as delivered.                    *)
Accept(d, from, answer) ==
    /\ Goto(d, from, "idle")
    /\ answers' = [answers EXCEPT ![EventOf[d]] = @ \cup {answer}]

(* HTTP 400, 404, 422 or 503: the provider will deliver the event again.   *)
Refuse(d, from) ==
    /\ Goto(d, from, "idle")
    /\ UNCHANGED answers

MarkSettled(w) == l1' = [l1 EXCEPT ![w] = TRUE]

Elsewhere == UNCHANGED <<intent, tasks, dispatches, fulfilled, seller, crashes>>

-----------------------------------------------------------------------------
(* Idempotency check                                                       *)

Deliver(d) ==
    /\ Goto(d, "idle", "check")
    /\ UNCHANGED <<lockVars, dbVars, polls, l1, answers>>
    /\ Elsewhere

(* _check_db_idempotency_sync: the event was processed, or the order is    *)
(* paid and the replay is recorded, which may fail.                        *)
DbHit(d) ==
    \/ EventOf[d] \in events /\ UNCHANGED dbVars
    \/ /\ EventOf[d] \notin events
       /\ Paid
       /\ RecordReplay(d, EventOf[d]) \/ (DbFaults /\ UNCHANGED dbVars)

DbMiss(d) == EventOf[d] \notin events /\ ~Paid /\ UNCHANGED dbVars

CheckHit(d) ==
    /\ DbHit(d)
    /\ Accept(d, "check", "ALREADY_PROCESSED")
    /\ MarkSettled(WorkerOf[d])
    /\ UNCHANGED <<lockVars, polls>>
    /\ Elsewhere

CheckMiss(d) ==
    /\ DbMiss(d)
    /\ Goto(d, "check", "local")
    /\ UNCHANGED <<lockVars, polls, l1, answers>>
    /\ Elsewhere

CheckError(d) ==
    /\ DbFaults
    /\ Refuse(d, "check")
    /\ UNCHANGED <<lockVars, dbVars, polls, l1>>
    /\ Elsewhere

(* What the check found in the database is kept while the worker looks at  *)
(* its own memory and asks for the lock.                                   *)
LocalHit(d) ==
    /\ l1[WorkerOf[d]]
    /\ Accept(d, "local", "ALREADY_PROCESSED")
    /\ UNCHANGED <<lockVars, dbVars, polls, l1>>
    /\ Elsewhere

IgnoreNonPaid(d) ==
    /\ ~l1[WorkerOf[d]]
    /\ EventOf[d] \in NonPaid
    /\ Accept(d, "local", "IGNORED")
    /\ UNCHANGED <<lockVars, dbVars, polls, l1>>
    /\ Elsewhere

AskLock(d) ==
    /\ ~l1[WorkerOf[d]]
    /\ EventOf[d] \notin NonPaid
    /\ \E got \in BOOLEAN :
         /\ TryLock(WorkerOf[d], got)
         /\ Goto(d, "local", IF got THEN "lookup" ELSE "poll")
    /\ UNCHANGED <<dbVars, polls, l1, answers>>
    /\ Elsewhere

-----------------------------------------------------------------------------
(* The lock was refused: wait a little for its holder                      *)

ResetPolls(d) == polls' = [polls EXCEPT ![d] = 0]

PollHit(d) ==
    /\ polls[d] < MaxPolls
    /\ DbHit(d)
    /\ Accept(d, "poll", "ALREADY_PROCESSED")
    /\ MarkSettled(WorkerOf[d])
    /\ ResetPolls(d)
    /\ UNCHANGED lockVars
    /\ Elsewhere

(* Mutant: the loop polls until the database answers.                      *)
PollForever(d) ==
    /\ DbMiss(d)
    /\ Goto(d, "poll", "poll")
    /\ polls' = [polls EXCEPT ![d] = @ + 1]
    /\ UNCHANGED <<lockVars, l1, answers>>
    /\ Elsewhere

PollMiss(d) ==
    /\ polls[d] < MaxPolls
    /\ DbMiss(d)
    /\ Goto(d, "poll", "poll")
    /\ polls' = [polls EXCEPT ![d] = @ + 1]
    /\ UNCHANGED <<lockVars, l1, answers>>
    /\ Elsewhere

PollError(d) ==
    /\ DbFaults
    /\ polls[d] < MaxPolls
    /\ Refuse(d, "poll")
    /\ ResetPolls(d)
    /\ UNCHANGED <<lockVars, dbVars, l1>>
    /\ Elsewhere

(* Mutant: whoever leaves releases the lock, owner or not.                 *)
GiveUpAndRelease(d) ==
    /\ polls[d] = MaxPolls
    /\ Accept(d, "poll", "ALREADY_PROCESSING")
    /\ ResetPolls(d)
    /\ Unlock(WorkerOf[d])
    /\ UNCHANGED <<dbVars, l1>>
    /\ Elsewhere

GiveUp(d) ==
    /\ polls[d] = MaxPolls
    /\ Accept(d, "poll", "ALREADY_PROCESSING")
    /\ ResetPolls(d)
    /\ UNCHANGED <<lockVars, dbVars, l1>>
    /\ Elsewhere

-----------------------------------------------------------------------------
(* Authoritative lookup.  An error of the query reads as "no such order".  *)

(* Mutant: the order is marked settled in memory before it is in the       *)
(* database.                                                               *)
AcceptAndMark(d) ==
    /\ status # "absent" \/ intent[WorkerOf[d]]
    /\ EventOf[d] \notin Rejected
    /\ Goto(d, "lookup", "event")
    /\ MarkSettled(WorkerOf[d])
    /\ UNCHANGED <<lockVars, dbVars, polls, answers>>
    /\ Elsewhere

LookupAccepts(d) ==
    /\ status # "absent" \/ intent[WorkerOf[d]]
    /\ EventOf[d] \notin Rejected
    /\ Goto(d, "lookup", "event")
    /\ UNCHANGED <<lockVars, dbVars, polls, l1, answers>>
    /\ Elsewhere

LookupRefuses(d) ==
    /\ \/ EventOf[d] \in Rejected
       \/ ~intent[WorkerOf[d]] /\ (status = "absent" \/ DbFaults)
    /\ Refuse(d, "lookup")
    /\ Unlock(WorkerOf[d])
    /\ UNCHANGED <<dbVars, polls, l1>>
    /\ Elsewhere

-----------------------------------------------------------------------------
(* The settlement transaction of _record_settlement_and_ledger_sync, one   *)
(* action per statement that writes or decides.                            *)

InTx(d, from, to) ==
    /\ Goto(d, from, to)
    /\ UNCHANGED <<lockVars, polls, l1, answers>>
    /\ Elsewhere

RecordEvent(d) == InsertEvent(d, EventOf[d]) /\ InTx(d, "event", "order")

MarkOrderPaid(d) == UpdateOrder(d) /\ InTx(d, "order", "credit")

NoRowToMark(d) ==
    /\ ~AwaitsPayment
    /\ InTx(d, "order", "reread")
    /\ UNCHANGED dbVars

(* Mutants: ALREADY_SETTLED is taken for a settlement; the status of the   *)
(* row that could not be updated is not read.                              *)
FoundPaidGoesOn(d) == Paid /\ RollbackTx(d) /\ InTx(d, "reread", "release")
FoundAnything(d)   == InTx(d, "reread", "upsert") /\ UNCHANGED dbVars

FoundPaid(d)   == Paid /\ RollbackTx(d) /\ InTx(d, "reread", "already")
FoundUnpaid(d) == ~Paid /\ InTx(d, "reread", "upsert") /\ UNCHANGED dbVars

ForceOrderPaid(d) == UpsertOrder(d) /\ InTx(d, "upsert", "credit")

CreditLedger(d) == InsertCredit(d, EventOf[d]) /\ InTx(d, "credit", "stock")

TakeStock(d) == DeductStock(d) /\ InTx(d, "stock", "commit")

(* No counted product, or too few units: the error is logged and ignored.  *)
LeaveStock(d) ==
    /\ ~stocked \/ (StockFree(d) /\ stock < 1)
    /\ InTx(d, "stock", "commit")
    /\ UNCHANGED dbVars

(* Mutant: the error of the stock statement ends the settlement.           *)
StockErrorAborts(d) ==
    /\ StockFaults /\ stocked
    /\ RollbackTx(d)
    /\ InTx(d, "stock", "failed")

StockError(d) ==
    /\ StockFaults /\ stocked
    /\ BreakTx(d)
    /\ InTx(d, "stock", "commit")

(* Mutant: the Supabase client updates the row before the commit.          *)
SyncBeforeCommit(d) == InTx(d, "commit", "sync") /\ UNCHANGED dbVars

Commit(d) == CommitTx(d) /\ InTx(d, "commit", "sync")

(* Mutant: the error is logged and the webhook goes on.                    *)
IgnoreFailure(d) ==
    /\ DbFaults
    /\ \E l \in InTransaction : RollbackTx(d) /\ InTx(d, l, "release")

(* An error rolls back; a COMMIT whose answer is lost may have succeeded.  *)
TransactionFails(d) ==
    /\ DbFaults
    /\ \/ \E l \in InTransaction : RollbackTx(d) /\ InTx(d, l, "failed")
       \/ CommitTx(d) /\ InTx(d, "commit", "failed")

AnswerFailed(d) ==
    /\ Refuse(d, "failed")
    /\ Unlock(WorkerOf[d])
    /\ UNCHANGED <<dbVars, polls, l1>>
    /\ Elsewhere

AnswerAlreadySettled(d) ==
    /\ Accept(d, "already", "ALREADY_PROCESSED")
    /\ Unlock(WorkerOf[d])
    /\ UNCHANGED <<dbVars, polls, l1>>
    /\ Elsewhere

(* The Supabase client repeats the update of orders; it may fail.          *)
SyncSupabase(d) ==
    /\ OverwritePaid \/ (DbFaults /\ UNCHANGED dbVars)
    /\ InTx(d, "sync", "release")

-----------------------------------------------------------------------------
(* After the settlement                                                    *)

ReleaseLock(d) ==
    /\ Goto(d, "release", "finish")
    /\ Unlock(WorkerOf[d])
    /\ UNCHANGED <<dbVars, polls, l1, answers>>
    /\ Elsewhere

(* Mark the order settled in memory, create the background tasks, release  *)
(* the lock a second time and answer.                                      *)
Finish(d) ==
    /\ Accept(d, "finish", "SUCCESS")
    /\ MarkSettled(WorkerOf[d])
    /\ tasks' = tasks \cup {WorkerOf[d]}
    /\ dispatches' = dispatches + 1
    /\ Unlock(WorkerOf[d])
    /\ UNCHANGED <<dbVars, polls, intent, fulfilled, seller, crashes>>

RunTasks(w) ==
    /\ w \in tasks
    /\ tasks' = tasks \ {w}
    /\ fulfilled' = TRUE
    /\ UNCHANGED <<lockVars, dbVars, pc, polls, l1, intent, dispatches, answers,
                   seller, crashes>>

-----------------------------------------------------------------------------
(* The seller's PATCH /orders/{id}/status: PostgreSQL first, then Supabase *)

SellerUpdates(s) ==
    /\ seller = "idle"
    /\ status # "absent"
    /\ OverwriteStatus(s)
    /\ seller' = s
    /\ UNCHANGED <<lockVars, pc, polls, memVars, histVars, crashes>>

SellerSyncs ==
    /\ seller # "idle"
    /\ OverwriteStatus(seller) \/ (DbFaults /\ UNCHANGED dbVars)
    /\ seller' = "idle"
    /\ UNCHANGED <<lockVars, pc, polls, memVars, histVars, crashes>>

-----------------------------------------------------------------------------
(* Faults                                                                  *)

OnWorker(w) == {d \in Deliveries : WorkerOf[d] = w}

(* The process of a worker dies and starts again: its requests and all it  *)
(* had in memory are gone.                                                 *)
LoseWorker(w) ==
    /\ crashes < MaxCrashes
    /\ crashes' = crashes + 1
    /\ pc' = [d \in Deliveries |-> IF WorkerOf[d] = w THEN "idle" ELSE pc[d]]
    /\ polls' = [d \in Deliveries |-> IF WorkerOf[d] = w THEN 0 ELSE polls[d]]
    /\ l1' = [l1 EXCEPT ![w] = FALSE]
    /\ intent' = [intent EXCEPT ![w] = FALSE]
    /\ tasks' = tasks \ {w}
    /\ ForgetLocal(w)
    /\ UNCHANGED <<histVars, seller>>

Crash(w) == LoseWorker(w) /\ RollbackAll(OnWorker(w))

LockAbandoned == \A d \in Deliveries : pc[d] \notin Critical

LockChanges(abandoned) ==
    /\ \/ (EarlyExpiry \/ abandoned)
          /\ (ExpireRedis \/ \E w \in Workers : ExpireInMemory(w))
       \/ RedisGoesDown
       \/ RedisComesBack
       \/ \E w \in Workers : ThrottleEnds(w)
    /\ UNCHANGED <<dbVars, pc, polls, memVars, histVars, seller, crashes>>

-----------------------------------------------------------------------------
Check(d)  == CheckHit(d) \/ CheckMiss(d) \/ CheckError(d)
Local(d)  == LocalHit(d) \/ IgnoreNonPaid(d) \/ AskLock(d)
Poll(d)   == PollHit(d) \/ PollMiss(d) \/ PollError(d) \/ GiveUp(d)
Lookup(d) == LookupAccepts(d) \/ LookupRefuses(d)
Record(d) ==
    \/ RecordEvent(d)
    \/ MarkOrderPaid(d) \/ NoRowToMark(d)
    \/ FoundPaid(d) \/ FoundUnpaid(d) \/ ForceOrderPaid(d)
    \/ CreditLedger(d)
    \/ TakeStock(d) \/ LeaveStock(d) \/ StockError(d)
    \/ Commit(d) \/ TransactionFails(d)
    \/ SyncSupabase(d)
Conclude(d) ==
    AnswerFailed(d) \/ AnswerAlreadySettled(d) \/ ReleaseLock(d) \/ Finish(d)

Handle(d) == Check(d) \/ Local(d) \/ Poll(d) \/ Lookup(d) \/ Record(d) \/ Conclude(d)

Next ==
    \/ \E d \in Deliveries : Deliver(d) \/ Handle(d)
    \/ \E w \in Workers : RunTasks(w) \/ Crash(w)
    \/ \E s \in SellerStatuses : SellerUpdates(s)
    \/ SellerSyncs
    \/ LockChanges(LockAbandoned)

Spec == Init /\ [][Next]_vars

-----------------------------------------------------------------------------
(* Safety                                                                  *)

(* The order's payment_status says PAID exactly when the ledger has a      *)
(* credit for it, whichever of the concurrent transactions wrote which     *)
(* row: the order row, the ledger row and the audit event of one payment   *)
(* are committed together or not at all.                                   *)
PaidExactlyWhenCredited ==
    /\ payStatus = "PAID" <=> ledger # {}
    /\ ledger \subseteq events

(* The customer's receipt, the purchase report and the digital goods are   *)
(* sent at most once, however many deliveries of however many events race  *)
(* through the check, the lock and the transaction.                        *)
DispatchedAtMostOnce == dispatches <= 1

(* Concurrent settlements take at most one unit off the shelf, and only    *)
(* for an order that is paid.                                              *)
OneUnitPerPayment ==
    /\ stock \in {Stock - 1, Stock} \cap Nat
    /\ stock < Stock => Paid

(* A worker that told the provider SUCCESS or ALREADY_PROCESSED, or that   *)
(* remembers the order as settled in its own memory, is right: the         *)
(* database says paid, now and after any crash of that or another worker.  *)
ClaimsAreTrue ==
    /\ \A e \in Events :
         answers[e] \cap {"SUCCESS", "ALREADY_PROCESSED"} # {} => Paid
    /\ \A w \in Workers : l1[w] => Paid

(* Two deliveries are inside the locked part together only when the order  *)
(* is paid already: the release that compares no owner, done twice by each *)
(* settlement, lets nobody in beside a settlement that is still running.   *)
AloneUntilPaid ==
    \A c, d \in Deliveries :
        c # d /\ pc[c] \in Critical /\ pc[d] \in Critical => Paid

(* Once paid, an order stays paid whatever the seller, a retried           *)
(* transaction or a crashed worker does, and its credit is never replaced. *)
PaymentIsFinal ==
    [][/\ Paid => Paid'
       /\ ledger # {} => ledger' = ledger]_vars

(* Why: whoever writes PAID into status writes it into payment_status too, *)
(* which the seller does not touch, and a credit needs an empty ledger.    *)
FinalInv ==
    /\ status = "PAID" => payStatus = "PAID"
    /\ \A t \in Txns : tx[t].order # "status"
    /\ CreditElectsOne

-----------------------------------------------------------------------------
(* Why these promises hold.  Two sets of conditions suffice, each without  *)
(* the other: an order that awaits payment and that nobody else writes,    *)
(* whatever the lock does; and a lock that neither fails nor expires under *)
(* its holder, also for an order that has no row yet, or that the seller   *)
(* has cancelled or cancels meanwhile.  A stock statement that raises      *)
(* breaks both (run settlement_stock_error).                               *)
OnlyTheDatabase ==
    /\ Txns = Deliveries
    /\ StartStatuses = {"PENDING"} /\ SellerStatuses = {} /\ ~StockFaults

ReliableLock ==
    /\ Txns = Deliveries
    /\ ~LockFaults /\ ~EarlyExpiry
    /\ SellerStatuses \subseteq {"CANCELLED"} /\ ~StockFaults

(* After the row of the order is written and before it is committed; after *)
(* the commit and before the tasks are created.                            *)
Settling(d) == pc[d] \in {"credit", "stock", "commit"}
Settled(d)  == pc[d] \in {"sync", "release", "finish"}

(* The committed rows tell one story; payment_status tells it best.        *)
RowsAgree ==
    /\ payStatus = "PAID" <=> ledger # {}
    /\ status = "PAID" => payStatus = "PAID"
    /\ payStatus = "PAID" => status \in {"PAID", "CANCELLED"}
    /\ events # {} => payStatus = "PAID"
    /\ ledger \subseteq events
    /\ stock = Stock \/ (payStatus = "PAID" /\ stock = Stock - 1 /\ Stock >= 1)

(* What a transaction has written follows from how far it has come.        *)
WrittenBy(d) ==
    /\ ~tx[d].broken
    /\ tx[d].order = IF Settling(d) THEN "full" ELSE "no"
    /\ tx[d].credit = IF pc[d] \in {"stock", "commit"} THEN {EventOf[d]} ELSE {}
    /\ tx[d].units = 1 => pc[d] = "commit" /\ Stock >= 1
    /\ pc[d] \in {"order", "reread", "upsert"} \/ Settling(d)
          => EventOf[d] \in events \cup tx[d].event

WrittenSoFar == \A d \in Deliveries : WrittenBy(d)

(* The row lock of the order elects one delivery, and nobody settles an    *)
(* order that is paid.                                                     *)
OneSettles ==
    /\ \A d \in Deliveries :
         /\ Settling(d) \/ pc[d] = "upsert" => ~Paid
         /\ pc[d] = "already" => Paid
    /\ \A c, d \in Deliveries : Settling(c) /\ Settling(d) => c = d

(* The delivery that settled is the one that dispatches.                   *)
OneDispatches ==
    /\ \A d \in Deliveries : Settled(d) => Paid /\ dispatches = 0
    /\ \A c, d \in Deliveries : Settled(c) /\ Settled(d) => c = d
    /\ dispatches \in {0, 1}
    /\ dispatches = 1 => Paid
    /\ tasks # {} \/ fulfilled => dispatches = 1

SettlementInv ==
    RowsAgree /\ WrittenSoFar /\ OneSettles /\ OneDispatches /\ ClaimsAreTrue

(* It is not inductive by itself: a delivery that is about to settle by    *)
(* force must have no other beside it that is settling.  Either nobody     *)
(* ever is about to, because whoever finds no row to update finds the      *)
(* order paid; or the lock keeps the others out.                           *)
NobodyForces ==
    /\ status \in {"PENDING", "PAID"}
    /\ \A d \in Deliveries : pc[d] # "upsert" /\ (pc[d] = "reread" => Paid)

LockGuards ==
    /\ redisUp /\ \A w \in Workers : client[w] # "throttled"
    /\ \A d \in Deliveries : pc[d] \in Critical => redisHeld \/ Paid
    /\ AloneUntilPaid

-----------------------------------------------------------------------------
(* A payment event answered with HTTP 200 is not delivered again: when no  *)
(* request is left that could settle it, the order must be paid.           *)
AcknowledgedPaymentSettles ==
    \A e \in Events \ (NonPaid \cup Rejected) :
        answers[e] # {} /\ (\A d \in Deliveries : pc[d] = "idle") => Paid

-----------------------------------------------------------------------------
(* The webhook keeps the contract: each of its steps is a step of the      *)
(* contract or leaves all that the contract speaks of as it was.           *)
Contract == INSTANCE SettlementContract WITH
    paid       <- Paid,
    credited   <- ledger # {},
    sold       <- Stock - stock,
    dispatched <- dispatches,
    confirmed  <- \E e \in Events :
                     answers[e] \cap {"SUCCESS", "ALREADY_PROCESSED"} # {}

ImplementsContract == Contract!Spec

-----------------------------------------------------------------------------
(* Liveness.  Workers keep running, created tasks run, and the provider    *)
(* delivers an event again until it is answered with HTTP 200.             *)
Unanswered(d) == answers[EventOf[d]] = {}

Fairness ==
    /\ \A d \in Deliveries : WF_vars(Handle(d)) /\ WF_vars(Deliver(d) /\ Unanswered(d))
    /\ \A w \in Workers : WF_vars(RunTasks(w))

FairSpec == Spec /\ Fairness

(* No request waits for ever: neither for a row another transaction has    *)
(* written, nor in the poll loop, nor for itself.                          *)
EveryRequestAnswered ==
    \A d \in Deliveries : pc[d] # "idle" ~> pc[d] = "idle"

(* A payment the provider keeps reporting is settled and carried out, also *)
(* when the lock is taken by deliveries that settle nothing.               *)
PaidAndFulfilled == <>[](Paid /\ fulfilled)
=============================================================================
