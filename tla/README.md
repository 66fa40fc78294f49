# A verification project for BoonTrack Core

BoonTrack Core is a multi-tenant commerce backend (FastAPI, PostgreSQL, Supabase,
Redis, WhatsApp). Customers write to a merchant's number; a bot answers until a
human takes over; orders are paid by QRIS or virtual account; payment providers
report the payments over webhooks; paid orders are recorded in a ledger and
fulfilled; and the merchants themselves pay for their plans. This directory holds
TLA+ models of the code, TLC configurations that check them on small instances,
and proofs that TLAPS checks.

The program has no transactions across its stores and runs in several processes,
each with a memory of its own. Its hard part is always the same: **something is
read, calls are made, and what was read is acted upon**, while another process,
another provider, a person or a fault did something in between. The models keep
every such gap and leave out what the messages say.

| Module | What it is |
| --- | --- |
| `PaymentLock` | the lock of `app/core/redis.py`: Redis, or a dictionary per process |
| `SettlementDB` | the tables of one order, the transactions on them, the row locks |
| `SettlementContract` | abstract: what the settlement of an order promises |
| `XenditWebhook` | the webhook of `app/routes/xendit.py` over lock and tables |
| `RailsContract` | abstract: what the order is left with when both rails work on it |
| `UnifiedRail` | the second way to settle an order, and the agent who marks it paid |
| `TwoRails` | both rails on one lock and one database |
| `InboundMessages` | the WhatsApp webhook: message idempotency and opt-outs |
| `IngressGate` | what a peer must pass before the bot takes its message |
| `TenantBooks` | `tenants.metadata` and its writers: charges, top-ups, fulfilment, reminders |
| `ReaderMatch` | receipts read off a phone, matched with orders by their amount |
| `AgentDesk` | chats and agents: rotary routing, takeover, messages of agents |
| `HumanHold` | the bot's turns against the pauses; refines `AgentDesk` |
| `Subscriptions` | invoices, renewals and upgrades of a tenant's plan |
| `InviteLinks` | the fulfilment of an online class: an invitation for one seat |
| `MCXenditWebhook`, `MCTwoRails`, `MCMessages`, `MCTenant` | instances for TLC |
| `XenditWebhook_proofs`, `TwoRails_proofs`, `InboundMessages_proofs`, `TenantBooks_proofs`, `HumanHold_proofs` (with `AgentDesk`), `Subscriptions_proofs` | theorems about these modules, for all values of the constants |
| `TenantParts_proofs` | theorems about `IngressGate`, `ReaderMatch` and `InviteLinks` |
| `Tenant_proofs` | theorems about the composition `MCTenant` |

To run, with a `.cfg` file for each run of section 3:

    tlc -config settlement_broken_lock.cfg MCXenditWebhook    (and settlement_*.cfg)
    tlc -config two_rails.cfg MCTwoRails                      (and two_rails_faults, rail_*.cfg)
    tlc -config messages.cfg MCMessages
    tlc -config tenant.cfg MCTenant                           (and topup_twice.cfg)
    tlapm XenditWebhook_proofs.tla                            (and the other *_proofs.tla)

`PROJECT.json` maps every definition to the lines it models, and lists the hazards
of the code, each at its line, with the properties that cover it.

## 1. Inventory

Paths are relative to `src/`. The process that is deployed is `uvicorn
app.main:app`; what only tests, scripts or the unserved aiohttp application
(`create_web_app`, which nothing calls) reach is named as such. For each part:
what it **keeps**, what it **does**, whom it **meets**, what is **hard**, and what
makes it **correct**.

**Payment lock** (`app/core/redis.py`). Keeps a cached Redis client with a
throttle for failed attempts, and a dictionary of expiry times per process. Does
acquire (`SET NX EX`, or the dictionary when Redis does not answer) and release
(`DEL`, no owner compared). Meets every payment rail. Hard: Redis fails for one
worker and not for another; the entry expires under its holder; a release by
somebody who is not the holder. Correct: two holders at once at most when Redis
failed or the time to live ran out; and whatever it does, nobody is paid twice.

**Settlement tables** (`app/core/database.py`, statements in the rails). Keep
`orders` (with two columns that both say "paid": `status` and `payment_status`),
`payment_events`, `financial_ledger`, `products`. Meet all rails, the seller's
endpoints, the reader. Hard: unique keys and row locks decide races; an
aborted PostgreSQL transaction turns COMMIT into ROLLBACK; a COMMIT whose answer
is lost. Correct: order, credit and event of a payment are committed together.

**Xendit webhook** (`app/routes/xendit.py`, `app/services/xendit_service.py`).
Keeps payment intents and the set of settled orders in process memory. Does, per
delivery: idempotency check in the database and in memory, lock, poll when
refused, authoritative lookup, settlement transaction, Supabase update, release,
background tasks (receipt, CAPI purchase, fulfilment), answer; a top-up of quota
is a branch of its own before all that. Hard: duplicates at two workers; two
events of one order; every read before an `await` and used after it; failure of
each of the steps. Correct: see the contract (section 2).

**Seller's order endpoints** (`app/routes/d2c_order_routes.py`). Keep nothing;
read an order, overwrite its status in PostgreSQL and then in Supabase, dispatch
fulfilment on PAID. Hard: they race with a settlement and write with no
condition. Correct: a payment survives a concurrent cancellation; a sale marked
paid by hand has a ledger entry.

**Unified QRIS rail and checkout flow** (`app/routes/payment.py`,
`app/services/checkout_flow_service.py`, `checkout_service.py`,
`reader_validation_service.py`). A second path to the same tables: lock for every
status, unlocked read of the order, `execute_order_settlement_transaction`,
fallback to a bare status update. Hard: the lock outlives its delivery, the order
of statements is the inverse of the Xendit rail's, errors are swallowed inside
the transaction. Correct: the same contract.

**Inbound message idempotency** (`app/api/v1/endpoints/whatsapp_webhook.py`,
`app/services/idempotency.py`, `phone_suppression_service.py`). Keeps a fast lock
in Redis, an event row in PostgreSQL, sets of every process, and the suppressions
in PostgreSQL, Redis and every process. Does: record the messages of a payload,
dispatch the new ones, note opt-outs. Hard: a crash or an error between lock and
row, both inserts failing, two keys for one message. Correct: a message is
dispatched once and not lost; a confirmed opt-out is honoured.

**Ingress safety** (`ingress_pipeline.py`, `challenge_service.py`,
`safety_budget_service.py`, `circuit_breaker_service.py`). Keeps, per peer and
process, the state of a challenge, counters over windows, a quarantine with
cooldowns and a budget of turns. Meets everything that answers a customer. Hard:
gates in sequence over windows of different lengths. Correct: a burst is
contained, friction comes before quarantine, a patient peer is never locked out.

**Inbox, rotary routing and human takeover** (`app/routes/inbox_routes.py`,
`app/services/rotary_routing_service.py`, `app/routes/whatsapp_gateway_routes.py`).
Keeps `cs_agents`, `conversations` (status, agent, `bot_paused`, `bot_mode`),
`conversation_sessions` (the pause and its deadline), idempotency keys of agents'
messages, and a copy of the pause in every process. Does: give chats to the least
busy agent, take over, resolve, edit and delete agents, send agents' messages,
pause and resume by texts and commands. Hard: one fact in three places, each read
at another time. Correct: agents are not overloaded without bound, an agent's
message is not sent twice, the bot does not talk into a human's conversation.

**Quota and entitlements** (`quota_service.py`, `entitlement_service.py`,
`app/core/trial_guardrail.py`). Keep a balance inside `tenants.metadata`, read and
written back whole. Hard: lost updates; a top-up credited twice. Correct: balance
= plan + top-ups - uses.

**Subscriptions** (`app/routes/shop_subscription_routes.py`,
`subscription_service.py`, `affiliate_service.py`). Keep `shop_subscriptions`, end
dates in `merchants` and in `tenants`, two tables of commissions. Do: issue an
invoice, prorate an upgrade, activate on a callback. Hard: seven calls without a
transaction, of which the third makes every redelivery a no-op; a date computed a
day before it is used. Correct: a commission is booked once, a period that is paid
for is served.

**Subscription reminders** (`subscription_reminder_worker.py`, a worker of its own).
Keep flags in `tenants.metadata`. Do, every hour or when started: read all tenants,
send each the WhatsApp message of its last day and the e-mails that are due, write
the flags. Hard: the row is as old as the scan when it is written back. Correct: the
merchant is reminded once at most, and nobody's write is undone.

**Fulfilment** (`order_fulfillment_service.py`, `digital_fulfillment_service.py`,
`ctwa_fulfillment_service.py`). Sends the goods of a paid order once, and sets the
tier of the tenant. Hard: it reads the order from one database and writes
DELIVERED to another; an invitation to a class is looked up before Telegram is
awaited and stored after it, and DELIVERED is stored before the message goes out.
Correct: goods are sent once, and an order that is DELIVERED has been sent.

**Readers and reconciliation** (`app/api/v1/reader_router.py`,
`hybrid_reader_service.py`, `reconciliation_service.py`,
`app/workers/payment_reconciler_worker.py`). Match incoming transfers with orders
by amount. Only the router's endpoint is served: `HybridReaderProcessor` never
gets its database, and nothing starts the worker. Correct: a receipt pays one
order, an order is paid by one receipt.

**Payment core** (`app/payments/`), **payment orchestrator and payouts**
(`payment_orchestrator.py`, `payout_service.py`), **gym access**. Intents with
unique amounts, event rows with commissions, memberships. In the application that
is served nothing creates an intent; the orchestrator is called by tests; settling
a payout answers PAYOUT_DISBURSEMENT_LOCKED before it does anything; memberships
are renewed by the payment matcher only, which no served route calls.

**Booking and reminders**, **conversation engines, personas and AI**, **routes,
templates, migrations and scripts**. Dialogues, text generation, wiring and
one-off I/O.

## 2. What is modelled

### One order, one lock key

The payment models (`PaymentLock` to `TwoRails`) speak of ONE order: the rows with
its id, the lock key `lock:payment:webhook:{external_id}`, its entry in each
process's memory. Orders share nothing else on this path except a product's stock;
there the other orders are left out, so `stock` is the shelf as this order sees it.

### `PaymentLock`

`redisUp`, `redisHeld` are Redis; `client[w]` is `_redis_client` of worker `w`
with its throttle (`untried`, `connected`, `throttled`); `memHeld[w]` is the key in
`_in_memory_locks`. `TryLock(w, got)` and `Unlock(w)` are `acquire_payment_lock`
and `release_payment_lock`, each with its Redis branch and its fallback branch; a
call that raises may have been carried out by Redis all the same. Times to live
are `ExpireRedis` and `ExpireInMemory`, which the composing module lets happen
either at any moment (`EarlyExpiry`) or only when nobody works under the lock.

### `SettlementDB`

Committed rows are `status`, `payStatus`, `events`, `ledger`, `stock`. Each
transaction's uncommitted writes are in `tx[t]`, where they act as the row locks
and unique-key waits of READ COMMITTED: a statement of another transaction that
needs the row is simply not enabled. `broken` is PostgreSQL's aborted-transaction
state. LUNAS, PAID and COMPLETED, which the code treats alike, are one value
`"PAID"`; the pending spellings are one value `"PENDING"`. No migration in the
repository declares `orders.payment_status`, so it may start absent (`"none"`) or
pending. Commission rows are written in the same transaction as the ledger row,
guarded by the same event, and are part of that statement.

### `XenditWebhook`

A slot of `Deliveries` is one request at a time of one event at one worker. Its
label `pc[d]` is where `process_xendit_webhook_core` is:

| Label | Code in `app/routes/xendit.py` | Actions |
| --- | --- | --- |
| `check` | `_check_db_idempotency_sync` | `CheckHit`, `CheckMiss`, `CheckError` |
| `local` | settled set, non-payment statuses, acquire | `LocalHit`, `IgnoreNonPaid`, `AskLock` |
| `poll` | the loop of 50 ms waits of a refused delivery | `PollHit`, `PollMiss`, `PollError`, `GiveUp` |
| `lookup` | authoritative order / intent, amount, tenant | `LookupAccepts`, `LookupRefuses` |
| `event` ... `commit` | `_record_settlement_and_ledger_sync` | one per statement |
| `already`, `failed` | its early outcomes: release and answer | `AnswerAlreadySettled`, `AnswerFailed` |
| `sync` | the Supabase update after the commit | `SyncSupabase` |
| `release`, `finish` | first release; memory, tasks, second release, answer | `ReleaseLock`, `Finish` |

What runs between two labels runs in one thread without a statement that another
process could see in the middle. `release` and `finish` are two labels although no
`await` separates them: another worker's request may come between, and letting one
of the same worker come between too only adds behaviours.

The environment is in the model as well: `Crash(w)` empties a worker's memory and
its requests, and PostgreSQL rolls back its transactions; `LockChanges` takes Redis
down and up, lets entries expire and throttles end; `SellerUpdates` and
`SellerSyncs` are the seller's PATCH, first PostgreSQL and then Supabase;
`DbFaults` lets any statement or COMMIT raise, and a COMMIT that raises may have
committed. `tasks`, `RunTasks` are the asyncio tasks: created in memory, run
later, lost with the worker.

`dispatches`, `fulfilled` and `answers` are history variables; no guard reads
them (the fairness condition on redelivery reads `answers`, because HTTP 200 is
what makes the provider stop).

### `SettlementContract`

The abstract promise, with no provider, lock, transaction or worker: an order
becomes paid once, together with its credit and at most one unit of stock; only a
paid order is dispatched, once; only a paid order is confirmed to the provider.
`XenditWebhook!ImplementsContract` is the refinement: `paid <- Paid`,
`credited <- ledger # {}`, `sold <- Stock - stock`, and so on. It holds of the
webhook as a state machine, so also between its steps, after a crash, and when a
COMMIT succeeded but nobody heard.

### `UnifiedRail`

The callbacks `unified_qris_payment_webhook` (`CallbackKind` "qris") and
`reconcile_payment_webhook` ("checkout"), which differ in their guard and in what
they tell the customer, and `execute_order_settlement_transaction`, which both call.
A slot of `Callbacks` runs through the labels of `cpc`:

| Label | Code | Actions |
| --- | --- | --- |
| `notice`, `lock` | the lock, asked for before the status is looked at and never released | `LockRefused`, `AcknowledgeNotice`, `LockTaken` |
| `guard` | `orders.status` read through Supabase; an error stops nothing | `GuardStops`, `GuardPasses` |
| `state` | the transaction's own read of the status, without a row lock | `StateRejects`, `StateAccepts` |
| `event` ... `commit` | `execute_order_settlement_transaction`, one per statement; note the credit before the order row | `RecordCallback`, `CreditFirst`, `CreditTwice`, `MarkStatus`, `NoPendingRow`, `CreateOrder`, `SellUnit`, `NothingToSell`, `SoldOut`, `Entitle`, `EntitleFails`, `CommitRail` |
| `fallback` | after an error: UPDATE to PAID through Supabase | `MarkPaidAnyway` |
| `tell` | receipt or access, HTTP 200, whatever the settlement returned | `Tell` |

`EntitleFails` is the entitlement statement of `checkout_service.py:324-341`: its
error is swallowed with no savepoint, so the COMMIT that follows rolls back in
silence and SUCCESS is returned. The statement names columns (`feature`,
`is_active`) that no definition of the table in the repository has, so by these
schemas its failing is not a rare fault but the ordinary outcome (the sixth finding);
`Entitle` is a database that has them. `AgentReads` and `AgentMarksPaid` are mark-paid of
`d2c_order_routes.py:195-260`: the read and the update are two statements and the
update has no condition. `told`, `acked` and `swallowed` are history variables: what the
customer and the provider heard, and which callbacks under way have swallowed the
error of a write (of the entitlement statement, or of the fallback).

### `TwoRails`

Both rails share the lock key and the tables; a process of the server runs
requests of both. The module composes them: a step of one rail leaves the requests
of the other where they are, `WorkerDies` takes the requests of both, and
`DeadlockDetected` is PostgreSQL's answer to the two opposite orders in which the
rails write (`financial_ledger` then `orders`, and `orders` then
`financial_ledger`): when two transactions wait for each other, one is ended with
an error, which the Xendit rail answers with 503 and the other rail with its
fallback.

### `RailsContract`

What both rails, the agents and their faults may do to one order that awaits payment,
with no provider, lock or transaction: `Settle` (the credit, once, with PAID and at most
one unit), `MarkPaid` (PAID alone, which is what agents and the fallback do),
`Tell` and `Dispatch` (once, of a credited order). It is weaker than
`SettlementContract` in two points, and each is a finding: an order may be paid for
good without a credit, and the credit may come after PAID (the fourth); and the
customer may be told of an order that is not paid (the sixth), but only while a
request that swallowed the error of a write is under way, which is what `Excuse`
begins and ends. `TwoRails!ImplementsRailsContract` is the refinement, with
`paid <- Paid`, `credited <- ledger # {}`, `sold <- Stock - stock`,
`excused <- swallowed # {}`, `dispatched <- dispatches` and the history variable
`told` for itself.

### `InboundMessages`

A slot of `Requests` is one request in flight at one process; `batch` is the
payload that is delivered, for the first time, again, or at both processes at once.

| `stage` | Code | Actions |
| --- | --- | --- |
| `dup` | an opt-out asks `is_duplicate` first, on a key of its own | `AskDuplicate` |
| `suppress`, `undo` | `record_durable_suppression`; if no store took it, give the key back and answer 503 | `Suppress`, `Undo` |
| `fast` | `whatsapp:fastlock:*`, SET NX; an error stops nothing | `FastLock` |
| `sql`, `psycopg` | the two ways to INSERT the event row | `InsertSqlAlchemy`, `InsertPsycopg` |
| `memory` | `_in_memory_durable_events` when both raised | `InsertMemory` |
| `answer` | HTTP 200, then the background tasks | `Answer`, `Dispatch` |

A call to a faulty store may fail, and one that failed may have been carried out.
`Contact` is `is_phone_suppressed` when somebody wants to write to a customer.
`KeysExpire`, `RedisLosesData` and `ServerCrashes` are the environment. Which faults
a behaviour may have is chosen at its start (`faults`), so that properties can say
"as long as one store works". An opt-out ends its request: what stands behind it
in the payload is not looked at, and the model does the same.

### `IngressGate`

`evaluate_ingress` for one peer in one process, one action per branch of
`ChallengeService.evaluate` (`ChallengeExpires`, `HumanReplies`,
`BurstWhilePending`, `WrongReply`, `BurstChallenged`, `PassesGate`); the layers
behind it (`Layer4`, `Contain`, `Reserve`) run in the same call and are part of the
action. Time passes in ticks (`Tick`). A list of timestamps is the function that the
code computes from it: how many messages are younger than n ticks, for every n up to
the longest window; a window's count is one value of it. `OwnerPauses` and
`OwnerResumes` are the owner's commands, of which the second also lifts a
quarantine.

### `TenantBooks`

The record `tenants.metadata` of one tenant (sessions left, bought and used, how many
invoices `billing_invoices_history` lists, and two flags) and the writers that read
it, change a copy and write the copy back whole: `ChargeBegins` / `ChargeWrites`
(`decrement_session_quota_if_eligible`, with the window of a contact that is marked
before anything is read), `TopUpBegins` / `TopUpWrites` / `InvoiceWritten` (the
top-up branch of the webhook and `increment_session_quota`, with its second write
when the invoice row fails), `FulfilmentBegins` / `TierReads` / `TierWrites` /
`Deliver` (`handle_order_paid_fulfillment`, which sends the goods too), and
`ScanBegins` / `Remind` / `RemindsNot` / `ScanWrites` (`run_reminder_scan` and
`evaluate_and_process_tenant`, for a tenant whose plan ends within the day). All
calls to the databases are synchronous, so a process does one job at a time; the
reminder is awaited between the read and the write, which is why it is a step of its
own. `oneDatabase` says whether `DATABASE_URL` and Supabase are the same database,
which the code leaves open. `stale`, `lost`, `beside`, `unmarked` and `slipped` are
history: which copies are out of date, whether one was written, whether two
fulfilments overlapped, whether DELIVERED could not be written, whether two scans
overlapped or the flag of a reminder was not written.

### `ReaderMatch`

`receive_notification`: `SelectInPostgres` or else `SelectInSupabase` takes the
newest PENDING order of the amount, `MarkPaid` updates it by its id alone, `Report`
tells Meta. All orders and receipts have one amount and one tenant, the only case
in which they can be mistaken. The fulfilment of this handler is never started
(`asyncio` is not imported in the module and the error is caught), so it is not an
action. `SellerCancels` interferes.

### `AgentDesk` and `HumanHold`

`AgentDesk` has the rows of agents and chats. `assign_inbound_chat` is two steps,
`SelectAgent` and `Assign`, because READ COMMITTED without FOR UPDATE does not keep
two processes apart; `Assign` looks at the chat's id only, fails on the foreign key
when the agent is gone, and gives the chat back to the bot when there was no agent.
`TakenBy`, `SetBotMode`, `Resolve`, `MarkUnassigned`, `Escalate`, `UpdateAgent`,
`DeleteAgent` are the other writes of the inbox and the gateway. An agent's message
goes `CheckKey`, `TakeOver`, `Dispatch`, `SaveKey`, one step per await, and the key
of a retry is that of the first request (`KeyOf`). `presence` and `is_active`, which
are read together, are one flag; `muted` is `bot_paused` or `HUMAN_ACTIVE`; ties
between agents go to any of them.

`HumanHold` adds the session with its deadline, the memory every process keeps of
it, and the turns of the bot: `Arrives`, `Ingress` (what the process remembers,
else the session, which it then remembers for good), `GuardSession`, `GuardAgain`
and `GuardRow` (the two tables one after the other), `Answer`. Customers' texts
(`WriteSession`, `WriteRow`), owners' commands (`OwnerCommand`), deadlines and
restarts run beside them. A turn that meets a mute goes silent; errors of a read let
it go on, which `blind` records. `Witness` is conjoined to every step and notes, for
the turns under way, when session and row let the bot speak.

### `Subscriptions`

| Action | Code |
| --- | --- |
| `Issue` | `create_subscription` with `calculate_upgrade_proration`: the end date goes into the invoice's metadata, or the callback will bring none |
| `Pay`, `Midnight` | Xendit's invoice, payable for 24 hours; the calendar |
| `Activate` | the callback's check for an ACTIVE row, then `process_successful_subscription` |
| `Commission` | `allocate_upgrade_commission` and the choice of the end date |
| `InsertActive` | the ACTIVE row; an exception up to here is the answer (`Raises`) |
| `Book` | `shop_commission_ledger`; its exception is logged |
| `UpdateMerchant`, `UpdateTenant` | the two end dates; an exception is logged and skips the rest (`StopsHalfWay`) |

Callbacks may come any number of times at any process. What these operations write
and none of them reads is left out (`merchants.status`, the reservation of the slug,
entitlements, the tier). Every invoice has an affiliate who may be paid. No
activation takes until the next day, so `day` is one number for all steps of it.
`UpdateTenant` also writes `tenants.metadata` back whole, a fifth writer of the
record of `TenantBooks`; the two modules are not composed.

### `InviteLinks`

One order of a class whose goods are an invitation to a Telegram group that admits
one person. `row` is the order: both statuses, whether any of the places that
`get_stored_telegram_link_from_order` looks at holds a link, and
`metadata.fulfillment_status`. `linked` and `closed` are the two kinds of entries in
`_ISSUED_TELEGRAM_LINKS_CACHE` of each process. A call of
`fulfill_onlineboost_ctwa_order` is a task of its process: `ask`, `made` (Telegram has
made the link, its answer is on the way), `store` and `again` (the two updates),
`send`, `report`, `close`.

| Action | Code |
| --- | --- |
| `Begin` | the order is read, refused unless both statuses are paid, and a known link used again, or nothing done when it is DELIVERED; an order that cannot be read passes the check (`NotRead`) |
| `Create`, `Receive`, `InviteFails` | `createChatInviteLink`, awaited for 10 seconds; a failure writes PENDING_RETRY over the metadata |
| `Store` | the update through Supabase, then the one through PostgreSQL; neither looks at the status again |
| `Send`, `ReportPurchase`, `Close` | the message, the event for Meta, the process's note that it is delivered |
| `Settles`, `SellerSets` | the settlement pays both statuses; the seller writes one |

`Runs` is the event loop: nothing is awaited between Telegram's answer and the
message, so no other call of the process takes a step there. The settlement and the
seller's endpoints start such calls; here they start at any time. Left out: the table
`telegram_single_use_tokens`, which these calls write and do not read, with the
command that renews a link and the listener that claims it; and the message that
the link will follow.

### `MCTenant`

The components that belong to a tenant do not touch each other in the code, except
where a module above already holds both sides. In a behaviour only the names in
`part` run: `gate`, `reader`, `desk` (the router with all chats), `send` (one chat and
agents' messages), `hold` (one chat and the bot's turns), `plan`, `invite`, or two of the four
writers of the books (`charge`, `topup`, `goods`, `remind`), each by both processes.
The rest stays as it started. The states of the parts add up instead of multiplying,
and nothing is lost because no step of one part enables or disables one of another.
The writers do meet, and the run takes them two by two; the theorems of section 4
have all four at once. The two processes are alike in every part, which is the
symmetry set; `invite` has processes of its own, of which one runs at least two of
the three calls.

## 3. What TLC checks

| Run | Question | Result |
| --- | --- | --- |
| `settlement_broken_lock` | Is the database enough? Two events of one payment at two workers; Redis down, restarted empty, timing out, entries expiring early; statements and commits fail; one crash. | `TypeOK`, `PaidExactlyWhenCredited`, `ClaimsAreTrue`, `ImplementsContract` (one dispatch and one unit among other things) hold |
| `settlement_reliable_lock` | What does a working lock add, and does it finish? A duplicate, an order that is absent or cancelled, an intent in memory, a seller who cancels meanwhile, a notice that is no payment, an empty shelf, failing stock statements. | `AloneUntilPaid`, `PaymentIsFinal`, `EveryRequestAnswered`, `PaidAndFulfilled` hold |
| `settlement_lost_ack` | Is an acknowledged payment settled? | `AcknowledgedPaymentSettles` is violated |
| `settlement_stock_error` | Does a failing stock statement leave the books in order? | `PaidExactlyWhenCredited` is violated |
| `two_rails` | What when both rails settle one order? A Xendit delivery, a checkout and a QRIS callback and an agent; entries of the lock expire early, statements of the second rail fail, the entitlement statement with its swallowed error among them, one crash. | `BothTypeOK`, `CreditedOncePaid`, `OnlyTheSettlerDispatches`, `ImplementsRailsContract` hold |
| `two_rails_faults` | And when everything beside it fails? An order that may be absent, an empty shelf, notices, entitlement errors, Supabase errors, a seller who cancels. | `OneJustifiedCredit`, `EveryRequestEnds` hold |
| `rail_notice` | Does an acknowledged callback settle? | `AcknowledgedCallbackSettles` is violated |
| `rail_sold_out` | Has every paid order a ledger entry? | `PaidHasLedgerEntry` is violated |
| `rail_entitlement` | Is the customer told of a paid order only? One callback, a full shelf, and nothing fails but the entitlement statement. | `ToldOnlyPaid` is violated |
| `messages` | Are messages dispatched once and opt-outs kept? Two processes, a message, an opt-out or both in either order, deliveries at any time, stores that fail, keys that end, crashes. | `InboundTypeOK`, `DispatchedTwiceOnlyByMemory`, `AcknowledgedOptOutIsKept`, `ConfirmedOptOutIsHonoured`, `EveryMessageIsDispatched` hold |
| `tenant` | Do the parts of a tenant keep what they promise beside their own second process, their people and their faults? | the fifteen properties below hold |
| `topup_twice` | Is a top-up that was paid once credited once? | `TopUpCreditedOnce` is violated |

The properties of `tenant`:

| Part | Property | What it says |
| --- | --- | --- |
| all | `TenantTypeOK` | types of what runs |
| gate | `TurnsBounded` | since the last resume a peer never got more turns in a burst window than loop containment allows, whatever challenges and quarantines came between |
| gate | `FrictionBeforeBurstQuarantine` | a burst meets a challenge before it meets a quarantine |
| gate | `PatientPeerMissesOneMessage` | a peer that waits between its messages loses at most one in a row |
| books | `BalanceIsCoherent` | sessions left, used and bought add up, whichever copy was written last, and the record lists no invoice without its sessions |
| books | `LostOnlyToStaleCopies` | a charge or top-up is lost only because a stale copy was written back |
| books | `SentTwiceOnlyUnmarked` | goods leave twice only with two databases, two fulfilments at once, or an unwritten DELIVERED |
| books | `RemindedTwiceOnlySlipped` | the merchant is reminded twice only with two scans at once, a flag that was not written, or a stale copy written over it |
| reader | `OneReceiptOneOrder` | receipts and orders are matched one to one, up to the three causes the handler leaves open |
| desk | `OverloadBounded` | the router overloads an agent by at most one chat per process beyond the first |
| send | `ResentOnlyUnrecorded` | a message leaves twice under one key only if the first was unrecorded when the second asked, or an error hid it |
| hold | `AnswersOnlyWhenFree` | the bot answers only what session and row each allowed at some time since the message came, or could not be read |
| plan | `CommissionsAreDue` | an invoice is booked twice only by activations that could not see each other; no upgrade is recorded before its affiliate's row |
| plan | `PaidPeriodIsServed` | a recorded period is the tenant's, unless its activation is at work or stopped half-way, or an upgrade with an older date put the end back |
| invite | `AccessGivenOnce` | one link, one message and one reported purchase for an order, unless two calls ran beside each other before a link was stored, a link was lost before that, or the order could not be read; and DELIVERED means sent, unless the message failed or the process died |

Several of these name the causes under which the code does go wrong. The point of
such a property is that there is no other cause, and each cause does occur in the
instances: without it the property is violated.

**Bounds of the payment runs.** Two workers are enough for every disagreement about
the lock (one with Redis, one without) and every race about a row; the third slot of
`settlement_reliable_lock` is a duplicate of the first event, so that the waiting
delivery and the racing one are both there. `MaxPolls` is 1 instead of 6: a turn of
the loop has no effect but the counter, so one turn and none are the two cases.
`MaxCrashes` is 1; the theorems have no bound on any of these. `Stock` is 2, so that
a second deduction would be seen and not just refused; `settlement_reliable_lock` uses
0, because its question about the shelf is whether an empty one stops a fulfilment.
That run has neither failing statements of the transaction nor crashes, which would
multiply its behaviours without bearing on the lock; the theorems `LockKeepsAlone` and
`PaymentStays` have both, with any stock.
`two_rails` has three requests, so that all pairs of endpoints meet, and a third
may come while two wait for each other; `two_rails_faults` and the runs with a
violation need no more than one callback.

**Bounds of `messages` and `tenant`.** `messages`: two processes with one request
each, because what one request can do to another it does at another process or
before it; payloads of one and two messages; every set of faults for the short
payload and for the one in which the opt-out hides a message. *gate*: windows of 2,
4 and 5 ticks and limits of 3, 5 and 6 keep the order of the code's windows (5, 10
and 60 seconds) and of its limits; the first cooldown is longer than the burst
windows and shorter than the velocity window, as in the code, the later ones are
longer; a budget of 7 turns allows a quarantine, its end, and another. *books*: two
processes, at most two charges, two top-ups, two fulfilments and two reminders, of
which two kinds meet, each of the troubles of a deployment with one database, and a
deployment with two. *reader*: three orders of
one amount, two receipts of which one is posted again. *desk*: three chats, two
agents with room for one or two, one edit. *send*: a request and its retry. *hold*:
two turns, two processes. *plan*: two invoices, three activations (both, and a
duplicate), one midnight, so that an upgrade can be paid the day after it was issued
and a renewal come between; a period of three days and a trial of one keep the order
of the dates. *invite*: three calls, of which two or three share a process, so that
they meet in one event loop and across two. The theorems of section 4 have none of these bounds.

**What the customer is told.** `ToldOnlyPaid` is what the documents say and does not
hold: the sixth finding. What does hold is that there is no other way to it. A callback
whose COMMIT was rolled back in silence, and one whose transaction and whose fallback
both failed, tell the customer of an order that is not paid; no race with the other
rail, empty shelf, lost COMMIT or deadlock does. This is the contract's `Tell`, which
`two_rails` checks with entitlement errors, and the theorem `ToldOfPaid`
(`UnpaidIsSwallowed`), which has Supabase errors too.

**What holds only without some faults.** `CreditedOncePaid` is checked with failing
statements and without sellers: a seller's CANCELLED over an order that the second rail
settled (in `status` alone) makes the order payable again. A second unit may then be
sold; `OneJustifiedCredit` says that the ledger still has one credit.
`AcknowledgedOptOutIsKept` needs a working store and no crash,
`ConfirmedOptOutIsHonoured` a working store; the faults are named in the properties.
So the opt-out that is lost when the process dies between key and record, or when both
stores fail and the key cannot be deleted, is exempted and not excluded, and so are the
causes that `SentTwiceOnlyUnmarked` names. `OnlyTheSettlerDispatches` counts what the
webhook dispatches; what two agents start when both mark one order is not counted.

**A broken lock and an order that is not waiting.** When the order is absent or
CANCELLED, the conditional UPDATE finds no row and the code writes it with an
upsert that has no condition. Two settlements in that branch are kept apart by the
lock only, and with a broken lock both would dispatch. `settlement_broken_lock`
therefore starts from a waiting order that no seller touches (`OnlyTheDatabase`), and
`settlement_reliable_lock` covers the other starts (`ReliableLock`); the theorems hold
under either. A
seller who sets a *paid* order back to PENDING makes it payable again; that is the
seller's doing, and the seller of `settlement_reliable_lock` writes CANCELLED only.

**Fairness.** `settlement_reliable_lock`: weak fairness of each request's next step (a thread
or coroutine that can run does run, and PostgreSQL grants a row when it is free), of
created tasks, and of redelivery of an event that has not been answered with HTTP
200, which is what providers do on 4xx/5xx. No fairness for faults, expiry or
redelivery of an accepted event.

`two_rails_faults`: strong fairness of each request's next step, except
for statements that raise, and weak fairness of the deadlock detector. Strong,
because a row may be taken by somebody else between two tries; PostgreSQL queues
those who wait for a row in the order they came, so a request for which the row
becomes free again and again does get it. Nothing is assumed about new requests,
the seller or the lock's expiry.

`messages`: weak fairness of each request's next step and of each background task:
the event loop runs what it has accepted. Nothing is assumed about deliveries,
redeliveries or faults.

**Deadlock** (of TLC: a state without a successor) is checked in every run except
`tenant` and `topup_twice`, whose jobs are bounded in number (`MaxCharges`,
`MaxCredits`, `MaxSends`, `MaxReminders`, `MaxActivations`, the requests of agents, the turns of the
bot), so that a part comes to rest when they are used up.

### Findings

1. *A payment can be acknowledged and never settled* (`xendit.py:883-893`). A
   delivery that is refused the lock polls for about 300 ms and answers HTTP 200
   `ALREADY_PROCESSING`. If the holder then fails, the provider has been told that
   the event is delivered.
2. *An SQL error of the stock statement marks the order paid and books nothing*
   (`xendit.py:594-599`). The error is swallowed with the transaction open and no
   savepoint; COMMIT rolls back in silence, the Supabase update marks the order
   PAID, and the goods are sent. The docstring (`xendit.py:414`) promises atomic
   recording.

3. *A notice makes the payment after it a no-op* (`payment.py:526`,
   `checkout_flow_service.py:309`). The lock is taken for 300 seconds for every
   status and never released; a payment refused the lock is answered HTTP 200.
   `ARCHITECTURE.md:1227` promises recovery of late payments with no false rejection.
4. *A settlement that fails is marked PAID without a ledger entry*
   (`checkout_flow_service.py:353-361`, `payment.py:564-573`), for instance when the
   shelf is empty. `ARCHITECTURE.md:5443` demands an entry for every paid order.
5. *A top-up that is delivered again is credited again* (`xendit.py:750-778`). The
   top-up branch stands before the idempotency check and `increment_session_quota`
   looks for no earlier invoice; the docstring (`xendit.py:697`) promises 200 on a
   replay "tanpa duplicate mutation".
6. *The second rail tells the customer of a payment that it rolled back*
   (`checkout_service.py:326-344`). The entitlement statement inserts into columns that
   no definition of the table in the repository has
   (`scripts/migrations/20260911_entitlement_engine.sql:79-93`,
   `scripts/migrations/create_entitlements_manual.sql:37-45`,
   `entitlement_routes.py:38-44`). Its error is swallowed with the transaction open and
   no savepoint; COMMIT rolls back in silence, SUCCESS is returned, and the caller sends
   the asset or the receipt while the order is PENDING. The docstring
   (`checkout_service.py:150-151`) promises a single atomic transaction,
   `ARCHITECTURE.md:136` and `:3088` delivery on PAID only.

The passing runs that speak of the books set `StockFaults` to FALSE because of the
second finding; `settlement_reliable_lock` has it TRUE, where the claims are about the
lock, the order's row and the fulfilment.

### Met on the way, without a run

Seen while the code was translated. The models follow the code in all of them where
they are in scope.

* *Opt-outs.* What stands behind an opt-out in a payload is acknowledged and neither
  recorded nor dispatched (`whatsapp_webhook.py:377`). An opt-out that was
  acknowledged as a duplicate is lost when both stores had failed or the process
  died before it was stored. START, the way back, is handled nowhere.
* *Gates.* The state `ESCALATE_TO_QUARANTINE` of Gate C quarantines nobody: the next
  message is treated like any other (`challenge_service.py:150`, `ingress_pipeline.py:410`).
  `used_turns` is never reset. The Evolution webhook and `process_inbound_message`
  both evaluate the ingress, so a message counts twice.
* *Pauses.* A process that has seen a session open remembers it for good.
  `ARCHITECTURE.md:3941` and `:5137` speak of an automatic resume after
  `paused_until`: no code clears `conversations.bot_paused`, and the ingress does not
  read the deadline. The owner's `!resume` (`ARCHITECTURE.md:444`) leaves the row
  muted; resolving a chat in the inbox leaves the session paused; an owner's pause
  over a session with an expired deadline does not stop the guards.
  `ingress_pipeline.py:372-378` says that a customer's control command is ignored; the
  toggle of the gateway executes it. The tenant-wide pause and all later checks are
  skipped for direct messages (`whatsapp_gateway_routes.py:925-950`).
* *Desk.* PROCESSING, for which `inbox_routes.py` would answer 409, is never written.
  A hard-deleted agent leaves chats `assigned` to nobody. A routing decision "no
  agents" takes a chat back from a human who has taken it since.
* *Fulfilment.* It reads the order from PostgreSQL and writes DELIVERED to Supabase.
  `ctwa_fulfillment_service.py:318-351` writes Supabase and then PostgreSQL, both
  without a condition: an order that the seller cancelled while Telegram was awaited is
  PAID again. Its pending retry is never retried. It refuses an
  order whose payment status is filled and not a paid value, and the seller's endpoints
  write the other status only: an order whose payment status still says unpaid gets no
  invitation when the seller marks it paid by hand. (An empty payment status passes; the
  module's order starts with PENDING, one of the values the settlement's UPDATE expects.)
  Its promise of one link (`:13`, "cegah link ganda saat retry") holds up to the causes
  that `AccessGivenOnce` names. The command that promises a new link
  (`telegram_commerce_service.py:836`) answers with the old one, which may be used up,
  as long as the process remembers it (`ctwa_fulfillment_service.py:58`).
* *Reminders.* The worker writes back, with its flags, the row it read when its scan
  began, so a charge, a top-up or an upgrade made while messages went out is undone; and
  any other writer of the record may undo the flag, after which the merchant is reminded
  again, although the worker promises "Maksimal Tepat 1 Kali"
  (`subscription_reminder_worker.py:21`). `RemindedTwiceOnlySlipped` names these causes.
  Nothing resets `wa_reminder_sent`: a merchant who renews is never reminded again.
* *Missing imports* that make a branch raise: `asyncio` in `reader_router.py` and
  `hybrid_reader_service.py`, and names in `payments/service.py:446` and `:465` and
  `matcher.py:393`. The first is why the reader fulfils nothing.
* *Subscriptions.* The ACTIVE row is inserted before the merchant and the tenant are
  updated, and errors of those are logged: the callback succeeds, a redelivery is
  "already processed", and the tenant is never activated (`PaidPeriodIsServed` names
  this). A renewal starts a new period from today, so the days left are lost. An
  upgrade without a date keeps an end date that may have passed. A tenant whose
  status is neither TRIAL nor expired upgrades at the prorated price to the trial's
  end. Issuing an invoice sets `merchants.status` to PENDING_PAYMENT for an active
  merchant too.

## 4. What is proved

Every theorem is for any values of the constants, under the named assumptions of the
modules on their types, and without the bounds of section 3.

| Theorem | Statement | Hypotheses |
| --- | --- | --- |
| `TypeCorrect` | `Spec => []TypeOK` | none |
| `PaymentStays` | `Spec => PaymentIsFinal` | none |
| `LockKeepsAlone` | `Spec => []AloneUntilPaid` | `ReliableLock` |
| `SettlementInvariant` | `Spec => []SettlementInv` | `OnlyTheDatabase` or `ReliableLock` |
| `PaidWhenCredited` | `Spec => []PaidExactlyWhenCredited` | the same |
| `SingleDispatch` | `Spec => []DispatchedAtMostOnce` | the same |
| `SingleUnit` | `Spec => []OneUnitPerPayment` | the same |
| `ClaimsCorrect` | `Spec => []ClaimsAreTrue` | the same |
| `Implementation` | `Spec => ImplementsContract` | the same |
| `BothTypeCorrect` | `BothSpec => []BothTypeOK` | none |
| `CreditJustified` | `BothSpec => []OneJustifiedCredit` | none |
| `CreditedIsPaid` | `BothSpec => []CreditedOncePaid` | `NoSeller` |
| `SoldWithCredit` | `BothSpec => []SoldOnlyWithCredit` | `OrderAwaitsPayment` |
| `ToldOfPaid` | `BothSpec => UnpaidIsSwallowed` | `OrderAwaitsPayment` |
| `SettlerDispatches` | `BothSpec => []OnlyTheSettlerDispatches` | `OrderAwaitsPayment`, no `StockFaults` |
| `CreditStays` | `BothSpec => [][ledger # {} => ledger' = ledger]_allVars` | none |
| `PaymentStaysOnRails` | `BothSpec => PaymentIsFinal` | `NoSeller` |
| `RailsImplementation` | `BothSpec => ImplementsRailsContract` | `OrderAwaitsPayment`, no `StockFaults` |
| `InboundTypeCorrect` | `InboundSpec => []InboundTypeOK` | none |
| `OneDispatch` | `InboundSpec => []DispatchedTwiceOnlyByMemory` | none |
| `OptOutIsKept` | `InboundSpec => []AcknowledgedOptOutIsKept` | none |
| `OptOutIsHonoured` | `InboundSpec => []ConfirmedOptOutIsHonoured` | none |
| `IngressTypeCorrect` | `IngressSpec => []IngressTypeOK` | none |
| `TurnsAreBounded` | `IngressSpec => []TurnsBounded` | none |
| `FrictionComesFirst` | `IngressSpec => []FrictionBeforeBurstQuarantine` | none |
| `PatientPeerIsServed` | `IngressSpec => []PatientPeerMissesOneMessage` | none |
| `BooksTypeCorrect` | `BooksSpec => []BooksTypeOK` | none |
| `BalanceAlwaysCoherent` | `BooksSpec => []BalanceIsCoherent` | none |
| `NothingIsInvented` | `BooksSpec => []NothingInvented` | none |
| `OnlyStaleCopiesLose` | `BooksSpec => []LostOnlyToStaleCopies` | none |
| `SentTwiceNeedsACause` | `BooksSpec => []SentTwiceOnlyUnmarked` | none |
| `RemindedTwiceNeedsACause` | `BooksSpec => []RemindedTwiceOnlySlipped` | none |
| `OneProcessLosesNothing` | `BooksSpec => []AlonePromise` | one process |
| `ReaderTypeCorrect` | `ReaderSpec => []ReaderTypeOK` | none |
| `ReceiptsMatchOrders` | `ReaderSpec => []OneReceiptOneOrder` | none |
| `DeskTypeCorrect` | `DeskSpec => []DeskTypeOK` | none |
| `LoadBounded` | `DeskSpec => []OverloadBounded` | none |
| `KeyProtects` | `DeskSpec => []ResentOnlyUnrecorded` | none |
| `HoldTypeCorrect` | `HoldSpec => []HoldTypeOK` | none |
| `HoldImplementsDesk` | `HoldSpec => DeskSpec` | none |
| `BotKeepsSilent` | `HoldSpec => []AnswersOnlyWhenFree` | none |
| `PlanTypeCorrect` | `PlanSpec => []PlanTypeOK` | none |
| `PlanInvariant` | `PlanSpec => []PlanInv` | none |
| `CommissionsAlwaysDue` | `PlanSpec => []CommissionsAreDue` | none |
| `PaidPeriodsAreServed` | `PlanSpec => []PaidPeriodIsServed` | none |
| `InviteTypeCorrect` | `InviteSpec => []InviteTypeOK` | none |
| `AccessIsGivenOnce` | `InviteSpec => []AccessGivenOnce` | none |
| `TenantImplementsParts` | `TenantSpec =>` the specification of each part, and of the desk | none |
| `TenantTypeCorrect` | `TenantSpec => []TenantTypeOK` | none |
| `TenantKeepsPromises` | `TenantSpec => []` of the fourteen other properties of `tenant` | none |

`OnlyTheDatabase`: the order starts PENDING, `SellerStatuses = {}`, no
`StockFaults`; `LockFaults`, `DbFaults`, `EarlyExpiry` are arbitrary.
`ReliableLock`: no `LockFaults`, no `EarlyExpiry`, no `StockFaults`, the seller
cancels at most; the order may start absent or cancelled, `DbFaults` are arbitrary.
Both need that no other rail writes the tables (`Txns = Deliveries`). `NoSeller` is
`SellerStatuses = {}`, and `OrderAwaitsPayment` adds a PENDING start; the lock, the
faults and the crashes of both rails are arbitrary there, except those the table
names. None of these conditions is idle: without any one of them TLC finds the
promise broken. `StockFaults` leads to the second finding; a seller's overwriting
makes an order payable again. Entitlement errors and Supabase errors are arbitrary in
all of the theorems: what they do to the customer is in the statement of
`UnpaidIsSwallowed` and of the contract's `Tell`, not in a hypothesis.

`IngressGate` has three more assumptions on its constants, one for each promise:
`CooldownAssumption`, every cooldown (30 seconds at least) is as long as the burst
window (10 seconds); `FrictionAssumption`, the messages that Gate C lets through
unchallenged in as many of its windows as cover the burst window are fewer than the
burst limit (2 windows of 5 seconds, 2 messages each, against 5: the code's numbers
leave no slack); `PatienceAssumption`, what patience means. TLC evaluates them for
the instance of `tenant`.

### The settlement

None of the promises is inductive: that only one delivery dispatches depends on who
may still commit. `SettlementInv` says why one is elected:

* `RowsAgree`: the committed rows tell one story (unpaid with no credit and no
  event, or paid with both). `payment_status` tells it, which the seller does not
  touch; `status` may say CANCELLED on top of it;
* `WrittenSoFar`: what a transaction has written follows from its label, so an
  uncommitted credit or unit is accounted for;
* `OneSettles`: at most one delivery is past its `UPDATE orders` and before its
  commit, because it holds the row, and while it is there the order is unpaid;
* `OneDispatches`: the delivery that committed is the only one between `sync` and
  `finish`, and nothing has been dispatched before it gets there;
* `ClaimsAreTrue`: memory and answers are never ahead of the rows.

One step can break it: a delivery that found no row to update and forces its way with
an upsert (`xendit.py:463-500`), beside another that is settling. This is where the two
hypotheses part. Under `OnlyTheDatabase` nobody forces (`NobodyForces`): whoever finds
no row to update finds the order paid. Under `ReliableLock` the order may be absent or
cancelled and deliveries do force, but the lock keeps the others out (`LockGuards`):
whoever is in the locked part holds the entry in Redis, or the order is paid, and
`AloneUntilPaid`. The two releases at the end of each settlement, which name no owner,
are why "or the order is paid" is there.

`FinalInv`, for `PaymentStays`, needs neither: what writes PAID into `status` writes it
into `payment_status` too, and no statement takes that back.

The proof splits the step by who takes it. Statements of a transaction
(`StatementInv`, `CommitInv`, `RollbackInv`, `RecordInv`), steps outside one
(`OutsideInv`, `ConcludeInv`), crashes (`CrashInv`) and steps that touch none of
this (`FrameInv`) are lemmas; `HandleCallsLock` and `HandleRunsStatement` say once
which part of the lock and of the tables a request's step is, so that type
correctness does not look at thirty actions twice. `Implementation` uses
`SettlementInv` as a hypothesis on each step: a commit maps to `Settle` (or to a
stutter when broken or rolled back), `Finish` to `Dispatch`, an answer
ALREADY_PROCESSED to `Confirm`, the first `RunTasks` to `Fulfil`.

### Both rails

Here the payment lock is no help (it outlives its delivery on one rail and the agent
does not ask for it), and the rails write in opposite orders. The invariants form a
chain, each with fewer hypotheses than the next:

* `JustifiedInv`, with none: the unique index of the ledger elects one credit at a time
  (`CreditElectsOne`), and a transaction that inserts one has inserted its event or
  found it processed. It is enough for `OneJustifiedCredit`, also when the order is
  cancelled and paid again meanwhile.
* `CreditedInv`, without a seller: who commits a credit has written the order, or goes
  without it because the order, which it had found pending, has become paid.
* `ElectedInv`, for an order that awaits payment: the row elects one transaction of
  both rails while it is PENDING, and nobody inserts or forces it.
* `SoldInv`: a unit goes with a credit. A delivery of the Xendit rail asks for it after
  its credit, whose insert it would have lost only if the order had been taken.
* `ToldInv` and `SettledInv`: a callback that goes on to tell the customer has found
  the order paid, committed it or marked it, or is in `swallowed`, and so is one whose
  transaction is broken; a delivery that goes on to dispatch has
  written `payment_status`, which only that rail writes.

Every step is a step of a delivery, of a callback, of the agent or the seller
(`Overwrites`), a death of a worker or a deadlock's victim (`Dies`), or touches nothing of
this (`Rests`): `BothSteps`. What a step of a rail does to the tables is one of a
dozen statements, and `StatementsWrite` says of each what it leaves in its own
transaction and that it leaves the others alone. So the step lemmas speak of one commit
at a time: `CommitJustified`, `CommitCredits`, `CommitElected`, `CommitSells`.

`RailsImplementation` puts the chain together. `RailsInv` is the conjunction of all of
the above and `PayCreditedInv` (when `payment_status` says PAID, the ledger has the
credit), which the contract's `Dispatch` needs and no invariant of the chain says.
Under it every step of the two rails is one of five kinds (`RailsKinds`): `Unseen`,
which touches no table and tells nobody, though an error may be swallowed or a request
that swallowed one may end; `SettlesOne`, a COMMIT of either rail
(`CommitSettles`: its credit is the first, it takes a unit or none, and it has written
the order or found it paid); `MarksPaid`, an agent or a fallback; `TellsOne`, a message
to the customer; `DispatchesOne`. They map to a stutter or `Excuse`, `Settle`,
`MarkPaid` (`Tell` or a stutter when it was paid before), `Tell`, and `Dispatch`
(`RailsStep`).
The hypotheses are those of `SettlerDispatches`; the lock, crashes, lost commits,
failing statements of either rail, swallowed ones included, notices and the number of
requests are arbitrary.

`CreditStays` needs none of them: no statement of either rail, and no seller, replaces
or deletes a credit. `PaymentStaysOnRails` adds that without a seller no rail takes PAID
back, so the contract's "for good" holds of order and ledger under weaker hypotheses
than the refinement.

### The other components

*`InboundMessages`.* `StageInv` ties a request's stage to the message it holds.
`OneClaim` says that a message nobody took by memory is in one place at most (queued
in one request, among one process's tasks, or dispatched once), and then has a row:
the insert that creates the row is where the claim is made. For opt-outs, `KeptInv`
says that what a request has passed `record_durable_suppression` with, or a customer
was confirmed, is in a store that does not fail; `AckInv`, without crashes, that a key
of the duplicate check or an acknowledgement means that the opt-out is there or that
a request is about to put it there.

*`IngressGate`.* Three invariants, one for each promise, over `HistoryInv` (a longer
window counts no less). `TurnsInv`: the turns of a peer are among what loop containment
counts, and the last turn of a peer in quarantine lies so far back that none is left in
the window when the cooldown ends, although the quarantine forgets what was counted.
`FrictionInv`: until the first challenge layer 4 counts no more than Gate C, and the
messages are `Spaced`: in any k windows of Gate C there are at most k times what one
window lets through. That is stated for every k at once, so a step preserves it
without induction. `PatienceInv`: windows, challenge and cooldown lie no further back
than the last message, so after a silence of `Patience` only an expired challenge can
still drop one.

*`TenantBooks`.* The invariants speak of the record and of every copy in flight,
because a copy may be written back at any later time: `BalanceInv` (each of them adds
up, and the copy of a top-up that may still list its invoice has the sessions for it,
`Unlisted`), `BackedInv` (none holds more than was written), `FreshInv` (until a stale copy is
written, the record has everything, and a copy that is not stale equals it).
`SendsInv` says that with one database, one fulfilment at a time and no failed
DELIVERED, goods have been sent only if DELIVERED is there. `RemindInv` says that with
one scan at a time and no flag left unwritten, a reminder that was sent is flagged in
the record or about to be, and a scan that read no flag finds none sent; it needs
`FreshInv`, because it is the other writers who must carry the flag along.
`OneProcessLosesNothing` turns these conditional promises into plain ones for a server
that runs one process: no copy ever gets stale (`AloneInv`), so every charge and top-up
that was written stays in the record, however calls fail and whenever the process dies,
the goods leave twice only when DELIVERED could not be written and the reminder only
when its flag was lost. Every lost update in these books is thus the work of a second
process.

*`ReaderMatch`.* `SelectionInv` (what is selected and not yet updated is still
PENDING, or was written between), `PaymentInv`, `ReceiptInv`, `ReportInv`.

*`AgentDesk`.* `LoadInv` strengthens `OverloadBounded`: selections that were not
written yet count like chats, so the sum of both is bounded by the peak and the other
processes. `PeakInv` and `SavedInv` are what it and `KeyProtects` need.

*`HumanHold`.* `SeenInv` follows a turn through the guards: past each of them the turn
has seen what the guard looks for, or was blind. `HoldImplementsDesk` is a refinement:
every write of the bot's side to a conversation's row is one the desk can make itself,
so `LoadBounded` and `KeyProtects` hold beside the bot too.

*`Subscriptions`.* `PlanInv` = `BookInv` (of an invoice whose activations all saw each
other, one at most is before its ledger row, and then there is none), `OrderInv` (what
an activation has done before it comes where it is), `DateInv` (no end date is further
ahead than a whole period, a renewal's is exactly that far, and a date older than the
tenant's belongs to an upgrade in `behind`), and `PaidPeriodIsServed`.

*`InviteLinks`.* `OnceInv` says what is true until one of the three causes has
happened: one call works at a time (`OneCallInv`), what it has done follows from its
stage (`ProgressInv`), and a link that was made is in the row, with DELIVERED, or on
its way there (`LinkInv`). `LinkInv` also says that a process which remembers a link
that is not in the row is about to store it, so no call of that process can begin:
this is where the event loop is needed. `ToldInv` follows a stored link to its message.

### The composition

`MCTenant` runs the parts of a tenant beside each other. `TenantImplementsParts` says
that each part then behaves as it does alone: a step of the tenant is a step of one part
and leaves the variables of the others unchanged (`GateSteps`, `BooksSteps`,
`ReaderSteps`, `PlanSteps`, `InviteSteps`). The desk and the bot's turns share their
variables, and there it takes an invariant: `HoldAlone`, no turn is under way unless
`hold` is the part that runs. Without a turn under way nobody can have seen what the
desk changes, so a desk step is a step of `HumanHold` too (`HoldSteps`), and from there
`HoldImplementsDesk` leads to the desk.
What is restricted to one chat in an instance is a step that may take any
(`OneChatSteps`), which needs `OneChatAssumption`: that the chat is one of `Chats`.

`TenantTypeCorrect` and `TenantKeepsPromises` follow from it and the theorems about the
parts: all fifteen properties of the run `tenant` hold of the composition itself, for all
values of the constants.

### Only model-checked

Liveness (`EveryRequestAnswered`, `PaidAndFulfilled`, `EveryRequestEnds`,
`EveryMessageIsDispatched`): fairness and ENABLED are out of the prover's reach. Of the
other properties of the passing runs every one is stated by a theorem. The six findings
are counterexamples, which TLC finds and a proof could not.

## 5. What is not modelled

In the components that are modelled:

* *Values*: amounts, currencies, signatures, message texts, commission sums. Whether
  the amount or the tenant of an event is right is a property of the event
  (`Rejected`).
* *Time* on the payment path: the 50 ms waits, the times to live and the throttle are
  events that may happen, with the restriction named above.
* *Several orders at once*, and with them the restocking of a product and two
  orders racing for one unit; a cart of several products is one product.
* *Supabase as a second database*, except in `TenantBooks`: the code points both
  clients at the same rows; a Supabase update is a later statement on them.
* *Around the payment rails*: creation of invoices and checkouts, reader validation (a
  third caller of `execute_order_settlement_transaction`), the Midtrans hook of
  `payment.py`, the status kept in `PAYMENT_INTENTS` by the second rail, a server with
  no Supabase client at all (except that every Supabase call of the second rail may
  fail), a product named only by the payload of an order that has no row, PATCH to PAID.
* *The inside of background tasks* of the webhook: each either ran or was lost. What
  the fulfilment does is in `TenantBooks` and `InviteLinks`; nothing recovers a task
  that was lost (`xendit.py:1096`).
* *Messages*: delivery statuses, the pruning of old rows, what the traffic splitter
  does with a message.
* *Ingress*: the tenant's circuit breaker, the cap on outbound messages, the registry
  of outbound ids, loop keys of several conversations.
* *Inbox*: creation of agents and chats, the lock on a channel, exempt phones and the
  tenant `boon`, groups.
* *Reminders*: which e-mail is due, protected tenants, trials, the command line;
  `scripts/subscription_reminder_worker.py` is the same program.
* *Quota*: the features of plans and trials, which are read and compared in one step.
* *Subscriptions*: see section 2; also the guard that compares the end date with today
  and the other endpoints of the affiliate service.
* *Fulfilment*: download links (a signature without state), digital fulfilment, the
  tokens of invitations and the command that renews one.

Components without a module, and why:

* *The group rate limiter and the tenant keys* of `app/core/redis.py`: they share a file
  and a client with the payment lock and nothing else; the keys are used by an evidence
  script only.
* *Payment core, orchestrator and payouts, gym access, the reconciler's worker,
  `HybridReaderProcessor`*: the application that is served does not reach their state
  changes (section 1). A model would verify behaviour that tests alone can produce.
* *Booking*: `booking_state_machine.py` and `reminder_scheduler.py` are used by tests
  only.
* *Conversation engines, personas, AI, academy, career and other verticals*: they
  compose texts. What silences them is in `HumanHold` and `IngressGate`.
* *Routes, templates, migrations, scripts, evidence generators*: wiring, pages and
  one-off I/O. They are most of the repository's lines, which is why the mapped share
  of it is small.
