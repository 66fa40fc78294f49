-------------------------- MODULE TwoRails_proofs --------------------------
(***************************************************************************)
(* Proofs about TwoRails for any numbers of workers, deliveries, callbacks *)
(* and agents: the types, that one justified credit is booked whatever     *)
(* fails and whoever overwrites the order, and what both rails together    *)
(* promise of an order that no seller overwrites.                          *)
(***************************************************************************)
EXTENDS TwoRails, XenditWebhook_proofs, FiniteSetTheorems

-----------------------------------------------------------------------------
(* What the steps of a callback do to the lock and to the tables.          *)

(* A callback calls the lock at most once, from its own worker.            *)
LEMMA CallbackCallsLock ==
    ASSUME NEW c \in Callbacks, Receive(c) \/ Process(c)
    PROVE  \/ UNCHANGED lockVars
           \/ \E got \in BOOLEAN : TryLock(CallbackWorker[c], got)
BY DEF Receive, Process, Proceed, Begin, LockRefused, AcknowledgeNotice, LockTaken,
       GuardStops, GuardPasses, Settlement, InRail, Swallow, Within, Quietly, StateRejects, StateAccepts,
       RecordCallback, CreditFirst, CreditTwice, MarkStatus, NoPendingRow, CreateOrder,
       SellUnit, NothingToSell, SoldOut, Entitle, EntitleFails, CommitRail,
       SettlementRaises, MarkPaidAnyway, Tell

(* A step of a callback is one statement, commit or rollback, or none.     *)
LEMMA CallbackRunsStatement ==
    ASSUME NEW c \in Callbacks, Receive(c) \/ Process(c)
    PROVE  \/ UNCHANGED dbVars
           \/ InsertEvent(c, CallbackEvent[c]) \/ InsertCredit(c, CallbackEvent[c])
           \/ UpdateStatus(c) \/ UpsertStatus(c) \/ DeductStock(c) \/ BreakTx(c)
           \/ CommitTx(c) \/ RollbackTx(c) \/ OverwriteStatus("PAID")
BY DEF Receive, Process, Proceed, Begin, LockRefused, AcknowledgeNotice, LockTaken,
       GuardStops, GuardPasses, Settlement, InRail, Swallow, Within, StateRejects, StateAccepts,
       RecordCallback, CreditFirst, CreditTwice, MarkStatus, NoPendingRow, CreateOrder,
       SellUnit, NothingToSell, SoldOut, Entitle, EntitleFails, CommitRail,
       SettlementRaises, MarkPaidAnyway, Tell

(* The variables of the rail keep their types.                             *)
LEMMA CallbackStaysTyped ==
    ASSUME RailTypeOK, NEW c \in Callbacks, Receive(c) \/ Process(c)
    PROVE  RailTypeOK'
<1> USE DEF RailTypeOK
<1>1. \A from : \A to \in CallbackLabels :
        Step(c, from, to) => cpc' \in [Callbacks -> CallbackLabels] /\ agent' = agent
  BY DEF Step
<1>2. CallbackLabels = InSettlement \cup {"idle", "notice", "lock", "guard", "fallback", "tell"}
  BY DEF CallbackLabels
<1>3. \A from : Leave(c, from) => /\ cpc' \in [Callbacks -> CallbackLabels] /\ agent' = agent
                                  /\ swallowed' \subseteq Callbacks
                                  /\ orderData' \in [Callbacks -> BOOLEAN]
                                  /\ ordRow' \in [Callbacks -> BOOLEAN]
  BY <1>1, <1>2 DEF Leave
<1>4. \A from : Answer(c, from) => acked' \subseteq Events
  BY CallbacksAssumption DEF Answer
<1>5. CASE Receive(c) \/ Begin(c) \/ MarkPaidAnyway(c) \/ Tell(c)
  BY <1>1, <1>2, <1>3, <1>4, <1>5
  DEF Receive, Begin, LockRefused, AcknowledgeNotice, LockTaken, GuardStops, GuardPasses,
      MarkPaidAnyway, Tell, Quietly, InRail, Swallow, Within, Answer, InSettlement
<1>6. CASE Settlement(c) \/ SettlementRaises(c)
  BY <1>1, <1>2, <1>6
  DEF Settlement, InRail, Swallow, Within, Quietly, StateRejects, StateAccepts,
      RecordCallback, CreditFirst, CreditTwice, MarkStatus, NoPendingRow, CreateOrder,
      SellUnit, NothingToSell, SoldOut, Entitle, EntitleFails, CommitRail,
      SettlementRaises, InSettlement
<1>7. QED
  BY <1>5, <1>6 DEF Process, Proceed

(* The two statements that this rail adds keep the tables in their types.  *)
LEMMA StatusStaysTyped ==
    ASSUME DBTypeOK, NEW t \in Txns, UpdateStatus(t) \/ UpsertStatus(t)
    PROVE  DBTypeOK'
BY DEF DBTypeOK, UpdateStatus, UpsertStatus, tables, Pending

LEMMA BothTypeOKParts ==
    BothTypeOK <=> LockTypeOK /\ DBTypeOK /\ RequestTypeOK /\ RailTypeOK
BY TypeOKParts DEF BothTypeOK

LEMMA BothTypeOKInit == BothInit => BothTypeOK
<1>1. RailInit => RailTypeOK
  BY DEF RailInit, RailTypeOK, CallbackLabels
<1>2. QED
  BY <1>1, TypeOKInit DEF BothInit, BothTypeOK

(* Every step of either rail, and what happens to both, keeps the types.   *)
LEMMA BothTypeOKNext == BothTypeOK /\ [BothNext]_allVars => BothTypeOK'
<1> SUFFICES ASSUME BothTypeOK, [BothNext]_allVars PROVE BothTypeOK'
  OBVIOUS
<1>0. TypeOK /\ LockTypeOK /\ DBTypeOK /\ RequestTypeOK /\ RailTypeOK
  BY BothTypeOKParts DEF BothTypeOK
<1>p. "PAID" \in Statuses
  BY DEF Statuses
<1>x. UNCHANGED xenditVars => RequestTypeOK'
  BY <1>0 DEF xenditVars, memVars, histVars, RequestTypeOK
<1>r. UNCHANGED railVars => RailTypeOK'
  BY <1>0 DEF railVars, RailTypeOK
<1>s. (TypeOK' /\ RailTypeOK' => BothTypeOK')
        /\ (LockTypeOK' /\ DBTypeOK' /\ RequestTypeOK' => TypeOK')
  BY DEF BothTypeOK, TypeOK, RequestTypeOK
<1>1. ASSUME NEW d \in Deliveries, DeliverOne(d) \/ HandleOne(d) PROVE BothTypeOK'
  <2>1. TypeOK'
    BY <1>0, <1>1, TypeOKNext DEF DeliverOne, HandleOne, Next
  <2>2. QED
    BY <1>1, <1>r, <1>s, <2>1 DEF DeliverOne, HandleOne
<1>2. ASSUME NEW c \in Callbacks, ReceiveOne(c) \/ ProcessOne(c) PROVE BothTypeOK'
  <2>1. LockTypeOK'
    BY <1>0, <1>2, CallbackCallsLock, LockStaysTyped, CallbacksAssumption
    DEF ReceiveOne, ProcessOne
  <2>2. DBTypeOK'
    BY <1>0, <1>2, <1>p, CallbackRunsStatement, TablesStayTyped, StatusStaysTyped,
       CallbacksAssumption
    DEF ReceiveOne, ProcessOne
  <2>3. RailTypeOK'
    BY <1>0, <1>2, CallbackStaysTyped DEF ReceiveOne, ProcessOne
  <2>4. QED
    BY <1>2, <1>s, <1>x, <2>1, <2>2, <2>3 DEF ReceiveOne, ProcessOne
<1>3. ASSUME NEW a \in Agents, AgentActs(a) PROVE BothTypeOK'
  <2>1. LockTypeOK' /\ RailTypeOK'
    BY <1>0, <1>3 DEF AgentActs, AgentReads, AgentMarksPaid, lockVars, LockTypeOK, RailTypeOK
  <2>2. DBTypeOK'
    BY <1>0, <1>3, <1>p
    DEF AgentActs, AgentReads, AgentMarksPaid, OverwriteStatus, dbVars, DBTypeOK
  <2>3. QED
    BY <1>3, <1>s, <1>x, <2>1, <2>2 DEF AgentActs
<1>4. ASSUME NEW w \in Workers, RunTasksOf(w) PROVE BothTypeOK'
  <2>1. TypeOK'
    BY <1>0, <1>4, TypeOKNext DEF RunTasksOf, Next
  <2>2. QED
    BY <1>4, <1>r, <1>s, <2>1 DEF RunTasksOf
<1>5. ASSUME NEW w \in Workers, WorkerDies(w) PROVE BothTypeOK'
  <2>1. LockTypeOK'
    BY <1>0, <1>5, LockStaysTyped DEF WorkerDies, LoseWorker
  <2>2. DBTypeOK'
    BY <1>0, <1>5 DEF WorkerDies, RollbackAll, tables, DBTypeOK, NoTx, Pending
  <2>3. RequestTypeOK'
    BY <1>0, <1>5, FaultsAssumption DEF WorkerDies, LoseWorker, histVars, RequestTypeOK, Labels
  <2>4. RailTypeOK'
    BY <1>0, <1>5 DEF WorkerDies, LoseCallbacks, RailTypeOK, CallbackLabels
  <2>5. QED
    BY <1>s, <2>1, <2>2, <2>3, <2>4
<1>6. CASE SellerActs
  <2>1. TypeOK'
    BY <1>0, <1>6, TypeOKNext DEF SellerActs, Next
  <2>2. QED
    BY <1>6, <1>r, <1>s, <2>1 DEF SellerActs
<1>7. CASE DeadlockDetected
  <2>1. PICK d \in Deliveries, c \in Callbacks :
          \/ RollbackTx(d) /\ InTx(d, "credit", "failed") /\ UNCHANGED railVars
          \/ /\ \E l \in {"order", "insert"} : RollbackTx(c) /\ InRail(c, l, "fallback")
             /\ UNCHANGED xenditVars
    BY <1>7 DEF DeadlockDetected
  <2>2. CASE RollbackTx(d) /\ InTx(d, "credit", "failed") /\ UNCHANGED railVars
    <3>1. LockTypeOK'
      BY <1>0, <2>2 DEF InTx, lockVars, LockTypeOK
    <3>2. DBTypeOK'
      BY <1>0, <1>p, <2>2, TablesStayTyped, SlotsAssumption
    <3>3. RequestTypeOK'
      BY <1>0, <2>2 DEF InTx, Goto, Elsewhere, RequestTypeOK, Labels, Critical, InTransaction
    <3>4. QED
      BY <1>r, <1>s, <2>2, <3>1, <3>2, <3>3
  <2>3. CASE /\ \E l \in {"order", "insert"} : RollbackTx(c) /\ InRail(c, l, "fallback")
             /\ UNCHANGED xenditVars
    <3>1. LockTypeOK'
      BY <1>0, <2>3 DEF InRail, Within, Quietly, lockVars, LockTypeOK
    <3>2. DBTypeOK'
      BY <1>0, <1>p, <2>3, TablesStayTyped, CallbacksAssumption
    <3>3. RailTypeOK'
      BY <1>0, <2>3 DEF InRail, Within, Quietly, Step, RailTypeOK, CallbackLabels
    <3>4. QED
      BY <1>s, <1>x, <2>3, <3>1, <3>2, <3>3
  <2>4. QED
    BY <2>1, <2>2, <2>3
<1>8. CASE Environment
  <2>1. LockTypeOK'
    BY <1>0, <1>8, LockStaysTyped DEF Environment, LockChanges
  <2>2. DBTypeOK' /\ RequestTypeOK'
    BY <1>0, <1>8
    DEF Environment, LockChanges, dbVars, memVars, histVars, DBTypeOK, RequestTypeOK
  <2>3. QED
    BY <1>8, <1>r, <1>s, <2>1, <2>2 DEF Environment
<1>9. CASE UNCHANGED allVars
  <2>1. TypeOK'
    BY <1>0, <1>9, TypeOKNext DEF allVars
  <2>2. QED
    BY <1>9, <1>r, <1>s, <2>1 DEF allVars
<1>10. QED
  BY <1>1, <1>2, <1>3, <1>4, <1>5, <1>6, <1>7, <1>8, <1>9 DEF BothNext

(* Every variable keeps its type with both rails at work.                  *)
THEOREM BothTypeCorrect == BothSpec => []BothTypeOK
BY BothTypeOKInit, BothTypeOKNext, PTL DEF BothSpec
-----------------------------------------------------------------------------
(* What a step does to the transactions and to the requests.               *)

(* A statement of t leaves the committed rows and the other transactions   *)
(* alone, and these fields in its own.                                     *)
Writes(t, event, order, credit, units, broken) ==
    /\ UNCHANGED tables
    /\ \A u \in Txns \ {t} : tx'[u] = tx[u]
    /\ tx'[t].event = event /\ tx'[t].order = order /\ tx'[t].credit = credit
    /\ tx'[t].units = units /\ tx'[t].broken = broken

LEMMA StatementsWrite ==
    ASSUME DBTypeOK, NEW t \in Txns, NEW e
    PROVE  /\ InsertEvent(t, e) =>
                Writes(t, {e} \ events, tx[t].order, tx[t].credit, tx[t].units, tx[t].broken)
           /\ UpdateOrder(t) \/ UpsertOrder(t) =>
                Writes(t, tx[t].event, "full", tx[t].credit, tx[t].units, tx[t].broken)
           /\ UpdateStatus(t) \/ UpsertStatus(t) =>
                Writes(t, tx[t].event, "status", tx[t].credit, tx[t].units, tx[t].broken)
           /\ InsertCredit(t, e) =>
                Writes(t, tx[t].event, tx[t].order, IF ledger = {} THEN {e} ELSE {},
                       tx[t].units, tx[t].broken)
           /\ DeductStock(t) =>
                Writes(t, tx[t].event, tx[t].order, tx[t].credit, 1, tx[t].broken)
           /\ BreakTx(t) =>
                Writes(t, tx[t].event, tx[t].order, tx[t].credit, tx[t].units, TRUE)
           /\ RollbackTx(t) => Writes(t, {}, "no", {}, 0, FALSE)
<1> USE DEF DBTypeOK, Writes, tables
<1>1. InsertEvent(t, e) =>
        Writes(t, {e} \ events, tx[t].order, tx[t].credit, tx[t].units, tx[t].broken)
  BY DEF InsertEvent, Pending
<1>2. UpdateOrder(t) \/ UpsertOrder(t) =>
        Writes(t, tx[t].event, "full", tx[t].credit, tx[t].units, tx[t].broken)
  BY DEF UpdateOrder, UpsertOrder, Pending
<1>3. UpdateStatus(t) \/ UpsertStatus(t) =>
        Writes(t, tx[t].event, "status", tx[t].credit, tx[t].units, tx[t].broken)
  BY DEF UpdateStatus, UpsertStatus, Pending
<1>4. InsertCredit(t, e) =>
        Writes(t, tx[t].event, tx[t].order, IF ledger = {} THEN {e} ELSE {},
               tx[t].units, tx[t].broken)
  BY DEF InsertCredit, Pending
<1>5. DeductStock(t) =>
        Writes(t, tx[t].event, tx[t].order, tx[t].credit, 1, tx[t].broken)
  BY DEF DeductStock, Pending
<1>6. BreakTx(t) =>
        Writes(t, tx[t].event, tx[t].order, tx[t].credit, tx[t].units, TRUE)
  BY DEF BreakTx, Pending
<1>7. RollbackTx(t) => Writes(t, {}, "no", {}, 0, FALSE)
  BY DEF RollbackTx, NoTx
<1>8. QED
  BY <1>1, <1>2, <1>3, <1>4, <1>5, <1>6, <1>7

(* The steps of a delivery, by the labels they connect.                    *)
Went(d, from, to) == pc[d] = from /\ pc'[d] = to

Aside(d) ==
    /\ pc[d] \notin InTransaction /\ ~Settled(d)
    /\ pc'[d] \in {"idle", "check", "local", "poll", "lookup", "event"}
    /\ UNCHANGED dbVars \/ RecordReplay(d, EventOf[d])

Transacts(d) ==
    \/ Went(d, "event", "order") /\ InsertEvent(d, EventOf[d])
    \/ Went(d, "order", "credit") /\ UpdateOrder(d)
    \/ Went(d, "order", "reread") /\ ~AwaitsPayment /\ UNCHANGED dbVars
    \/ Went(d, "reread", "upsert") /\ ~Paid /\ UNCHANGED dbVars
    \/ Went(d, "upsert", "credit") /\ UpsertOrder(d)
    \/ Went(d, "credit", "stock") /\ InsertCredit(d, EventOf[d])
    \/ Went(d, "stock", "commit") /\ (DeductStock(d) \/ UNCHANGED dbVars)
    \/ Went(d, "stock", "commit") /\ StockFaults /\ BreakTx(d)

Ends(d) ==
    \/ pc[d] \in InTransaction /\ pc'[d] \in {"already", "failed"} /\ RollbackTx(d)
    \/ pc[d] = "commit" /\ pc'[d] \in {"sync", "failed"} /\ CommitTx(d)

Finishes(d) ==
    \/ Went(d, "sync", "release") /\ (OverwritePaid \/ UNCHANGED dbVars)
    \/ Went(d, "release", "finish") /\ UNCHANGED dbVars

LEMMA DeliverySteps ==
    ASSUME TypeOK, NEW d \in Deliveries, Deliver(d) \/ Handle(d)
    PROVE  /\ \A e \in Deliveries \ {d} : pc'[e] = pc[e]
           /\ \/ (Aside(d) \/ Transacts(d) \/ Ends(d) \/ Finishes(d)) /\ dispatches' = dispatches
              \/ Went(d, "finish", "idle") /\ UNCHANGED dbVars /\ dispatches' = dispatches + 1
<1> USE DEF Goto, Accept, Refuse, InTx, Elsewhere, InTransaction, TypeOK
<1>1. DbHit(d) \/ DbMiss(d) => UNCHANGED dbVars \/ RecordReplay(d, EventOf[d])
  BY DEF DbHit, DbMiss
<1>2. CASE Deliver(d) \/ Check(d) \/ Local(d) \/ Poll(d) \/ Lookup(d)
  BY <1>1, <1>2
  DEF Aside, Settled,
      Deliver, Check, CheckHit, CheckMiss, CheckError, Local, LocalHit, IgnoreNonPaid,
      AskLock, Poll, PollHit, PollMiss, PollError, GiveUp,
      Lookup, LookupAccepts, LookupRefuses
<1>3. CASE Record(d)
  BY <1>3
  DEF Transacts, Ends, Finishes, Went,
      Record, RecordEvent, MarkOrderPaid, NoRowToMark, FoundPaid,
      FoundUnpaid, ForceOrderPaid, CreditLedger, TakeStock, LeaveStock,
      StockError, Commit, TransactionFails, SyncSupabase
<1>4. CASE Conclude(d)
  BY <1>4
  DEF Aside, Settled, Finishes, Went,
      Conclude, AnswerFailed, AnswerAlreadySettled, ReleaseLock, Finish
<1>5. QED
  BY <1>2, <1>3, <1>4 DEF Handle

(* The steps of a callback, and the errors that it swallows.               *)
CWent(c, from, to) == cpc[c] = from /\ cpc'[c] = to

CAside(c) ==
    /\ cpc[c] \notin InSettlement \cup {"fallback", "tell"}
    /\ cpc'[c] \in {"idle", "notice", "lock", "guard", "state"}
    /\ ordRow'[c] \in {ordRow[c], FALSE}
    /\ told' = told /\ UNCHANGED dbVars

CTransacts(c) ==
    /\ UNCHANGED <<ordRow, told>>
    /\ \/ CWent(c, "event", "credit") /\ InsertEvent(c, CallbackEvent[c])
       \/ CWent(c, "credit", "order") /\ ledger = {} /\ InsertCredit(c, CallbackEvent[c])
       \/ CWent(c, "order", "stock") /\ UpdateStatus(c)
       \/ CWent(c, "order", "stock") /\ status # "PENDING" /\ ordRow[c] /\ UNCHANGED dbVars
       \/ CWent(c, "order", "insert") /\ status # "PENDING" /\ ~ordRow[c] /\ UNCHANGED dbVars
       \/ CWent(c, "insert", "stock") /\ UpsertStatus(c)
       \/ CWent(c, "stock", "entitle") /\ (DeductStock(c) \/ UNCHANGED dbVars)
       \/ CWent(c, "entitle", "commit") /\ UNCHANGED dbVars
       \/ CWent(c, "entitle", "commit") /\ BreakTx(c) /\ c \in swallowed'

CEnds(c) ==
    /\ UNCHANGED <<ordRow, told, swallowed>>
    /\ \/ cpc[c] \in InSettlement /\ cpc'[c] = "fallback" /\ RollbackTx(c)
       \/ cpc[c] = "commit" /\ cpc'[c] \in {"tell", "fallback"} /\ CommitTx(c)

CDecides(c) ==
    \/ /\ CWent(c, "state", "tell") /\ status \in {"PAID", "CANCELLED"}
       /\ UNCHANGED <<ordRow, told, dbVars>>
    \/ /\ CWent(c, "state", "event") /\ status \in {"absent", "PENDING"}
       /\ ordRow'[c] = (status # "absent")
       /\ UNCHANGED <<told, dbVars>>

CTells(c) ==
    \/ /\ CWent(c, "fallback", "tell") /\ UNCHANGED <<ordRow, told>>
       /\ \/ OverwriteStatus("PAID") /\ UNCHANGED swallowed
          \/ UNCHANGED dbVars /\ c \in swallowed'
    \/ /\ CWent(c, "tell", "idle") /\ ordRow'[c] = FALSE /\ UNCHANGED dbVars
       /\ told' \in {told, TRUE} /\ swallowed' = swallowed \ {c}

LEMMA CallbackSteps ==
    ASSUME RailTypeOK, NEW c \in Callbacks, Receive(c) \/ Process(c)
    PROVE  /\ \A b \in Callbacks \ {c} : cpc'[b] = cpc[b] /\ ordRow'[b] = ordRow[b]
           /\ swallowed' \in {swallowed, swallowed \cup {c}, swallowed \ {c}}
           /\ CAside(c) \/ CTransacts(c) \/ CEnds(c) \/ CDecides(c) \/ CTells(c)
<1> USE DEF Step, InRail, Swallow, Within, Quietly, Leave, Answer, InSettlement, RailTypeOK
<1>1. CASE Receive(c) \/ Begin(c)
  BY <1>1 DEF CAside, Receive, Begin, LockRefused, AcknowledgeNotice, LockTaken,
              GuardStops, GuardPasses
<1>2. CASE Settlement(c) \/ SettlementRaises(c)
  BY <1>2 DEF CTransacts, CEnds, CDecides, CWent,
              Settlement, StateRejects, StateAccepts,
              RecordCallback, CreditFirst, CreditTwice, MarkStatus, NoPendingRow, CreateOrder,
              SellUnit, NothingToSell, SoldOut, Entitle, EntitleFails, CommitRail,
              SettlementRaises
<1>3. CASE MarkPaidAnyway(c) \/ Tell(c)
  BY <1>3 DEF CTells, CWent, MarkPaidAnyway, Tell
<1>4. QED
  BY <1>1, <1>2, <1>3 DEF Process, Proceed

(* What a step of both rails can be.  A deadlock victim is rolled back     *)
(* like a transaction that fails.                                          *)
Here == UNCHANGED <<pc, dispatches>>
There == UNCHANGED <<cpc, ordRow, swallowed, told>>

DeliveryStep(d) ==
    /\ There /\ \A e \in Deliveries \ {d} : pc'[e] = pc[e]
    /\ \/ (Aside(d) \/ Transacts(d) \/ Ends(d) \/ Finishes(d)) /\ dispatches' = dispatches
       \/ Went(d, "finish", "idle") /\ UNCHANGED dbVars /\ dispatches' = dispatches + 1

CallbackStep(c) ==
    /\ Here /\ \A b \in Callbacks \ {c} : cpc'[b] = cpc[b] /\ ordRow'[b] = ordRow[b]
    /\ swallowed' \in {swallowed, swallowed \cup {c}, swallowed \ {c}}
    /\ CAside(c) \/ CTransacts(c) \/ CEnds(c) \/ CDecides(c) \/ CTells(c)

Overwrites ==
    /\ Here /\ UNCHANGED <<cpc, ordRow, swallowed>>
    /\ \/ told' \in {told, TRUE} /\ OverwriteStatus("PAID")
       \/ told' = told /\ \E s \in SellerStatuses : OverwriteStatus(s)

(* A crash forgets requests and rolls their transactions back.             *)
Dies ==
    /\ UNCHANGED tables /\ UNCHANGED <<dispatches, told>> /\ swallowed' \subseteq swallowed
    /\ \A d \in Deliveries : \/ pc'[d] = pc[d] /\ tx'[d] = tx[d]
                             \/ pc'[d] = "idle" /\ tx'[d] = NoTx
    /\ \A c \in Callbacks : \/ /\ cpc'[c] = cpc[c] /\ ordRow'[c] = ordRow[c] /\ tx'[c] = tx[c]
                               /\ c \in swallowed => c \in swallowed'
                            \/ cpc'[c] = "idle" /\ ordRow'[c] = FALSE /\ tx'[c] = NoTx

Rests == Here /\ There /\ UNCHANGED dbVars

LEMMA BothSteps ==
    ASSUME BothTypeOK, [BothNext]_allVars
    PROVE  \/ \E d \in Deliveries : DeliveryStep(d)
           \/ \E c \in Callbacks : CallbackStep(c)
           \/ Overwrites \/ Dies \/ Rests
<1>0. TypeOK /\ RailTypeOK
  BY DEF BothTypeOK
<1>1. ASSUME NEW d \in Deliveries, DeliverOne(d) \/ HandleOne(d) PROVE DeliveryStep(d)
  BY <1>0, <1>1, DeliverySteps DEF DeliverOne, HandleOne, railVars, There, DeliveryStep
<1>2. ASSUME NEW c \in Callbacks, ReceiveOne(c) \/ ProcessOne(c) PROVE CallbackStep(c)
  BY <1>0, <1>2, CallbackSteps
  DEF ReceiveOne, ProcessOne, xenditVars, histVars, Here, CallbackStep
<1>3. ASSUME NEW a \in Agents, AgentActs(a) PROVE Overwrites \/ Rests
  BY <1>3
  DEF AgentActs, AgentReads, AgentMarksPaid, xenditVars, histVars, Here, There, Overwrites, Rests
<1>4. CASE SellerActs
  <2>1. \A s \in SellerStatuses : SellerUpdates(s) => Overwrites \/ Rests
    BY <1>4 DEF SellerActs, SellerUpdates, railVars, histVars, Here, Overwrites
  <2>2. SellerSyncs => Overwrites \/ Rests
    BY <1>0, <1>4, SellerSyncsStatus
    DEF SellerActs, SellerSyncs, railVars, histVars, Here, There, Overwrites, Rests
  <2>3. QED
    BY <1>4, <2>1, <2>2 DEF SellerActs
<1>5. ASSUME NEW w \in Workers, WorkerDies(w) PROVE Dies
  BY <1>0, <1>5, SlotsAssumption, CallbacksAssumption, RailsAssumption
  DEF WorkerDies, LoseWorker, LoseCallbacks, RollbackAll, OnWorker, CallbacksOn,
      histVars, Dies, RailTypeOK
<1>6. CASE DeadlockDetected
  <2>1. PICK d \in Deliveries, c \in Callbacks :
          \/ RollbackTx(d) /\ InTx(d, "credit", "failed") /\ UNCHANGED railVars
          \/ /\ \E l \in {"order", "insert"} : RollbackTx(c) /\ InRail(c, l, "fallback")
             /\ UNCHANGED xenditVars
    BY <1>6 DEF DeadlockDetected
  <2>2. CASE RollbackTx(d) /\ InTx(d, "credit", "failed") /\ UNCHANGED railVars
    BY <1>0, <2>2 DEF TypeOK, InTx, Goto, Elsewhere, railVars, There, DeliveryStep, Ends, InTransaction
  <2>3. CASE /\ \E l \in {"order", "insert"} : RollbackTx(c) /\ InRail(c, l, "fallback")
             /\ UNCHANGED xenditVars
    BY <1>0, <2>3 DEF RailTypeOK, InRail, Within, Step, Quietly, xenditVars, histVars, Here, CallbackStep,
                      CEnds, InSettlement
  <2>4. QED
    BY <2>1, <2>2, <2>3
<1>7. ASSUME NEW w \in Workers, RunTasksOf(w) PROVE Rests
  BY <1>7 DEF RunTasksOf, RunTasks, railVars, Here, There, Rests
<1>8. CASE Environment \/ UNCHANGED allVars
  BY <1>8 DEF Environment, LockChanges, histVars, railVars, allVars, vars, Here, There, Rests
<1>9. QED
  BY <1>1, <1>2, <1>3, <1>4, <1>5, <1>6, <1>7, <1>8 DEF BothNext
-----------------------------------------------------------------------------
(* One justified credit, whatever fails and whoever writes the order.      *)

(* The two rails share no transaction.                                     *)
LEMMA SlotsApart ==
    /\ \A d \in Deliveries : d \in Txns /\ EventOf[d] \in Events
    /\ \A c \in Callbacks : c \in Txns /\ CallbackEvent[c] \in Events
    /\ \A d \in Deliveries, c \in Callbacks : d # c
    /\ \A t \in Txns : t \in Deliveries \/ t \in Callbacks
BY SlotsAssumption, CallbacksAssumption, RailsAssumption

LEMMA JustifiedInit == BothInit => JustifiedInv
BY SlotsApart
DEF BothInit, Init, DBInit, RailInit, JustifiedInv, AtMostOne, CreditElectsOne, NoTx

(* A commit moves the credit of t, if any, into an empty ledger.           *)
LEMMA CommitJustified ==
    ASSUME BothTypeOK, JustifiedInv, NEW t \in Txns, CommitTx(t)
    PROVE  /\ AtMostOne(ledger') /\ ledger' \subseteq events'
           /\ CreditElectsOne'
           /\ tx'[t] = NoTx /\ \A u \in Txns \ {t} : tx'[u] = tx[u]
           /\ events \cup (IF tx[t].broken THEN {} ELSE tx[t].event) = events'
<1> USE DEF BothTypeOK, TypeOK, DBTypeOK, JustifiedInv, CreditElectsOne, CreditFree
<1>1. /\ tx'[t] = NoTx /\ \A u \in Txns \ {t} : tx'[u] = tx[u]
      /\ NoTx.credit = {}
  BY DEF CommitTx, NoTx
<1>2. CASE tx[t].broken
  BY <1>1, <1>2 DEF CommitTx, tables
<1>3. CASE ~tx[t].broken
  <2>1. ledger' = ledger \cup tx[t].credit /\ events' = events \cup tx[t].event
    BY <1>3 DEF CommitTx
  <2>2. CASE tx[t].credit = {}
    BY <1>1, <1>3, <2>1, <2>2
  <2>3. CASE tx[t].credit # {}
    <3>1. ledger = {} /\ \A u \in Txns \ {t} : tx[u].credit = {}
      BY <2>3
    <3>2. QED
      BY <1>1, <1>3, <2>1, <3>1 DEF AtMostOne
  <2>4. QED
    BY <2>2, <2>3
<1>4. QED
  BY <1>2, <1>3

LEMMA JustifiedDelivery ==
    ASSUME BothTypeOK, JustifiedInv, NEW d \in Deliveries, DeliveryStep(d)
    PROVE  JustifiedInv'
<1> USE SlotsApart DEF JustifiedInv, DeliveryStep, There
<1>0. DBTypeOK
  BY DEF BothTypeOK, TypeOK
<1>1. CASE Aside(d) \/ Finishes(d) \/ (Went(d, "finish", "idle") /\ UNCHANGED dbVars)
  <2>1. UNCHANGED <<ledger, tx>> /\ events \subseteq events'
    BY <1>1 DEF Aside, Finishes, RecordReplay, OverwritePaid, dbVars
  <2>2. tx[d].credit = {} /\ pc'[d] \notin {"order", "reread", "upsert", "credit"}
    BY <1>1 DEF Aside, Finishes, Went, InTransaction
  <2>3. QED
    BY <2>1, <2>2 DEF CreditElectsOne, CreditFree
<1>2. CASE Transacts(d)
  <2>1. CASE Went(d, "event", "order") /\ InsertEvent(d, EventOf[d])
    <3>1. Writes(d, {EventOf[d]} \ events, tx[d].order, tx[d].credit, tx[d].units, tx[d].broken)
      BY <1>0, <2>1, StatementsWrite
    <3>2. tx[d].credit = {}
      BY <2>1 DEF Went
    <3>3. QED
      BY <2>1, <3>1, <3>2 DEF Went, Writes, tables, CreditElectsOne, CreditFree
  <2>2. CASE Went(d, "credit", "stock") /\ InsertCredit(d, EventOf[d])
    <3>1. Writes(d, tx[d].event, tx[d].order, IF ledger = {} THEN {EventOf[d]} ELSE {},
                 tx[d].units, tx[d].broken)
      BY <1>0, <2>2, StatementsWrite
    <3>2. CreditFree(d)
      BY <2>2 DEF InsertCredit
    <3>3. QED
      BY <2>2, <3>1, <3>2 DEF Went, Writes, tables, CreditElectsOne, CreditFree, AtMostOne
  <2>3. CASE ~Went(d, "event", "order") /\ ~Went(d, "credit", "stock")
    <3>1. /\ UNCHANGED tables /\ \A u \in Txns \ {d} : tx'[u] = tx[u]
          /\ tx'[d].event = tx[d].event /\ tx'[d].credit = tx[d].credit
      BY <1>0, <1>2, <2>3, StatementsWrite DEF Transacts, Writes, dbVars, tables
    <3>2. /\ pc[d] \in {"order", "reread", "upsert"} \/ Went(d, "stock", "commit")
          /\ pc'[d] \in {"credit", "reread", "upsert", "commit"}
      BY <1>2, <2>3 DEF Transacts, Went
    <3>3. QED
      BY <3>1, <3>2 DEF Went, tables, CreditElectsOne, CreditFree
  <2>4. QED
    BY <1>2, <2>1, <2>2, <2>3 DEF Transacts, Went
<1>3. CASE Ends(d)
  <2>1. CASE RollbackTx(d)
    <3>1. Writes(d, {}, "no", {}, 0, FALSE)
      BY <1>0, <2>1, StatementsWrite
    <3>2. pc'[d] \in {"already", "failed", "sync"}
      BY <1>3 DEF Ends
    <3>3. QED
      BY <3>1, <3>2 DEF Writes, tables, CreditElectsOne, CreditFree, AtMostOne
  <2>2. CASE CommitTx(d)
    <3>1. pc'[d] \in {"already", "failed", "sync"} /\ NoTx.credit = {} /\ NoTx.event = {}
      BY <1>3 DEF Ends, NoTx
    <3>2. QED
      BY <2>2, <3>1, CommitJustified DEF AtMostOne
  <2>3. QED
    BY <1>3, <2>1, <2>2 DEF Ends
<1>4. QED
  BY <1>1, <1>2, <1>3

LEMMA JustifiedCallback ==
    ASSUME BothTypeOK, JustifiedInv, NEW c \in Callbacks, CallbackStep(c)
    PROVE  JustifiedInv'
<1> USE SlotsApart DEF JustifiedInv, CallbackStep, Here
<1>0. DBTypeOK
  BY DEF BothTypeOK, TypeOK
<1>1. CASE CAside(c) \/ CDecides(c) \/ CTells(c)
  <2>1. UNCHANGED <<ledger, tx, events>>
    BY <1>1 DEF CAside, CDecides, CTells, OverwriteStatus, dbVars
  <2>2. tx[c].credit = {} /\ cpc'[c] # "credit"
    BY <1>1 DEF CAside, CDecides, CTells, CWent, InSettlement, Booked
  <2>3. QED
    BY <2>1, <2>2 DEF CreditElectsOne, CreditFree
<1>2. CASE CTransacts(c)
  <2>1. CASE CWent(c, "event", "credit") /\ InsertEvent(c, CallbackEvent[c])
    <3>1. Writes(c, {CallbackEvent[c]} \ events, tx[c].order, tx[c].credit, tx[c].units, tx[c].broken)
      BY <1>0, <2>1, StatementsWrite
    <3>2. tx[c].credit = {}
      BY <2>1 DEF CWent, Booked
    <3>3. QED
      BY <2>1, <3>1, <3>2 DEF CWent, Writes, tables, CreditElectsOne, CreditFree
  <2>2. CASE CWent(c, "credit", "order") /\ InsertCredit(c, CallbackEvent[c])
    <3>1. Writes(c, tx[c].event, tx[c].order, IF ledger = {} THEN {CallbackEvent[c]} ELSE {},
                 tx[c].units, tx[c].broken)
      BY <1>0, <2>2, StatementsWrite
    <3>2. CreditFree(c)
      BY <2>2 DEF InsertCredit
    <3>3. QED
      BY <2>2, <3>1, <3>2 DEF CWent, Writes, tables, CreditElectsOne, CreditFree, AtMostOne, Booked
  <2>3. CASE ~CWent(c, "event", "credit") /\ ~CWent(c, "credit", "order")
    <3>1. /\ UNCHANGED tables /\ \A u \in Txns \ {c} : tx'[u] = tx[u]
          /\ tx'[c].event = tx[c].event /\ tx'[c].credit = tx[c].credit
      BY <1>0, <1>2, <2>3, StatementsWrite DEF CTransacts, Writes, dbVars, tables
    <3>2. cpc[c] \in Booked /\ cpc'[c] \in Booked /\ cpc'[c] # "credit"
      BY <1>2, <2>3 DEF CTransacts, CWent, Booked
    <3>3. QED
      BY <3>1, <3>2 DEF tables, CreditElectsOne, CreditFree
  <2>4. QED
    BY <1>2, <2>1, <2>2, <2>3 DEF CTransacts, CWent
<1>3. CASE CEnds(c)
  <2>0. cpc'[c] \in {"fallback", "tell"} /\ cpc'[c] # "credit"
    BY <1>3 DEF CEnds
  <2>1. CASE RollbackTx(c)
    <3>1. Writes(c, {}, "no", {}, 0, FALSE)
      BY <1>0, <2>1, StatementsWrite
    <3>2. QED
      BY <2>0, <3>1 DEF Writes, tables, CreditElectsOne, CreditFree, AtMostOne
  <2>2. CASE CommitTx(c)
    <3>1. NoTx.credit = {} /\ NoTx.event = {}
      BY DEF NoTx
    <3>2. QED
      BY <2>0, <2>2, <3>1, CommitJustified DEF AtMostOne
  <2>3. QED
    BY <1>3, <2>1, <2>2 DEF CEnds
<1>4. QED
  BY <1>1, <1>2, <1>3

LEMMA JustifiedNext ==
    ASSUME BothTypeOK, JustifiedInv, [BothNext]_allVars PROVE JustifiedInv'
<1>1. CASE Overwrites \/ Rests
  <2>1. UNCHANGED <<ledger, events, tx, pc, cpc>>
    BY <1>1 DEF Overwrites, Rests, OverwriteStatus, dbVars, Here, There
  <2>2. QED
    BY <2>1 DEF JustifiedInv, CreditElectsOne, CreditFree
<1>2. CASE Dies
  <2>1. /\ UNCHANGED <<ledger, events>>
        /\ NoTx.credit = {} /\ NoTx.event = {}
    BY <1>2 DEF Dies, tables, NoTx
  <2>2. \A t \in Txns : tx'[t] = tx[t] \/ tx'[t] = NoTx
    BY <1>2, SlotsApart DEF Dies
  <2>3. QED
    BY <1>2, <2>1, <2>2 DEF Dies, JustifiedInv, CreditElectsOne, CreditFree, AtMostOne
<1>3. QED
  BY <1>1, <1>2, BothSteps, JustifiedDelivery, JustifiedCallback

LEMMA AtMostOneCounted ==
    ASSUME NEW S, AtMostOne(S) PROVE Cardinality(S) <= 1
<1>1. CASE S = {}
  BY <1>1, FS_EmptySet
<1>2. ASSUME NEW e \in S PROVE Cardinality(S) <= 1
  <2>1. S = {e}
    BY <1>2 DEF AtMostOne
  <2>2. QED
    BY <2>1, FS_Singleton
<1>3. QED
  BY <1>1, <1>2

LEMMA JustifiedAlways == BothSpec => [](BothTypeOK /\ JustifiedInv)
BY BothTypeOKInit, BothTypeOKNext, JustifiedInit, JustifiedNext, PTL DEF BothSpec

(* The ledger keeps one credit, and the event that justifies it is in the  *)
(* audit table, for every order, every fault, and a seller who reopens the *)
(* order while the rails, or the two of them, settle it.                   *)
THEOREM CreditJustified == BothSpec => []OneJustifiedCredit
<1>1. JustifiedInv => OneJustifiedCredit
  BY AtMostOneCounted DEF JustifiedInv, OneJustifiedCredit
<1>2. QED
  BY <1>1, JustifiedAlways, PTL
-----------------------------------------------------------------------------
(* Where no seller writes the order, a credited order is paid.             *)

(* What a step may do to orders.status.                                    *)
LEMMA StatusOfStatements ==
    ASSUME NEW t \in Txns, NEW e,
           \/ UNCHANGED dbVars
           \/ InsertEvent(t, e) \/ UpdateOrder(t) \/ UpsertOrder(t)
           \/ UpdateStatus(t) \/ UpsertStatus(t) \/ InsertCredit(t, e)
           \/ DeductStock(t) \/ BreakTx(t) \/ RollbackTx(t) \/ CommitTx(t)
           \/ RecordReplay(t, e) \/ OverwritePaid \/ OverwriteStatus("PAID")
    PROVE  status' \in {status, "PAID"}
BY DEF dbVars, tables, InsertEvent, UpdateOrder, UpsertOrder, UpdateStatus, UpsertStatus,
       InsertCredit, DeductStock, BreakTx, RollbackTx, CommitTx, RecordReplay,
       OverwritePaid, OverwriteStatus

LEMMA StatusGrows ==
    ASSUME NoSeller, BothTypeOK, [BothNext]_allVars
    PROVE  status' \in {status, "PAID"}
<1>1. ASSUME NEW d \in Deliveries, DeliveryStep(d) PROVE status' \in {status, "PAID"}
  BY <1>1, SlotsApart, StatusOfStatements
  DEF DeliveryStep, Aside, Transacts, Ends, Finishes
<1>2. ASSUME NEW c \in Callbacks, CallbackStep(c) PROVE status' \in {status, "PAID"}
  BY <1>2, SlotsApart, StatusOfStatements
  DEF CallbackStep, CAside, CTransacts, CEnds, CDecides, CTells
<1>3. CASE Overwrites \/ Dies \/ Rests
  BY <1>3 DEF NoSeller, Overwrites, OverwriteStatus, Dies, Rests, tables, dbVars
<1>4. QED
  BY <1>1, <1>2, <1>3, BothSteps

LEMMA CreditedInit == BothInit => CreditedInv
BY DEF BothInit, Init, DBInit, RailInit, CreditedInv, Settling, Booked

(* A commit: nothing of a broken transaction, else the credit with the     *)
(* order it has written.                                                   *)
LEMMA CommitCredits ==
    ASSUME BothTypeOK, NEW t \in Txns, CommitTx(t),
           ledger # {} => status = "PAID",
           tx[t].order # "no" \/ status = "PAID"
    PROVE  /\ ledger' # {} => status' = "PAID"
           /\ \A u \in Txns \ {t} : tx'[u] = tx[u]
<1>1. CASE tx[t].broken
  BY <1>1 DEF BothTypeOK, TypeOK, DBTypeOK, CommitTx, tables
<1>2. CASE ~tx[t].broken
  BY <1>2 DEF BothTypeOK, TypeOK, DBTypeOK, CommitTx
<1>3. QED
  BY <1>1, <1>2

LEMMA CreditedDelivery ==
    ASSUME BothTypeOK, CreditedInv, status' \in {status, "PAID"},
           NEW d \in Deliveries, DeliveryStep(d)
    PROVE  CreditedInv'
<1> USE SlotsApart DEF CreditedInv, DeliveryStep, There
<1>0. DBTypeOK
  BY DEF BothTypeOK, TypeOK
<1>1. CASE Aside(d) \/ Finishes(d) \/ (Went(d, "finish", "idle") /\ UNCHANGED dbVars)
  <2>1. UNCHANGED <<ledger, tx>> /\ ~Settling(d)'
    BY <1>1 DEF Aside, Finishes, Went, Settling, RecordReplay, OverwritePaid, dbVars
  <2>2. QED
    BY <2>1 DEF Settling
<1>2. CASE Transacts(d)
  <2>1. /\ UNCHANGED tables /\ \A u \in Txns \ {d} : tx'[u] = tx[u]
        /\ Settling(d)' => tx'[d].order = "full"
    BY <1>0, <1>2, StatementsWrite DEF Transacts, Went, Writes, Settling, tables, dbVars
  <2>2. QED
    BY <2>1 DEF Settling, tables
<1>3. CASE Ends(d)
  <2>1. ~Settling(d)'
    BY <1>3 DEF Ends, Settling
  <2>2. CASE RollbackTx(d)
    <3>1. Writes(d, {}, "no", {}, 0, FALSE)
      BY <1>0, <2>2, StatementsWrite
    <3>2. QED
      BY <2>1, <3>1 DEF Writes, tables, Settling
  <2>3. CASE pc[d] = "commit" /\ CommitTx(d)
    <3>1. tx[d].order = "full"
      BY <2>3 DEF Settling
    <3>2. /\ ledger' # {} => status' = "PAID"
          /\ \A u \in Txns \ {d} : tx'[u] = tx[u]
      BY <2>3, <3>1, CommitCredits
    <3>3. QED
      BY <2>1, <3>2 DEF Settling
  <2>4. QED
    BY <1>3, <2>2, <2>3 DEF Ends
<1>4. QED
  BY <1>1, <1>2, <1>3

LEMMA CreditedCallback ==
    ASSUME BothTypeOK, CreditedInv, status' \in {status, "PAID"},
           NEW c \in Callbacks, CallbackStep(c)
    PROVE  CreditedInv'
<1> USE SlotsApart DEF CreditedInv, CallbackStep, Here
<1>0. DBTypeOK
  BY DEF BothTypeOK, TypeOK
<1>1. CASE CAside(c) \/ CDecides(c) \/ CTells(c)
  <2>1. /\ UNCHANGED <<ledger, tx>>
        /\ ordRow'[c] => ordRow[c] \/ status # "absent"
        /\ cpc'[c] \notin Booked \cup {"credit"}
        /\ cpc'[c] = "event" => status # "CANCELLED"
    BY <1>1 DEF CAside, CDecides, CTells, CWent, OverwriteStatus, dbVars, Booked
  <2>2. QED
    BY <2>1 DEF Settling, Booked
<1>2. CASE CTransacts(c)
  <2>1. /\ UNCHANGED tables /\ \A u \in Txns \ {c} : tx'[u] = tx[u]
        /\ ordRow' = ordRow
    BY <1>0, <1>2, StatementsWrite DEF CTransacts, Writes, tables, dbVars
  <2>2. cpc[c] \in {"event", "credit"} \cup Booked /\ status # "CANCELLED"
    BY <1>2 DEF CTransacts, CWent, Booked
  <2>3. status \in Statuses
    BY <1>0 DEF DBTypeOK
  <2>4. cpc'[c] \in {"stock", "entitle", "commit"}
          => tx'[c].order = "status" \/ status' = "PAID"
    <3>1. CASE CWent(c, "order", "stock") /\ status # "PENDING" /\ ordRow[c]
      BY <2>1, <2>2, <2>3, <3>1 DEF Statuses, tables
    <3>2. CASE ~(CWent(c, "order", "stock") /\ status # "PENDING" /\ ordRow[c])
      <4>1. UpdateStatus(c) \/ UpsertStatus(c) => tx'[c].order = "status"
        BY <1>0, StatementsWrite DEF Writes
      <4>2. cpc[c] \in {"stock", "entitle"} => tx'[c].order = tx[c].order
        BY <1>0, <1>2, StatementsWrite DEF CTransacts, CWent, Writes, dbVars
      <4>3. cpc'[c] \in {"stock", "entitle", "commit"}
              => UpdateStatus(c) \/ UpsertStatus(c) \/ cpc[c] \in {"stock", "entitle"}
        BY <1>2, <3>2 DEF CTransacts, CWent
      <4>4. QED
        BY <2>1, <4>1, <4>2, <4>3 DEF tables
    <3>3. QED
      BY <3>1, <3>2
  <2>5. QED
    BY <2>1, <2>2, <2>4 DEF Settling, tables
<1>3. CASE CEnds(c)
  <2>1. ordRow' = ordRow /\ cpc'[c] \in {"fallback", "tell"}
    BY <1>3 DEF CEnds
  <2>2. CASE RollbackTx(c)
    <3>1. Writes(c, {}, "no", {}, 0, FALSE)
      BY <1>0, <2>2, StatementsWrite
    <3>2. QED
      BY <2>1, <3>1 DEF Writes, tables, Settling, Booked
  <2>3. CASE cpc[c] = "commit" /\ CommitTx(c)
    <3>1. tx[c].order # "no" \/ status = "PAID"
      BY <2>3
    <3>2. /\ ledger' # {} => status' = "PAID"
          /\ \A u \in Txns \ {c} : tx'[u] = tx[u]
      BY <2>3, <3>1, CommitCredits
    <3>3. QED
      BY <2>1, <3>2 DEF Settling, Booked
  <2>4. QED
    BY <1>3, <2>2, <2>3 DEF CEnds
<1>4. QED
  BY <1>1, <1>2, <1>3

LEMMA CreditedNext ==
    ASSUME NoSeller, BothTypeOK, CreditedInv, [BothNext]_allVars PROVE CreditedInv'
<1>0. status' \in {status, "PAID"}
  BY StatusGrows
<1>1. CASE Overwrites \/ Rests
  <2>1. UNCHANGED <<ledger, tx, pc, cpc, ordRow>>
    BY <1>1 DEF Overwrites, Rests, OverwriteStatus, dbVars, Here, There
  <2>2. QED
    BY <1>0, <2>1 DEF CreditedInv, Settling
<1>2. CASE Dies
  BY <1>0, <1>2 DEF Dies, tables, CreditedInv, Settling, Booked
<1>3. QED
  BY <1>0, <1>1, <1>2, BothSteps, CreditedDelivery, CreditedCallback

LEMMA CreditedAlways ==
    ASSUME NoSeller
    PROVE  BothSpec => [](BothTypeOK /\ JustifiedInv /\ CreditedInv)
BY CreditedInit, CreditedNext, JustifiedAlways, PTL DEF BothSpec

(* An order that was credited, by whichever rail and beside whatever       *)
(* faults, is paid, unless a seller wrote it.                              *)
THEOREM CreditedIsPaid == NoSeller => (BothSpec => []CreditedOncePaid)
<1> SUFFICES ASSUME NoSeller PROVE BothSpec => []CreditedOncePaid
  OBVIOUS
<1>1. JustifiedInv /\ CreditedInv => CreditedOncePaid
  BY AtMostOneCounted DEF JustifiedInv, CreditedInv, CreditedOncePaid, Paid
<1>2. QED
  BY <1>1, CreditedAlways, PTL
-----------------------------------------------------------------------------
(* What was booked and paid stays.                                         *)

(* payment_status stays PAID.                                              *)
LEMMA PayStatusStays ==
    ASSUME BothTypeOK, [BothNext]_allVars, payStatus = "PAID"
    PROVE  payStatus' = "PAID"
<1>1. ASSUME NEW d \in Deliveries, DeliveryStep(d) PROVE payStatus' = "PAID"
  BY <1>1, SlotsApart
  DEF DeliveryStep, Aside, Transacts, Ends, Finishes, dbVars, tables,
      InsertEvent, UpdateOrder, UpsertOrder, InsertCredit, DeductStock, BreakTx,
      RollbackTx, CommitTx, RecordReplay, OverwritePaid
<1>2. ASSUME NEW c \in Callbacks, CallbackStep(c) PROVE payStatus' = "PAID"
  BY <1>2, SlotsApart
  DEF CallbackStep, CAside, CTransacts, CEnds, CDecides, CTells, dbVars, tables,
      InsertEvent, UpdateStatus, UpsertStatus, InsertCredit, DeductStock, BreakTx,
      RollbackTx, CommitTx, OverwriteStatus
<1>3. CASE Overwrites \/ Dies \/ Rests
  BY <1>3 DEF Overwrites, OverwriteStatus, Dies, Rests, tables, dbVars
<1>4. QED
  BY <1>1, <1>2, <1>3, BothSteps

(* A commit brings a credit to an empty ledger only.                       *)
LEMMA CreditStaysNext ==
    ASSUME BothTypeOK, JustifiedInv, [BothNext]_allVars
    PROVE  ledger # {} => ledger' = ledger
<1>1. ASSUME NEW t \in Txns, CommitTx(t), ledger # {} PROVE ledger' = ledger
  <2>1. tx[t].credit = {}
    BY <1>1 DEF JustifiedInv, CreditElectsOne
  <2>2. QED
    BY <1>1, <2>1 DEF CommitTx, tables
<1>2. ASSUME NEW d \in Deliveries, DeliveryStep(d), ledger # {} PROVE ledger' = ledger
  BY <1>1, <1>2, SlotsApart
  DEF DeliveryStep, Aside, Transacts, Ends, Finishes, dbVars, tables,
      InsertEvent, UpdateOrder, UpsertOrder, InsertCredit, DeductStock, BreakTx,
      RollbackTx, RecordReplay, OverwritePaid
<1>3. ASSUME NEW c \in Callbacks, CallbackStep(c), ledger # {} PROVE ledger' = ledger
  BY <1>1, <1>3, SlotsApart
  DEF CallbackStep, CAside, CTransacts, CEnds, CDecides, CTells, dbVars, tables,
      InsertEvent, UpdateStatus, UpsertStatus, InsertCredit, DeductStock, BreakTx,
      RollbackTx, OverwriteStatus
<1>4. CASE Overwrites \/ Dies \/ Rests
  BY <1>4 DEF Overwrites, OverwriteStatus, Dies, Rests, tables, dbVars
<1>5. QED
  BY <1>2, <1>3, <1>4, BothSteps

(* The credit of an order is never replaced nor taken back, whatever fails *)
(* in either rail and whoever writes the order meanwhile.                  *)
THEOREM CreditStays == BothSpec => [][ledger # {} => ledger' = ledger]_allVars
<1>1. BothTypeOK /\ JustifiedInv /\ [BothNext]_allVars
        => [ledger # {} => ledger' = ledger]_allVars
  BY CreditStaysNext
<1>2. QED
  BY <1>1, JustifiedAlways, PTL DEF BothSpec

(* With both rails at work too an order that is paid stays paid and keeps  *)
(* its credit, unless a seller may write it.                               *)
THEOREM PaymentStaysOnRails == NoSeller => (BothSpec => PaymentIsFinal)
<1> SUFFICES ASSUME NoSeller PROVE BothSpec => PaymentIsFinal
  OBVIOUS
<1>1. ASSUME BothTypeOK, JustifiedInv, [BothNext]_allVars
      PROVE  [/\ Paid => Paid'
              /\ ledger # {} => ledger' = ledger]_vars
  <2>1. Paid => Paid'
    BY <1>1, StatusGrows, PayStatusStays DEF Paid
  <2>2. QED
    BY <1>1, <2>1, CreditStaysNext
<1>2. BothTypeOK /\ JustifiedInv /\ [BothNext]_allVars
        => [/\ Paid => Paid'
            /\ ledger # {} => ledger' = ledger]_vars
  BY <1>1
<1>3. QED
  BY <1>2, JustifiedAlways, PTL DEF BothSpec, PaymentIsFinal
-----------------------------------------------------------------------------
(* Of an order that awaits payment and that no seller writes: its row      *)
(* elects one settlement of both rails.                                    *)

LEMMA ElectedInit == OrderAwaitsPayment /\ BothInit => ElectedInv
BY SlotsApart, StartAssumption
DEF OrderAwaitsPayment, BothInit, Init, DBInit, RailInit, ElectedInv, NobodyForces, NoTx

(* Under the invariant the conditions of the code mean what they say, and  *)
(* an order that exists is not written beside a transaction that has it.   *)
LEMMA ElectedMeanings ==
    ASSUME ElectedInv
    PROVE  /\ Paid <=> status = "PAID"
           /\ AwaitsPayment <=> status = "PENDING"
           /\ RowUnlocked => \A t \in Txns : tx[t].order = "no"
           /\ status # "absent"
BY DEF ElectedInv, NobodyForces, Paid, AwaitsPayment, RowUnlocked

(* A commit of the one that holds the row leaves nobody holding it; one    *)
(* that does not hold it leaves the row as it is.                          *)
LEMMA CommitElected ==
    ASSUME BothTypeOK, ElectedInv, NEW t \in Txns, CommitTx(t)
    PROVE  /\ status' \in {"PENDING", "PAID"}
           /\ payStatus' = "PAID" => status' = "PAID"
           /\ \A u \in Txns : tx'[u].order # "no" => status' = "PENDING" /\ OrderFree(u)'
<1> USE DEF ElectedInv, NobodyForces, OrderFree
<1>1. /\ tx'[t].order = "no" /\ \A u \in Txns \ {t} : tx'[u] = tx[u]
  BY DEF BothTypeOK, TypeOK, DBTypeOK, CommitTx, NoTx
<1>2. CASE tx[t].broken \/ tx[t].order = "no"
  <2>1. status' = status /\ payStatus' = payStatus
    <3>1. tx[t].order = "no" => tx[t].order # "full"
      OBVIOUS
    <3>2. QED
      BY <1>2, <3>1 DEF CommitTx, tables
  <2>2. QED
    BY <1>1, <2>1
<1>3. CASE ~tx[t].broken /\ tx[t].order # "no"
  <2>1. status' = "PAID" /\ \A u \in Txns \ {t} : tx[u].order = "no"
    BY <1>3 DEF CommitTx
  <2>2. QED
    BY <1>1, <2>1
<1>4. QED
  BY <1>2, <1>3

LEMMA ElectedDelivery ==
    ASSUME BothTypeOK, ElectedInv, status' \in {status, "PAID"},
           NEW d \in Deliveries, DeliveryStep(d)
    PROVE  ElectedInv'
<1> USE SlotsApart DEF DeliveryStep, There
<1>0. DBTypeOK
  BY DEF BothTypeOK, TypeOK
<1>g. status' \in {"PENDING", "PAID"} /\ (status = "PAID" => status' = "PAID")
  BY DEF ElectedInv, NobodyForces
<1>m. ElectedInv /\ (Paid <=> status = "PAID")
  BY ElectedMeanings
<1>1. CASE Aside(d) \/ (Went(d, "finish", "idle") /\ UNCHANGED dbVars)
  <2>1. UNCHANGED <<status, payStatus, tx>> /\ pc'[d] \notin {"upsert", "reread"}
    BY <1>1 DEF Aside, Went, RecordReplay, dbVars
  <2>2. QED
    BY <1>m, <2>1 DEF ElectedInv, NobodyForces, OrderFree, Paid
<1>2. CASE Finishes(d)
  <2>1. tx' = tx /\ pc'[d] \notin {"upsert", "reread"}
    BY <1>2 DEF Finishes, Went, OverwritePaid, dbVars
  <2>2. CASE UNCHANGED dbVars
    BY <1>m, <2>1, <2>2 DEF ElectedInv, NobodyForces, OrderFree, Paid, dbVars
  <2>3. CASE OverwritePaid
    <3>1. status' = "PAID" /\ \A t \in Txns : tx[t].order = "no"
      BY <2>3, ElectedMeanings DEF OverwritePaid
    <3>2. QED
      BY <1>m, <2>1, <3>1 DEF ElectedInv, NobodyForces, Paid
  <2>4. QED
    BY <1>2, <2>2, <2>3 DEF Finishes
<1>3. CASE Transacts(d)
  <2>1. UNCHANGED tables /\ \A u \in Txns \ {d} : tx'[u] = tx[u]
    BY <1>0, <1>3, StatementsWrite DEF Transacts, Writes, tables, dbVars
  <2>2. pc[d] # "upsert" /\ (pc[d] = "reread" => Paid)
    BY DEF ElectedInv, NobodyForces
  <2>3. pc'[d] # "upsert" /\ (pc'[d] = "reread" => status = "PAID")
    <3>1. ~AwaitsPayment => status = "PAID"
      BY <1>m, ElectedMeanings DEF ElectedInv, NobodyForces
    <3>2. QED
      BY <1>3, <2>2, <3>1 DEF Transacts, Went
  <2>4. CASE Went(d, "order", "credit") /\ UpdateOrder(d)
    <3>1. status = "PENDING" /\ OrderFree(d)
      BY <2>4, ElectedMeanings DEF UpdateOrder
    <3>2. QED
      BY <1>m, <2>1, <2>3, <3>1 DEF ElectedInv, NobodyForces, OrderFree, Paid, tables
  <2>5. CASE ~Went(d, "order", "credit")
    <3>1. tx'[d].order = tx[d].order
      BY <1>0, <1>3, <2>2, <2>5, StatementsWrite DEF Transacts, Went, Writes, dbVars
    <3>2. QED
      BY <1>m, <2>1, <2>3, <3>1 DEF ElectedInv, NobodyForces, OrderFree, Paid, tables
  <2>6. QED
    BY <1>3, <2>4, <2>5 DEF Transacts, Went
<1>4. CASE Ends(d)
  <2>1. pc'[d] \notin {"upsert", "reread"}
    BY <1>4 DEF Ends
  <2>2. CASE RollbackTx(d)
    <3>1. Writes(d, {}, "no", {}, 0, FALSE)
      BY <1>0, <2>2, StatementsWrite
    <3>2. QED
      BY <1>m, <2>1, <3>1 DEF Writes, ElectedInv, NobodyForces, OrderFree, Paid, tables
  <2>3. CASE CommitTx(d)
    BY <1>g, <1>m, <2>1, <2>3, CommitElected DEF ElectedInv, NobodyForces, Paid
  <2>4. QED
    BY <1>4, <2>2, <2>3 DEF Ends
<1>5. QED
  BY <1>1, <1>2, <1>3, <1>4

LEMMA ElectedCallback ==
    ASSUME BothTypeOK, ElectedInv, status' \in {status, "PAID"},
           NEW c \in Callbacks, CallbackStep(c)
    PROVE  ElectedInv'
<1> USE SlotsApart DEF CallbackStep, Here
<1>0. DBTypeOK
  BY DEF BothTypeOK, TypeOK
<1>g. status' \in {"PENDING", "PAID"} /\ (status = "PAID" => status' = "PAID")
  BY DEF ElectedInv, NobodyForces
<1>m. ElectedInv /\ (Paid <=> status = "PAID")
  BY ElectedMeanings
<1>1. CASE CAside(c) \/ CDecides(c)
  <2>1. UNCHANGED <<status, payStatus, tx>> /\ cpc'[c] # "insert"
    BY <1>1 DEF CAside, CDecides, CWent, dbVars
  <2>2. cpc'[c] \in {"event", "credit", "order"} => ordRow'[c]
    BY <1>1, ElectedMeanings DEF CAside, CDecides, CWent
  <2>3. QED
    BY <1>m, <2>1, <2>2 DEF ElectedInv, NobodyForces, OrderFree, Paid
<1>2. CASE CTells(c)
  <2>1. UNCHANGED <<payStatus, tx>> /\ cpc'[c] \in {"tell", "idle"}
    BY <1>2 DEF CTells, CWent, OverwriteStatus, dbVars
  <2>2. CASE UNCHANGED dbVars
    BY <1>m, <2>1, <2>2 DEF ElectedInv, NobodyForces, OrderFree, Paid, dbVars
  <2>3. CASE OverwriteStatus("PAID")
    <3>1. status' = "PAID" /\ \A t \in Txns : tx[t].order = "no"
      BY <2>3, ElectedMeanings DEF OverwriteStatus
    <3>2. QED
      BY <1>m, <2>1, <3>1 DEF ElectedInv, NobodyForces, Paid
  <2>4. QED
    BY <1>2, <2>2, <2>3 DEF CTells
<1>3. CASE CTransacts(c)
  <2>1. /\ UNCHANGED tables /\ \A u \in Txns \ {c} : tx'[u] = tx[u]
        /\ ordRow' = ordRow
    BY <1>0, <1>3, StatementsWrite DEF CTransacts, Writes, tables, dbVars
  <2>2. cpc[c] # "insert" /\ (cpc[c] \in {"event", "credit", "order"} => ordRow[c])
    BY DEF ElectedInv
  <2>3. cpc'[c] # "insert" /\ (cpc'[c] \in {"credit", "order"} => ordRow[c]) /\ cpc'[c] # "event"
    BY <1>3, <2>2 DEF CTransacts, CWent
  <2>4. CASE UpdateStatus(c)
    <3>1. status = "PENDING" /\ OrderFree(c)
      BY <2>4 DEF UpdateStatus
    <3>2. QED
      BY <1>m, <2>1, <2>3, <3>1 DEF ElectedInv, NobodyForces, OrderFree, Paid, tables
  <2>5. CASE ~UpdateStatus(c)
    <3>1. tx'[c].order = tx[c].order
      BY <1>0, <1>3, <2>2, <2>5, StatementsWrite DEF CTransacts, CWent, Writes, dbVars
    <3>2. QED
      BY <1>m, <2>1, <2>3, <3>1 DEF ElectedInv, NobodyForces, OrderFree, Paid, tables
  <2>6. QED
    BY <2>4, <2>5
<1>4. CASE CEnds(c)
  <2>1. cpc'[c] \in {"tell", "fallback"} /\ ordRow' = ordRow
    BY <1>4 DEF CEnds
  <2>2. CASE RollbackTx(c)
    <3>1. Writes(c, {}, "no", {}, 0, FALSE)
      BY <1>0, <2>2, StatementsWrite
    <3>2. QED
      BY <1>m, <2>1, <3>1 DEF Writes, ElectedInv, NobodyForces, OrderFree, Paid, tables
  <2>3. CASE CommitTx(c)
    BY <1>g, <1>m, <2>1, <2>3, CommitElected DEF ElectedInv, NobodyForces, Paid
  <2>4. QED
    BY <1>4, <2>2, <2>3 DEF CEnds
<1>5. QED
  BY <1>1, <1>2, <1>3, <1>4

LEMMA ElectedNext ==
    ASSUME NoSeller, BothTypeOK, ElectedInv, [BothNext]_allVars PROVE ElectedInv'
<1>0. status' \in {status, "PAID"}
  BY StatusGrows
<1>1. CASE Rests
  BY <1>1 DEF Rests, Here, There, dbVars, ElectedInv, NobodyForces, OrderFree, Paid
<1>2. CASE Overwrites
  <2>1. OverwriteStatus("PAID") /\ UNCHANGED <<pc, cpc, ordRow>>
    BY <1>2 DEF Overwrites, NoSeller, Here
  <2>2. /\ status' = "PAID" /\ UNCHANGED <<payStatus, tx>>
        /\ \A t \in Txns : tx[t].order = "no"
    BY <2>1, ElectedMeanings DEF OverwriteStatus
  <2>3. QED
    BY <2>1, <2>2 DEF ElectedInv, NobodyForces, Paid
<1>3. CASE Dies
  <2>1. UNCHANGED <<status, payStatus>> /\ NoTx.order = "no"
    BY <1>3 DEF Dies, tables, NoTx
  <2>2. \A t \in Txns : tx'[t] = tx[t] \/ tx'[t] = NoTx
    BY <1>3, SlotsApart DEF Dies
  <2>3. QED
    BY <1>3, <2>1, <2>2 DEF Dies, ElectedInv, NobodyForces, OrderFree, Paid
<1>4. QED
  BY <1>0, <1>1, <1>2, <1>3, BothSteps, ElectedDelivery, ElectedCallback

LEMMA ElectedAlways ==
    ASSUME OrderAwaitsPayment
    PROVE  BothSpec => [](BothTypeOK /\ JustifiedInv /\ CreditedInv /\ ElectedInv)
<1>1. NoSeller
  BY DEF OrderAwaitsPayment
<1>2. QED
  BY <1>1, ElectedInit, ElectedNext, CreditedAlways, PTL DEF BothSpec
-----------------------------------------------------------------------------
(* A unit is sold with the credit, once.                                   *)

LEMMA SoldInit == BothInit => SoldInv
BY SlotsApart DEF BothInit, Init, DBInit, RailInit, SoldInv, Booked, NoTx

(* A delivery that settles holds the row of an unpaid order, and nobody    *)
(* has been credited for it.                                               *)
LEMMA SettlingUnpaid ==
    ASSUME CreditedInv, ElectedInv, NEW d \in Deliveries, Settling(d)
    PROVE  status = "PENDING" /\ payStatus # "PAID" /\ ledger = {}
BY SlotsApart DEF CreditedInv, ElectedInv

LEMMA CommitSells ==
    ASSUME BothTypeOK, JustifiedInv, SoldInv, NEW t \in Txns, CommitTx(t)
    PROVE  /\ stock' = Stock \/ (stock' = Stock - 1 /\ Stock >= 1 /\ ledger' # {})
           /\ tx'[t].units = 0 /\ \A u \in Txns \ {t} : tx'[u] = tx[u]
<1>1. tx[t] \in Pending /\ tx'[t].units = 0 /\ \A u \in Txns \ {t} : tx'[u] = tx[u]
  BY DEF BothTypeOK, TypeOK, DBTypeOK, CommitTx, NoTx
<1>2. CASE tx[t].broken
  BY <1>1, <1>2 DEF CommitTx, tables, SoldInv
<1>3. CASE ~tx[t].broken /\ tx[t].units = 1
  <2>1. tx[t].credit # {} /\ ledger = {} /\ Stock >= 1 /\ stock = Stock
    BY <1>3 DEF SoldInv, JustifiedInv, CreditElectsOne
  <2>2. stock' = Stock - 1 /\ ledger' # {}
    BY <1>3, <2>1 DEF CommitTx
  <2>3. QED
    BY <1>1, <2>1, <2>2
<1>4. CASE ~tx[t].broken /\ tx[t].units = 0
  <2>1. stock' = stock /\ ledger \subseteq ledger'
    BY <1>4, StockAssumption DEF CommitTx, BothTypeOK, TypeOK, DBTypeOK
  <2>2. QED
    BY <1>1, <2>1 DEF SoldInv
<1>5. QED
  BY <1>1, <1>2, <1>3, <1>4 DEF Pending

LEMMA SoldDelivery ==
    ASSUME BothTypeOK, JustifiedInv, CreditedInv, ElectedInv, SoldInv,
           NEW d \in Deliveries, DeliveryStep(d)
    PROVE  SoldInv'
<1> USE SlotsApart DEF SoldInv, DeliveryStep, There
<1>0. DBTypeOK
  BY DEF BothTypeOK, TypeOK
<1>1. CASE Aside(d) \/ Finishes(d) \/ (Went(d, "finish", "idle") /\ UNCHANGED dbVars)
  <2>1. UNCHANGED <<ledger, stock, tx>> /\ pc'[d] \notin {"stock", "commit"}
    BY <1>1 DEF Aside, Finishes, Went, RecordReplay, OverwritePaid, dbVars
  <2>2. QED
    BY <2>1
<1>2. CASE Transacts(d)
  <2>1. UNCHANGED tables /\ \A u \in Txns \ {d} : tx'[u] = tx[u]
    BY <1>0, <1>2, StatementsWrite DEF Transacts, Writes, tables, dbVars
  <2>2. CASE Went(d, "credit", "stock") /\ InsertCredit(d, EventOf[d])
    <3>1. tx'[d].credit # {} /\ tx'[d].units = tx[d].units
      <4>1. ledger = {}
        BY <2>2, SettlingUnpaid DEF Went, Settling
      <4>2. Writes(d, tx[d].event, tx[d].order, IF ledger = {} THEN {EventOf[d]} ELSE {},
                   tx[d].units, tx[d].broken)
        BY <1>0, <2>2, StatementsWrite
      <4>3. QED
        BY <4>1, <4>2 DEF Writes
    <3>2. QED
      BY <2>1, <3>1 DEF tables
  <2>3. CASE Went(d, "stock", "commit")
    <3>1. tx[d].credit # {} /\ stock = Stock
      BY <2>3 DEF Went, JustifiedInv, CreditElectsOne
    <3>2. tx'[d].credit = tx[d].credit
      BY <1>0, <1>2, <2>3, StatementsWrite DEF Transacts, Went, Writes, dbVars
    <3>3. tx'[d].units = 1 => tx[d].units = 1 \/ stock >= 1
      BY <1>0, <1>2, <2>3, StatementsWrite DEF Transacts, Went, Writes, dbVars, DeductStock
    <3>4. QED
      BY <2>1, <3>1, <3>2, <3>3 DEF tables
  <2>4. CASE ~Went(d, "credit", "stock") /\ ~Went(d, "stock", "commit")
    <3>1. tx'[d].credit = tx[d].credit /\ tx'[d].units = tx[d].units
      BY <1>0, <1>2, <2>4, StatementsWrite DEF Transacts, Writes, dbVars
    <3>2. pc'[d] \notin {"stock", "commit"}
      BY <1>2, <2>4 DEF Transacts, Went
    <3>3. QED
      BY <2>1, <3>1, <3>2 DEF tables
  <2>5. QED
    BY <1>2, <2>2, <2>3, <2>4 DEF Transacts, Went
<1>3. CASE Ends(d)
  <2>1. pc'[d] \notin {"stock", "commit"}
    BY <1>3 DEF Ends
  <2>2. CASE RollbackTx(d)
    <3>1. Writes(d, {}, "no", {}, 0, FALSE)
      BY <1>0, <2>2, StatementsWrite
    <3>2. QED
      BY <2>1, <3>1 DEF Writes, tables
  <2>3. CASE CommitTx(d)
    BY <2>1, <2>3, CommitSells
  <2>4. QED
    BY <1>3, <2>2, <2>3 DEF Ends
<1>4. QED
  BY <1>1, <1>2, <1>3

LEMMA SoldCallback ==
    ASSUME BothTypeOK, JustifiedInv, SoldInv, NEW c \in Callbacks, CallbackStep(c)
    PROVE  SoldInv'
<1> USE SlotsApart DEF SoldInv, CallbackStep, Here
<1>0. DBTypeOK
  BY DEF BothTypeOK, TypeOK
<1>1. CASE CAside(c) \/ CDecides(c) \/ CTells(c)
  <2>1. UNCHANGED <<ledger, stock, tx>> /\ cpc'[c] \notin Booked
    BY <1>1 DEF CAside, CDecides, CTells, CWent, OverwriteStatus, dbVars, Booked
  <2>2. QED
    BY <2>1
<1>2. CASE CTransacts(c)
  <2>1. UNCHANGED tables /\ \A u \in Txns \ {c} : tx'[u] = tx[u]
    BY <1>0, <1>2, StatementsWrite DEF CTransacts, Writes, tables, dbVars
  <2>2. CASE CWent(c, "event", "credit")
    <3>1. tx'[c].credit = tx[c].credit /\ tx'[c].units = tx[c].units /\ cpc'[c] \notin Booked
      BY <1>0, <1>2, <2>2, StatementsWrite DEF CTransacts, CWent, Writes, dbVars, Booked
    <3>2. QED
      BY <2>1, <3>1 DEF tables
  <2>3. CASE CWent(c, "credit", "order")
    <3>1. tx'[c].credit # {} /\ tx'[c].units = tx[c].units
      BY <1>0, <1>2, <2>3, StatementsWrite DEF CTransacts, CWent, Writes
    <3>2. QED
      BY <2>1, <3>1 DEF tables
  <2>4. CASE cpc[c] \in Booked
    <3>1. tx[c].credit # {} /\ stock = Stock
      BY <2>4 DEF JustifiedInv, CreditElectsOne
    <3>2. tx'[c].credit = tx[c].credit
      BY <1>0, <1>2, <2>4, StatementsWrite DEF CTransacts, CWent, Writes, dbVars, Booked
    <3>3. tx'[c].units = 1 => tx[c].units = 1 \/ stock >= 1
      BY <1>0, <1>2, <2>4, StatementsWrite
      DEF CTransacts, CWent, Writes, dbVars, Booked, DeductStock
    <3>4. QED
      BY <2>1, <3>1, <3>2, <3>3 DEF tables
  <2>5. QED
    BY <1>2, <2>2, <2>3, <2>4 DEF CTransacts, CWent, Booked
<1>3. CASE CEnds(c)
  <2>1. cpc'[c] \notin Booked
    BY <1>3 DEF CEnds, Booked
  <2>2. CASE RollbackTx(c)
    <3>1. Writes(c, {}, "no", {}, 0, FALSE)
      BY <1>0, <2>2, StatementsWrite
    <3>2. QED
      BY <2>1, <3>1 DEF Writes, tables
  <2>3. CASE CommitTx(c)
    BY <2>1, <2>3, CommitSells
  <2>4. QED
    BY <1>3, <2>2, <2>3 DEF CEnds
<1>4. QED
  BY <1>1, <1>2, <1>3

LEMMA SoldNext ==
    ASSUME BothTypeOK, JustifiedInv, CreditedInv, ElectedInv, SoldInv, [BothNext]_allVars
    PROVE  SoldInv'
<1>1. CASE Overwrites \/ Rests
  <2>1. UNCHANGED <<ledger, stock, tx, pc, cpc>>
    BY <1>1 DEF Overwrites, Rests, OverwriteStatus, dbVars, Here, There
  <2>2. QED
    BY <2>1 DEF SoldInv
<1>2. CASE Dies
  <2>1. UNCHANGED <<ledger, stock>> /\ NoTx.units = 0
    BY <1>2 DEF Dies, tables, NoTx
  <2>2. \A t \in Txns : tx'[t] = tx[t] \/ tx'[t] = NoTx
    BY <1>2, SlotsApart DEF Dies
  <2>3. QED
    BY <1>2, <2>1, <2>2 DEF Dies, SoldInv, Booked
<1>3. QED
  BY <1>1, <1>2, BothSteps, SoldDelivery, SoldCallback

(* One unit at most leaves the shelf for an order, and only for a payment  *)
(* that is in the ledger, whichever rail took it and whatever failed.      *)
THEOREM SoldWithCredit == OrderAwaitsPayment => (BothSpec => []SoldOnlyWithCredit)
<1> SUFFICES ASSUME OrderAwaitsPayment PROVE BothSpec => []SoldOnlyWithCredit
  OBVIOUS
<1>1. SoldInv => SoldOnlyWithCredit
  BY StockAssumption DEF SoldInv, SoldOnlyWithCredit
<1>2. QED
  BY <1>1, SoldInit, SoldNext, ElectedAlways, PTL DEF BothSpec

-----------------------------------------------------------------------------
(* The customer is told of a paid order only.                              *)

LEMMA ToldInit == BothInit => ToldInv
BY SlotsApart DEF BothInit, Init, DBInit, RailInit, ToldInv, NoTx

LEMMA ToldNext ==
    ASSUME NoSeller, BothTypeOK, CreditedInv, ElectedInv, ToldInv, [BothNext]_allVars
    PROVE  ToldInv'
<1> USE SlotsApart DEF ToldInv
<1>0. DBTypeOK
  BY DEF BothTypeOK, TypeOK
<1>g. status' \in {status, "PAID"} /\ (OverwriteStatus("PAID") => status' = "PAID")
  BY StatusGrows, ElectedMeanings DEF OverwriteStatus
<1>1. CASE Rests
  BY <1>1 DEF Rests, There, dbVars
<1>2. CASE Overwrites
  <2>1. OverwriteStatus("PAID") /\ UNCHANGED <<cpc, tx, swallowed>>
    BY <1>2 DEF Overwrites, NoSeller, OverwriteStatus
  <2>2. QED
    BY <1>g, <2>1
<1>3. CASE Dies
  BY <1>g, <1>3 DEF Dies, NoTx
<1>4. ASSUME NEW d \in Deliveries, DeliveryStep(d) PROVE ToldInv'
  <2>1. \A u \in Txns \ {d} : tx'[u] = tx[u]
    BY <1>0, <1>4, StatementsWrite
    DEF DeliveryStep, Aside, Transacts, Ends, Finishes, Writes, dbVars, RecordReplay,
        OverwritePaid, CommitTx, DBTypeOK
  <2>2. QED
    BY <1>g, <1>4, <2>1 DEF DeliveryStep, There
<1>5. ASSUME NEW c \in Callbacks, CallbackStep(c) PROVE ToldInv'
  <2> USE <1>5 DEF CallbackStep
  <2>o. \A b \in Callbacks \ {c} :
          cpc'[b] = cpc[b] /\ (b \in swallowed => b \in swallowed')
    OBVIOUS
  <2>1. CASE CAside(c) \/ CDecides(c)
    <3>1. /\ tx' = tx /\ cpc[c] # "commit"
          /\ cpc'[c] = "tell" => status = "PAID"
      BY <2>1 DEF CAside, CDecides, CWent, dbVars, InSettlement, ElectedInv, NobodyForces
    <3>2. QED
      BY <1>g, <2>o, <3>1
  <2>2. CASE CTells(c)
    <3>1. tx' = tx
      BY <2>2 DEF CTells, OverwriteStatus, dbVars
    <3>2. /\ cpc[c] \in {"fallback", "tell"}
          /\ cpc'[c] = "tell" => status' = "PAID" \/ c \in swallowed'
      BY <1>g, <2>2 DEF CTells, CWent
    <3>3. QED
      BY <1>g, <2>o, <3>1, <3>2
  <2>3. CASE CTransacts(c)
    <3>1. \A u \in Txns \ {c} : tx'[u] = tx[u]
      BY <1>0, <2>3, StatementsWrite DEF CTransacts, Writes, dbVars
    <3>2. tx'[c].broken => cpc'[c] = "commit" /\ c \in swallowed'
      BY <1>0, <2>3, StatementsWrite DEF CTransacts, CWent, Writes, dbVars
    <3>3. cpc'[c] # "tell"
      BY <2>3 DEF CTransacts, CWent
    <3>4. QED
      BY <1>g, <2>o, <3>1, <3>2, <3>3
  <2>4. CASE CEnds(c)
    <3>1. CASE RollbackTx(c) /\ cpc'[c] = "fallback"
      <4>1. Writes(c, {}, "no", {}, 0, FALSE)
        BY <1>0, <3>1, StatementsWrite
      <4>2. QED
        BY <1>g, <2>o, <3>1, <4>1 DEF Writes
    <3>2. CASE cpc[c] = "commit" /\ CommitTx(c)
      <4>1. status' = "PAID" \/ c \in swallowed'
        BY <1>g, <2>4, <3>2 DEF CommitTx, CEnds, CreditedInv
      <4>2. ~tx'[c].broken /\ \A u \in Txns \ {c} : tx'[u] = tx[u]
        BY <1>0, <3>2 DEF CommitTx, DBTypeOK, NoTx
      <4>3. QED
        BY <1>g, <2>o, <4>1, <4>2
    <3>3. QED
      BY <2>4, <3>1, <3>2 DEF CEnds
  <2>5. QED
    BY <2>1, <2>2, <2>3, <2>4
<1>6. QED
  BY <1>1, <1>2, <1>3, <1>4, <1>5, BothSteps

(* A callback tells the customer of a payment only if the row of the order *)
(* says so or the callback itself swallowed the error of a write: no race  *)
(* with the other rail, empty shelf, deadlock, lost COMMIT or crash makes  *)
(* it tell of an unpaid order.                                             *)
THEOREM ToldOfPaid == OrderAwaitsPayment => (BothSpec => UnpaidIsSwallowed)
<1> SUFFICES ASSUME OrderAwaitsPayment PROVE BothSpec => UnpaidIsSwallowed
  OBVIOUS
<1>1. NoSeller
  BY DEF OrderAwaitsPayment
<1>2. BothTypeOK /\ JustifiedInv /\ CreditedInv /\ ElectedInv /\ ToldInv /\ [BothNext]_allVars
        => ToldInv'
  BY <1>1, ToldNext
<1>3. ToldInv => \A c \in Callbacks : Tell(c) => Paid \/ c \in swallowed
  BY DEF ToldInv, Tell, Answer, Leave, Step, Paid
<1>4. QED
  BY <1>2, <1>3, ToldInit, ElectedAlways, PTL DEF BothSpec, UnpaidIsSwallowed

-----------------------------------------------------------------------------
(* The webhook dispatches what it settled.                                 *)

LEMMA SettledInit == BothInit => SettledInv
BY SlotsApart DEF BothInit, Init, DBInit, RailInit, SettledInv, Settled, NoTx

LEMMA SettledDelivery ==
    ASSUME ~StockFaults, BothTypeOK, CreditedInv, ElectedInv, SettledInv,
           payStatus = "PAID" => payStatus' = "PAID",
           NEW d \in Deliveries, DeliveryStep(d)
    PROVE  SettledInv'
<1> USE SlotsApart DEF SettledInv, DeliveryStep
<1>0. DBTypeOK
  BY DEF BothTypeOK, TypeOK
<1>1. CASE Went(d, "finish", "idle") /\ UNCHANGED dbVars /\ dispatches' = dispatches + 1
  <2>1. payStatus = "PAID" /\ dispatches = 0 /\ \A e \in Deliveries \ {d} : ~Settled(e)
    BY <1>1 DEF Went, Settled
  <2>2. QED
    BY <1>1, <2>1 DEF Went, Settled, dbVars
<1>2. CASE (Aside(d) \/ Finishes(d)) /\ dispatches' = dispatches
  <2>1. tx' = tx /\ (Settled(d)' => Settled(d))
    BY <1>2 DEF Aside, Finishes, Went, Settled, RecordReplay, OverwritePaid, dbVars
  <2>2. QED
    BY <1>2, <2>1 DEF Settled
<1>3. CASE Transacts(d) /\ dispatches' = dispatches
  <2>1. \A u \in Txns \ {d} : tx'[u] = tx[u]
    BY <1>0, <1>3, StatementsWrite DEF Transacts, Writes, dbVars
  <2>2. ~tx'[d].broken /\ ~Settled(d)'
    BY <1>0, <1>3, StatementsWrite DEF Transacts, Writes, Went, Settled, dbVars
  <2>3. QED
    BY <1>3, <2>1, <2>2 DEF Settled
<1>4. CASE Ends(d) /\ dispatches' = dispatches
  <2>1. CASE RollbackTx(d) /\ pc'[d] \in {"already", "failed"}
    <3>1. Writes(d, {}, "no", {}, 0, FALSE)
      BY <1>0, <2>1, StatementsWrite
    <3>2. QED
      BY <1>4, <2>1, <3>1 DEF Writes, tables, Settled
  <2>2. CASE pc[d] = "commit" /\ CommitTx(d)
    <3>1. payStatus # "PAID" /\ tx[d].order = "full" /\ ~tx[d].broken
      BY <2>2, SettlingUnpaid DEF Settling, CreditedInv
    <3>2. /\ dispatches = 0 /\ \A e \in Deliveries : ~Settled(e)
          /\ payStatus' = "PAID"
      BY <2>2, <3>1 DEF CommitTx
    <3>3. ~tx'[d].broken /\ \A u \in Txns \ {d} : tx'[u] = tx[u]
      BY <1>0, <2>2 DEF CommitTx, DBTypeOK, NoTx
    <3>4. QED
      BY <1>4, <3>2, <3>3 DEF Settled
  <2>3. QED
    BY <1>4, <2>1, <2>2 DEF Ends
<1>5. QED
  BY <1>1, <1>2, <1>3, <1>4

LEMMA SettledNext ==
    ASSUME ~StockFaults, BothTypeOK, CreditedInv, ElectedInv, SettledInv, [BothNext]_allVars
    PROVE  SettledInv'
<1> USE SlotsApart DEF SettledInv
<1>0. DBTypeOK
  BY DEF BothTypeOK, TypeOK
<1>g. payStatus = "PAID" => payStatus' = "PAID"
  BY PayStatusStays
<1>1. CASE Overwrites \/ Rests
  <2>1. UNCHANGED <<tx, pc, dispatches>>
    BY <1>1 DEF Overwrites, Rests, OverwriteStatus, dbVars, Here
  <2>2. QED
    BY <1>g, <2>1 DEF Settled
<1>2. CASE Dies
  BY <1>g, <1>2 DEF Dies, NoTx, Settled
<1>3. ASSUME NEW c \in Callbacks, CallbackStep(c) PROVE SettledInv'
  <2>1. \A u \in Txns \ {c} : tx'[u] = tx[u]
    BY <1>0, <1>3, StatementsWrite
    DEF CallbackStep, CAside, CTransacts, CEnds, CDecides, CTells, Writes, dbVars,
        OverwriteStatus, CommitTx, DBTypeOK
  <2>2. QED
    BY <1>g, <1>3, <2>1 DEF CallbackStep, Here, Settled
<1>4. QED
  BY <1>g, <1>1, <1>2, <1>3, BothSteps, SettledDelivery

(* The goods are dispatched once at most, and only by the delivery that    *)
(* wrote payment_status itself, however many callbacks and agents make the *)
(* order paid beside it.                                                   *)
THEOREM SettlerDispatches ==
    OrderAwaitsPayment /\ ~StockFaults => (BothSpec => []OnlyTheSettlerDispatches)
<1> SUFFICES ASSUME OrderAwaitsPayment, ~StockFaults
             PROVE  BothSpec => []OnlyTheSettlerDispatches
  OBVIOUS
<1>1. SettledInv => OnlyTheSettlerDispatches
  BY DEF SettledInv, OnlyTheSettlerDispatches
<1>2. QED
  BY <1>1, SettledInit, SettledNext, ElectedAlways, PTL DEF BothSpec

-----------------------------------------------------------------------------
(* Both rails implement the contract.                                      *)

(* Whoever writes payment_status has credited the ledger.                  *)
PayCreditedInv == payStatus = "PAID" => ledger # {}

(* What the steps of both rails need to be steps of the contract.          *)
RailsHypothesis == OrderAwaitsPayment /\ ~StockFaults

RailsInv ==
    /\ BothTypeOK /\ JustifiedInv /\ CreditedInv /\ ElectedInv
    /\ SoldInv /\ ToldInv /\ SettledInv /\ PayCreditedInv

(* The tables, as far as the contract speaks of them.                      *)
orderVars == <<status, payStatus, ledger, stock>>

(* Nothing but a commit, a sync or an UPDATE of the status touches them.   *)
LEMMA StatementsSettleNothing ==
    ASSUME NEW t \in Txns, NEW e,
           \/ UNCHANGED dbVars
           \/ InsertEvent(t, e) \/ UpdateOrder(t) \/ UpsertOrder(t)
           \/ UpdateStatus(t) \/ UpsertStatus(t) \/ InsertCredit(t, e)
           \/ DeductStock(t) \/ BreakTx(t) \/ RollbackTx(t) \/ RecordReplay(t, e)
    PROVE  UNCHANGED orderVars
BY DEF dbVars, tables, InsertEvent, UpdateOrder, UpsertOrder, UpdateStatus, UpsertStatus,
       InsertCredit, DeductStock, BreakTx, RollbackTx, RecordReplay, orderVars

(* A commit of either rail settles the order: it brings the credit the     *)
(* ledger does not have, with one unit or none, and finds the order        *)
(* pending and writes it, or finds it paid.                                *)
LEMMA CommitSettles ==
    ASSUME RailsInv, NEW t \in Txns, CommitTx(t), tx[t].credit # {}, ~tx[t].broken,
           tx[t].order # "no" \/ status = "PAID"
    PROVE  /\ ledger = {} /\ ledger' # {} /\ status' = "PAID"
           /\ stock = Stock /\ stock' \in {Stock, Stock - 1}
<1>1. DBTypeOK /\ tx[t] \in Pending
  BY DEF RailsInv, BothTypeOK, TypeOK, DBTypeOK
<1>2. ledger = {} /\ stock = Stock
  BY DEF RailsInv, JustifiedInv, CreditElectsOne, SoldInv
<1>3. ledger' = ledger \cup tx[t].credit /\ status' = "PAID" /\ stock' = stock - tx[t].units
  BY DEF CommitTx
<1>4. tx[t].units \in {0, 1} /\ Stock \in Nat
  BY <1>1, StockAssumption DEF Pending
<1>5. QED
  BY <1>2, <1>3, <1>4

LEMMA RailsInit == OrderAwaitsPayment /\ BothInit => RailsInv /\ Rails!Init
<1> SUFFICES ASSUME OrderAwaitsPayment, BothInit PROVE RailsInv /\ Rails!Init
  OBVIOUS
<1>1. /\ status = "PENDING" /\ ledger = {} /\ stock = Stock /\ dispatches = 0
      /\ told = FALSE /\ (swallowed # {}) = FALSE
  BY DEF OrderAwaitsPayment, BothInit, Init, DBInit, RailInit
<1>2. ElectedInv
  BY ElectedInit
<1>3. payStatus # "PAID"
  BY <1>1, <1>2 DEF ElectedInv
<1>4. Paid = FALSE /\ (ledger # {}) = FALSE
  BY <1>1, <1>3 DEF Paid
<1>5. Rails!Init
  BY <1>1, <1>4, StockAssumption DEF Rails!Init
<1>6. QED
  BY <1>2, <1>3, <1>5, BothTypeOKInit, JustifiedInit, CreditedInit, SoldInit, ToldInit, SettledInit
  DEF RailsInv, PayCreditedInv

-----------------------------------------------------------------------------
(* Steps that the contract does not see, except for an error swallowed or  *)
(* forgotten, and steps that it does.                                      *)

Unseen == UNCHANGED orderVars /\ UNCHANGED <<told, dispatches>>

SettlesOne ==
    /\ ledger = {} /\ ledger' # {} /\ status' = "PAID"
    /\ stock = Stock /\ stock' \in {Stock, Stock - 1}
    /\ UNCHANGED <<told, dispatches, swallowed>>

MarksPaid ==
    /\ status' = "PAID" /\ told' \in {told, TRUE}
    /\ UNCHANGED <<payStatus, ledger, stock, dispatches, swallowed>>

TellsOne ==
    /\ status = "PAID" \/ swallowed # {}
    /\ told' \in {told, TRUE} /\ swallowed' \subseteq swallowed
    /\ UNCHANGED orderVars /\ dispatches' = dispatches

DispatchesOne ==
    /\ status = "PAID" /\ ledger # {}
    /\ dispatches = 0 /\ dispatches' = 1
    /\ UNCHANGED orderVars /\ UNCHANGED <<told, swallowed>>

LEMMA DeliveryKinds ==
    ASSUME RailsInv, NEW d \in Deliveries, DeliveryStep(d)
    PROVE  Unseen \/ SettlesOne \/ DispatchesOne
<1> USE SlotsApart DEF DeliveryStep, There
<1>1. CASE Went(d, "finish", "idle") /\ UNCHANGED dbVars /\ dispatches' = dispatches + 1
  <2>1. payStatus = "PAID" /\ dispatches = 0
    BY <1>1 DEF RailsInv, SettledInv, Settled, Went
  <2>2. status = "PAID" /\ ledger # {}
    BY <2>1 DEF RailsInv, ElectedInv, PayCreditedInv
  <2>3. QED
    BY <1>1, <2>1, <2>2, StatementsSettleNothing DEF DispatchesOne
<1>2. CASE (Aside(d) \/ Transacts(d)) /\ dispatches' = dispatches
  BY <1>2, StatementsSettleNothing DEF Aside, Transacts, Unseen
<1>3. CASE Finishes(d) /\ dispatches' = dispatches
  <2>1. CASE OverwritePaid /\ pc[d] = "sync"
    <3>1. payStatus = "PAID" /\ status = "PAID"
      BY <2>1 DEF RailsInv, SettledInv, Settled, ElectedInv
    <3>2. QED
      BY <1>3, <2>1, <3>1 DEF OverwritePaid, Unseen, orderVars
  <2>2. CASE UNCHANGED dbVars
    BY <1>3, <2>2, StatementsSettleNothing DEF Unseen
  <2>3. QED
    BY <1>3, <2>1, <2>2 DEF Finishes, Went
<1>4. CASE Ends(d) /\ dispatches' = dispatches
  <2>1. CASE RollbackTx(d)
    BY <1>4, <2>1, StatementsSettleNothing DEF Unseen
  <2>2. CASE pc[d] = "commit" /\ CommitTx(d)
    <3>1. tx[d].credit # {} /\ ~tx[d].broken /\ tx[d].order # "no"
      BY <2>2 DEF RailsInv, SoldInv, SettledInv, CreditedInv, Settling
    <3>2. QED
      BY <1>4, <2>2, <3>1, CommitSettles DEF SettlesOne
  <2>3. QED
    BY <1>4, <2>1, <2>2 DEF Ends
<1>5. QED
  BY <1>1, <1>2, <1>3, <1>4

LEMMA CallbackKinds ==
    ASSUME RailsInv, NEW c \in Callbacks, CallbackStep(c)
    PROVE  Unseen \/ SettlesOne \/ MarksPaid \/ TellsOne
<1> USE SlotsApart DEF CallbackStep, Here
<1>1. CASE CAside(c) \/ CTransacts(c) \/ CDecides(c)
  BY <1>1, StatementsSettleNothing DEF CAside, CTransacts, CDecides, Unseen
<1>2. CASE CEnds(c)
  <2>1. CASE RollbackTx(c)
    BY <1>2, <2>1, StatementsSettleNothing DEF CEnds, Unseen
  <2>2. CASE cpc[c] = "commit" /\ CommitTx(c) /\ tx[c].broken
    BY <1>2, <2>2 DEF CommitTx, CEnds, Unseen, tables, orderVars
  <2>3. CASE cpc[c] = "commit" /\ CommitTx(c) /\ ~tx[c].broken
    <3>1. tx[c].credit # {} /\ (tx[c].order # "no" \/ status = "PAID")
      BY <2>3 DEF RailsInv, SoldInv, CreditedInv, Booked
    <3>2. QED
      BY <1>2, <2>3, <3>1, CommitSettles DEF CEnds, SettlesOne
  <2>4. QED
    BY <1>2, <2>1, <2>2, <2>3 DEF CEnds
<1>3. CASE CTells(c)
  <2>1. CASE CWent(c, "tell", "idle") /\ UNCHANGED dbVars
    <3>1. status = "PAID" \/ swallowed # {}
      BY <2>1 DEF RailsInv, ToldInv, CWent
    <3>2. told' \in {told, TRUE} /\ swallowed' \subseteq swallowed
      BY <1>3, <2>1 DEF CTells, CWent
    <3>3. QED
      BY <2>1, <3>1, <3>2, StatementsSettleNothing DEF TellsOne
  <2>2. CASE OverwriteStatus("PAID") /\ told' = told /\ UNCHANGED swallowed
    BY <2>2, ElectedMeanings DEF RailsInv, OverwriteStatus, MarksPaid
  <2>3. CASE UNCHANGED dbVars /\ told' = told
    BY <2>3, StatementsSettleNothing DEF Unseen
  <2>4. QED
    BY <1>3, <2>1, <2>2, <2>3 DEF CTells
<1>4. QED
  BY <1>1, <1>2, <1>3

(* Every step of the two rails, of the agents and of the environment.      *)
LEMMA RailsKinds ==
    ASSUME RailsHypothesis, RailsInv, [BothNext]_allVars
    PROVE  Unseen \/ SettlesOne \/ MarksPaid \/ TellsOne \/ DispatchesOne
<1>1. CASE Overwrites
  BY <1>1, ElectedMeanings
  DEF RailsInv, RailsHypothesis, OrderAwaitsPayment, NoSeller,
      Overwrites, OverwriteStatus, Here, MarksPaid
<1>2. CASE Dies \/ Rests
  BY <1>2 DEF Dies, Rests, Here, There, tables, dbVars, Unseen, orderVars
<1>3. QED
  BY <1>1, <1>2, BothSteps, DeliveryKinds, CallbackKinds DEF RailsInv

LEMMA PayCreditedNext ==
    ASSUME RailsHypothesis, RailsInv, [BothNext]_allVars PROVE PayCreditedInv'
BY RailsKinds
DEF RailsInv, PayCreditedInv, Unseen, SettlesOne, MarksPaid, TellsOne, DispatchesOne, orderVars

LEMMA RailsInvNext ==
    ASSUME RailsHypothesis, RailsInv, [BothNext]_allVars PROVE RailsInv'
BY BothTypeOKNext, JustifiedNext, CreditedNext, ElectedNext, SoldNext, ToldNext, SettledNext,
   PayCreditedNext
DEF RailsHypothesis, RailsInv, OrderAwaitsPayment

(* Every step of both rails is a step of the contract or a stutter.        *)
LEMMA RailsStep ==
    ASSUME RailsHypothesis, RailsInv, RailsInv', [BothNext]_allVars
    PROVE  [Rails!Next]_(Rails!vars)
<1>1. (Paid <=> status = "PAID") /\ (Paid' <=> status' = "PAID")
  BY DEF RailsInv, ElectedInv, Paid
<1>2. CASE Unseen
  <2>1. UNCHANGED <<Paid, ledger # {}, Stock - stock, told, dispatches>>
    BY <1>2 DEF Unseen, orderVars, Paid
  <2>2. (swallowed # {})' = ~(swallowed # {}) \/ (swallowed # {})' = (swallowed # {})
    OBVIOUS
  <2>3. QED
    BY <2>1, <2>2 DEF Rails!vars, Rails!Excuse, Rails!Next
<1>3. CASE SettlesOne
  <2>1. Paid' = TRUE /\ (ledger # {}) = FALSE /\ (ledger # {})' = TRUE
    BY <1>1, <1>3 DEF SettlesOne
  <2>2. Stock - stock' \in {Stock - stock, Stock - stock + 1}
    <3>1. \A s \in Nat : s - (s - 1) = s - s + 1
      OBVIOUS
    <3>2. QED
      BY <1>3, <3>1, StockAssumption DEF SettlesOne
  <2>3. QED
    BY <1>3, <2>1, <2>2 DEF SettlesOne, Rails!Settle, Rails!Next
<1>4. CASE MarksPaid
  <2>1. /\ Paid' = TRUE /\ (ledger # {})' = (ledger # {}) /\ (Stock - stock)' = Stock - stock
        /\ (swallowed # {})' = (swallowed # {})
    BY <1>1, <1>4 DEF MarksPaid
  <2>2. CASE ~Paid
    BY <1>4, <2>1, <2>2 DEF MarksPaid, Rails!MarkPaid, Rails!Next
  <2>3. CASE Paid /\ told' = TRUE
    BY <1>4, <2>1, <2>3 DEF MarksPaid, Rails!Tell, Rails!Next, Paid
  <2>4. CASE Paid /\ told' = told
    BY <1>4, <2>1, <2>4 DEF MarksPaid, Rails!vars, Paid
  <2>5. QED
    BY <1>4, <2>2, <2>3, <2>4 DEF MarksPaid
<1>5. CASE TellsOne
  <2>1. UNCHANGED <<Paid, ledger # {}, Stock - stock, dispatches>>
    BY <1>5 DEF TellsOne, orderVars, Paid
  <2>2. Paid \/ swallowed # {}
    BY <1>1, <1>5 DEF TellsOne
  <2>3. (swallowed # {})' \in {swallowed # {}, FALSE}
    BY <1>5 DEF TellsOne
  <2>4. CASE told' = TRUE
    BY <2>1, <2>2, <2>3, <2>4 DEF Rails!Tell, Rails!Next
  <2>5. CASE told' = told
    BY <1>2, <1>5, <2>5 DEF TellsOne, Unseen
  <2>6. QED
    BY <1>5, <2>4, <2>5 DEF TellsOne
<1>6. CASE DispatchesOne
  BY <1>1, <1>6 DEF DispatchesOne, orderVars, Rails!Dispatch, Rails!Next, Paid
<1>7. QED
  BY <1>2, <1>3, <1>4, <1>5, <1>6, RailsKinds

(* Whatever mixture of deliveries, callbacks, agents, deadlock victims,    *)
(* lost commits and crashes settles an order that awaits payment, it does  *)
(* no more to the order than the contract allows: one credit that is never *)
(* taken back, paid for good, one unit at most and with the credit, the    *)
(* customer told of a paid order or by a request that swallowed an error,  *)
(* the goods dispatched once and credited.                                 *)
THEOREM RailsImplementation == RailsHypothesis => (BothSpec => ImplementsRailsContract)
<1> SUFFICES ASSUME RailsHypothesis PROVE BothSpec => ImplementsRailsContract
  OBVIOUS
<1>1. BothInit => RailsInv /\ Rails!Init
  BY RailsInit DEF RailsHypothesis
<1>2. RailsInv /\ [BothNext]_allVars => RailsInv'
  BY RailsInvNext
<1>3. RailsInv /\ RailsInv' /\ [BothNext]_allVars => [Rails!Next]_(Rails!vars)
  BY RailsStep
<1>4. QED
  BY <1>1, <1>2, <1>3, PTL DEF BothSpec, ImplementsRailsContract, Rails!Spec
=============================================================================
