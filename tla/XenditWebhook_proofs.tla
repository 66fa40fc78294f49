----------------------- MODULE XenditWebhook_proofs -----------------------
(***************************************************************************)
(* Proofs about XenditWebhook, for any number of workers, deliveries and   *)
(* events, any bound on polls and crashes, and any fault of the lock.      *)
(***************************************************************************)
EXTENDS XenditWebhook, TLAPS

-----------------------------------------------------------------------------
(* Type correctness, component by component.                               *)

(* A change of the lock, by a call of a worker or by the environment,      *)
(* leaves its variables in their types.                                    *)
LEMMA LockStaysTyped ==
    ASSUME LockTypeOK,
           \/ UNCHANGED lockVars
           \/ \E w \in Workers : Unlock(w) \/ ForgetLocal(w) \/ ExpireInMemory(w)
                                 \/ ThrottleEnds(w) \/ \E got \in BOOLEAN : TryLock(w, got)
           \/ ExpireRedis \/ RedisGoesDown \/ RedisComesBack
    PROVE  LockTypeOK'
<1> USE DEF LockTypeOK, lockVars, ClientStates
<1>1. CASE UNCHANGED lockVars
  BY <1>1
<1>2. ASSUME NEW w \in Workers, NEW got \in BOOLEAN, TryLock(w, got) PROVE LockTypeOK'
  BY <1>2 DEF TryLock, GetClient, ClientAfter, AcquireRedis, AcquireInMemory
<1>3. ASSUME NEW w \in Workers, Unlock(w) PROVE LockTypeOK'
  BY <1>3 DEF Unlock, GetClient, ClientAfter, ReleaseRedis, ReleaseInMemory
<1>4. ASSUME NEW w \in Workers, ForgetLocal(w) \/ ExpireInMemory(w) \/ ThrottleEnds(w)
      PROVE LockTypeOK'
  BY <1>4 DEF ForgetLocal, ExpireInMemory, ThrottleEnds
<1>5. CASE ExpireRedis \/ RedisGoesDown \/ RedisComesBack
  BY <1>5 DEF ExpireRedis, RedisGoesDown, RedisComesBack
<1>6. QED
  BY <1>1, <1>2, <1>3, <1>4, <1>5

(* Every statement, commit and rollback leaves the tables and the open     *)
(* transactions in their types.                                            *)
LEMMA TablesStayTyped ==
    ASSUME DBTypeOK,
           NEW d \in Txns, NEW e \in Events, NEW s \in Statuses, NEW ds,
           \/ UNCHANGED dbVars
           \/ InsertEvent(d, e) \/ UpdateOrder(d) \/ UpsertOrder(d)
           \/ InsertCredit(d, e) \/ DeductStock(d) \/ BreakTx(d)
           \/ CommitTx(d) \/ RollbackTx(d) \/ RollbackAll(ds)
           \/ RecordReplay(d, e) \/ OverwriteStatus(s) \/ OverwritePaid
    PROVE  DBTypeOK'
<1> USE DEF DBTypeOK
<1>1. NoTx \in Pending
  BY DEF NoTx, Pending
<1>2. CASE UNCHANGED dbVars
  BY <1>2 DEF dbVars
<1>3. CASE InsertEvent(d, e)
  BY <1>3 DEF InsertEvent, tables, Pending
<1>4. CASE UpdateOrder(d) \/ UpsertOrder(d)
  BY <1>4 DEF UpdateOrder, UpsertOrder, tables, Pending
<1>5. CASE InsertCredit(d, e)
  BY <1>5 DEF InsertCredit, tables, Pending
<1>6. CASE DeductStock(d) \/ BreakTx(d)
  BY <1>6 DEF DeductStock, BreakTx, tables, Pending
<1>7. CASE CommitTx(d)
  <2>1. tx[d] \in Pending
    OBVIOUS
  <2>2. tx[d].event \subseteq Events /\ tx[d].credit \subseteq Events /\ tx[d].units \in {0, 1}
    BY <2>1 DEF Pending
  <2>3. tx' \in [Txns -> Pending]
    BY <1>1, <1>7 DEF CommitTx
  <2>4. QED
    BY <1>7, <2>2, <2>3 DEF CommitTx, tables, Statuses, PayStatuses
<1>8. CASE RollbackTx(d) \/ RollbackAll(ds)
  BY <1>1, <1>8 DEF RollbackTx, RollbackAll, tables
<1>9. CASE RecordReplay(d, e) \/ OverwriteStatus(s) \/ OverwritePaid
  BY <1>9 DEF RecordReplay, OverwriteStatus, OverwritePaid, Statuses, PayStatuses
<1>10. QED
  BY <1>2, <1>3, <1>4, <1>5, <1>6, <1>7, <1>8, <1>9

-----------------------------------------------------------------------------
(* What the steps of a request do to the lock and to the tables.           *)

(* A step of a request calls the lock at most once, from its own worker.   *)
LEMMA HandleCallsLock ==
    ASSUME NEW d \in Deliveries, Deliver(d) \/ Handle(d)
    PROVE  \/ UNCHANGED lockVars
           \/ Unlock(WorkerOf[d])
           \/ \E got \in BOOLEAN : TryLock(WorkerOf[d], got)
BY DEF Deliver, Handle, Check, CheckHit, CheckMiss, CheckError,
       Local, LocalHit, IgnoreNonPaid, AskLock,
       Poll, PollHit, PollMiss, PollError, GiveUp,
       Lookup, LookupAccepts, LookupRefuses,
       Record, InTx, RecordEvent, MarkOrderPaid, NoRowToMark, FoundPaid,
       FoundUnpaid, ForceOrderPaid, CreditLedger, TakeStock, LeaveStock,
       StockError, Commit, TransactionFails, SyncSupabase,
       Conclude, AnswerFailed, AnswerAlreadySettled, ReleaseLock, Finish

(* A step of a request is one statement, commit or rollback, or none.      *)
LEMMA HandleRunsStatement ==
    ASSUME NEW d \in Deliveries, Deliver(d) \/ Handle(d)
    PROVE  \/ UNCHANGED dbVars
           \/ InsertEvent(d, EventOf[d]) \/ UpdateOrder(d) \/ UpsertOrder(d)
           \/ InsertCredit(d, EventOf[d]) \/ DeductStock(d) \/ BreakTx(d)
           \/ CommitTx(d) \/ RollbackTx(d)
           \/ RecordReplay(d, EventOf[d]) \/ OverwritePaid
BY DEF Deliver, Handle, Check, CheckHit, CheckMiss, CheckError, DbHit, DbMiss,
       Local, LocalHit, IgnoreNonPaid, AskLock,
       Poll, PollHit, PollMiss, PollError, GiveUp,
       Lookup, LookupAccepts, LookupRefuses,
       Record, RecordEvent, MarkOrderPaid, NoRowToMark, FoundPaid,
       FoundUnpaid, ForceOrderPaid, CreditLedger, TakeStock, LeaveStock,
       StockError, Commit, TransactionFails, SyncSupabase,
       Conclude, AnswerFailed, AnswerAlreadySettled, ReleaseLock, Finish

(* The variables that are neither the lock's nor the database's.           *)
RequestTypeOK ==
    /\ pc \in [Deliveries -> Labels]
    /\ polls \in [Deliveries -> 0..MaxPolls]
    /\ l1 \in [Workers -> BOOLEAN]
    /\ intent \in [Workers -> BOOLEAN]
    /\ tasks \subseteq Workers
    /\ dispatches \in Nat
    /\ fulfilled \in BOOLEAN
    /\ answers \in [Events -> SUBSET Answers]
    /\ seller \in {"idle"} \cup SellerStatuses
    /\ crashes \in 0..MaxCrashes

(* The type invariant, grouped by the module whose variables it bounds.    *)
LEMMA TypeOKParts == TypeOK <=> LockTypeOK /\ DBTypeOK /\ RequestTypeOK
BY DEF TypeOK, RequestTypeOK

(* A request moves to a label, with or without an answer.                  *)
LEMMA MoveStaysTyped ==
    ASSUME RequestTypeOK, NEW d \in Deliveries, NEW from, NEW to \in Labels,
           NEW a \in Answers
    PROVE  /\ Goto(d, from, to) => pc' \in [Deliveries -> Labels]
           /\ Refuse(d, from) => /\ pc' \in [Deliveries -> Labels]
                                 /\ answers' \in [Events -> SUBSET Answers]
           /\ Accept(d, from, a) => /\ pc' \in [Deliveries -> Labels]
                                    /\ answers' \in [Events -> SUBSET Answers]
<1>1. "idle" \in Labels
  BY DEF Labels
<1>2. Goto(d, from, to) => pc' \in [Deliveries -> Labels]
  BY DEF RequestTypeOK, Goto
<1>3. Goto(d, from, "idle") => pc' \in [Deliveries -> Labels]
  BY <1>1 DEF RequestTypeOK, Goto
<1>4. Refuse(d, from) => answers' \in [Events -> SUBSET Answers]
  BY DEF RequestTypeOK, Refuse
<1>5. Accept(d, from, a) => answers' \in [Events -> SUBSET Answers]
  <2>1. EventOf[d] \in Events
    BY SlotsAssumption
  <2>2. answers[EventOf[d]] \cup {a} \in SUBSET Answers
    BY <2>1 DEF RequestTypeOK
  <2>3. QED
    BY <2>2 DEF RequestTypeOK, Accept
<1>6. QED
  BY <1>2, <1>3, <1>4, <1>5 DEF Refuse, Accept

(* A step of a request keeps the variables of requests in their types.     *)
LEMMA HandleStaysTyped ==
    ASSUME RequestTypeOK, NEW d \in Deliveries, Deliver(d) \/ Handle(d)
    PROVE  RequestTypeOK'
<1>1. /\ \A l \in Labels : l \in Labels
      /\ Labels = InTransaction \cup {"lookup", "sync", "release", "already", "failed",
                                      "idle", "check", "local", "poll", "finish"}
  BY DEF Labels, Critical
<1>2. pc' \in [Deliveries -> Labels] /\ answers' \in [Events -> SUBSET Answers]
  <2> USE <1>1 DEF Answers
  <2>1. CASE Deliver(d) \/ Check(d)
    BY <2>1, MoveStaysTyped
    DEF Deliver, Check, CheckHit, CheckMiss, CheckError, RequestTypeOK
  <2>2. CASE Local(d)
    BY <2>2, MoveStaysTyped DEF Local, LocalHit, IgnoreNonPaid, AskLock, RequestTypeOK
  <2>3. CASE Poll(d)
    BY <2>3, MoveStaysTyped
    DEF Poll, PollHit, PollMiss, PollError, GiveUp, RequestTypeOK
  <2>4. CASE Lookup(d)
    BY <2>4, MoveStaysTyped
    DEF Lookup, LookupAccepts, LookupRefuses, InTransaction, RequestTypeOK
  <2>5. CASE Record(d)
    BY <2>5, MoveStaysTyped
    DEF Record, InTx, RecordEvent, MarkOrderPaid, NoRowToMark, FoundPaid,
        FoundUnpaid, ForceOrderPaid, CreditLedger, TakeStock, LeaveStock,
        StockError, Commit, TransactionFails, SyncSupabase,
        InTransaction, RequestTypeOK
  <2>6. CASE Conclude(d)
    BY <2>6, MoveStaysTyped
    DEF Conclude, AnswerFailed, AnswerAlreadySettled, ReleaseLock, Finish, RequestTypeOK
  <2>7. QED
    BY <2>1, <2>2, <2>3, <2>4, <2>5, <2>6 DEF Handle
<1>3. /\ polls' = polls \/ ResetPolls(d)
         \/ (polls[d] < MaxPolls /\ polls' = [polls EXCEPT ![d] = @ + 1])
      /\ l1' = l1 \/ MarkSettled(WorkerOf[d])
  BY DEF InTx, Deliver, Handle, Check, CheckHit, CheckMiss, CheckError,
         Local, LocalHit, IgnoreNonPaid, AskLock,
         Poll, PollHit, PollMiss, PollError, GiveUp,
         Lookup, LookupAccepts, LookupRefuses,
         Record, RecordEvent, MarkOrderPaid, NoRowToMark, FoundPaid,
         FoundUnpaid, ForceOrderPaid, CreditLedger, TakeStock, LeaveStock,
         StockError, Commit, TransactionFails, SyncSupabase,
         Conclude, AnswerFailed, AnswerAlreadySettled, ReleaseLock, Finish
<1>4. \/ Elsewhere
      \/ /\ tasks' = tasks \cup {WorkerOf[d]} /\ dispatches' = dispatches + 1
         /\ UNCHANGED <<intent, fulfilled, seller, crashes>>
  BY DEF InTx, Deliver, Handle, Check, CheckHit, CheckMiss, CheckError,
         Local, LocalHit, IgnoreNonPaid, AskLock,
         Poll, PollHit, PollMiss, PollError, GiveUp,
         Lookup, LookupAccepts, LookupRefuses,
         Record, RecordEvent, MarkOrderPaid, NoRowToMark, FoundPaid,
         FoundUnpaid, ForceOrderPaid, CreditLedger, TakeStock, LeaveStock,
         StockError, Commit, TransactionFails, SyncSupabase,
         Conclude, AnswerFailed, AnswerAlreadySettled, ReleaseLock, Finish
<1>5. /\ intent' \in [Workers -> BOOLEAN] /\ tasks' \subseteq Workers
      /\ dispatches' \in Nat /\ fulfilled' \in BOOLEAN
      /\ seller' \in {"idle"} \cup SellerStatuses /\ crashes' \in 0..MaxCrashes
  BY <1>4, SlotsAssumption DEF RequestTypeOK, Elsewhere
<1>6. polls' \in [Deliveries -> 0..MaxPolls]
  BY <1>3, FaultsAssumption DEF RequestTypeOK, ResetPolls
<1>7. l1' \in [Workers -> BOOLEAN]
  BY <1>3 DEF RequestTypeOK, MarkSettled
<1>8. QED
  BY <1>2, <1>5, <1>6, <1>7 DEF RequestTypeOK

(* The state of a freshly started system has its types.                    *)
LEMMA TypeOKInit == Init => TypeOK
<1> SUFFICES ASSUME Init PROVE TypeOK
  OBVIOUS
<1>1. LockTypeOK
  BY DEF Init, LockInit, LockTypeOK, ClientStates
<1>2. DBTypeOK
  BY StartAssumption, StockAssumption
  DEF Init, DBInit, DBTypeOK, NoTx, Pending, Statuses, PayStatuses
<1>3. RequestTypeOK
  <2>1. 0 \in 0..MaxPolls /\ 0 \in 0..MaxCrashes
    BY FaultsAssumption
  <2>2. "idle" \in Labels
    BY DEF Labels
  <2>3. intent \in [Workers -> BOOLEAN]
    <3>1. \A w \in Workers : (w \in IntentWorkers) \in BOOLEAN
      OBVIOUS
    <3>2. [w \in Workers |-> w \in IntentWorkers] \in [Workers -> BOOLEAN]
      BY <3>1
    <3>3. QED
      BY <3>2 DEF Init
  <2>4. answers \in [Events -> SUBSET Answers]
    BY DEF Init
  <2>5. QED
    BY <2>1, <2>2, <2>3, <2>4 DEF Init, RequestTypeOK
<1>4. QED
  BY <1>1, <1>2, <1>3, TypeOKParts

(* Every step keeps the types: request, task, seller, crash, lock.         *)
LEMMA TypeOKNext == TypeOK /\ [Next]_vars => TypeOK'
<1> SUFFICES ASSUME TypeOK, [Next]_vars PROVE TypeOK'
  OBVIOUS
<1>0. LockTypeOK /\ DBTypeOK /\ RequestTypeOK
  BY TypeOKParts
<1> SUFFICES LockTypeOK' /\ DBTypeOK' /\ RequestTypeOK'
  BY TypeOKParts DEF TypeOK, RequestTypeOK
<1>1. ASSUME NEW d \in Deliveries, Deliver(d) \/ Handle(d)
      PROVE  LockTypeOK' /\ DBTypeOK' /\ RequestTypeOK'
  <2>1. LockTypeOK'
    BY <1>0, <1>1, HandleCallsLock, LockStaysTyped, SlotsAssumption
  <2>2. DBTypeOK'
    <3>1. d \in Txns /\ EventOf[d] \in Events /\ "PAID" \in Statuses
      BY SlotsAssumption DEF Statuses
    <3>2. QED
      BY <1>0, <1>1, <3>1, HandleRunsStatement, TablesStayTyped
  <2>3. RequestTypeOK'
    BY <1>0, <1>1, HandleStaysTyped
  <2>4. QED
    BY <2>1, <2>2, <2>3
<1>2. ASSUME NEW w \in Workers, RunTasks(w)
      PROVE  LockTypeOK' /\ DBTypeOK' /\ RequestTypeOK'
  BY <1>0, <1>2
  DEF RunTasks, lockVars, dbVars, LockTypeOK, DBTypeOK, RequestTypeOK
<1>3. ASSUME NEW w \in Workers, Crash(w)
      PROVE  LockTypeOK' /\ DBTypeOK' /\ RequestTypeOK'
  <2>1. LockTypeOK'
    BY <1>0, <1>3, LockStaysTyped DEF Crash, LoseWorker
  <2>2. DBTypeOK'
    BY <1>0, <1>3 DEF Crash, LoseWorker, RollbackAll, tables, DBTypeOK, NoTx, Pending
  <2>3. RequestTypeOK'
    BY <1>0, <1>3, FaultsAssumption DEF Crash, LoseWorker, histVars, RequestTypeOK, Labels
  <2>4. QED
    BY <2>1, <2>2, <2>3
<1>4. ASSUME NEW s \in SellerStatuses, SellerUpdates(s)
      PROVE  LockTypeOK' /\ DBTypeOK' /\ RequestTypeOK'
  BY <1>0, <1>4, StartAssumption
  DEF SellerUpdates, OverwriteStatus, lockVars, memVars, histVars,
      LockTypeOK, DBTypeOK, Statuses, RequestTypeOK
<1>5. CASE SellerSyncs
  <2>1. seller \in SellerStatuses
    BY <1>0, <1>5 DEF SellerSyncs, RequestTypeOK
  <2>2. QED
    BY <1>0, <1>5, <2>1, StartAssumption
    DEF SellerSyncs, OverwriteStatus, lockVars, dbVars, memVars, histVars,
        LockTypeOK, DBTypeOK, Statuses, RequestTypeOK
<1>6. CASE LockChanges(LockAbandoned)
  <2>1. LockTypeOK'
    BY <1>0, <1>6, LockStaysTyped DEF LockChanges
  <2>2. QED
    BY <1>0, <1>6, <2>1
    DEF LockChanges, dbVars, memVars, histVars, DBTypeOK, RequestTypeOK
<1>7. CASE UNCHANGED vars
  BY <1>0, <1>7
  DEF vars, lockVars, dbVars, memVars, histVars, LockTypeOK, DBTypeOK, RequestTypeOK
<1>8. QED
  BY <1>1, <1>2, <1>3, <1>4, <1>5, <1>6, <1>7 DEF Next

(* Every variable keeps its type in every behaviour of the webhook.        *)
THEOREM TypeCorrect == Spec => []TypeOK
BY TypeOKInit, TypeOKNext, PTL DEF Spec

-----------------------------------------------------------------------------
(* Payment is final, whatever fails and whoever writes.                    *)

(* No statement, commit or rollback takes a payment or its credit back.    *)
LEMMA StatementsAreFinal ==
    ASSUME DBTypeOK, FinalInv,
           NEW d \in Txns, NEW e \in Events, NEW s, s # "PAID", NEW ds,
           \/ UNCHANGED dbVars
           \/ InsertEvent(d, e) \/ UpdateOrder(d) \/ UpsertOrder(d)
           \/ InsertCredit(d, e) \/ DeductStock(d) \/ BreakTx(d)
           \/ CommitTx(d) \/ RollbackTx(d) \/ RollbackAll(ds)
           \/ RecordReplay(d, e) \/ OverwriteStatus(s) \/ OverwritePaid
    PROVE  /\ FinalInv'
           /\ payStatus = "PAID" => payStatus' = "PAID"
           /\ ledger # {} => ledger' = ledger
<1> USE DEF DBTypeOK, FinalInv, CreditElectsOne, CreditFree
<1>1. NoTx.credit = {} /\ NoTx.order = "no"
  BY DEF NoTx
<1>2. CASE UNCHANGED dbVars
  BY <1>2 DEF dbVars
<1>3. CASE InsertEvent(d, e) \/ UpdateOrder(d) \/ UpsertOrder(d) \/ DeductStock(d) \/ BreakTx(d)
  BY <1>3 DEF InsertEvent, UpdateOrder, UpsertOrder, DeductStock, BreakTx, tables, Pending
<1>4. CASE InsertCredit(d, e)
  BY <1>4 DEF InsertCredit, tables, Pending
<1>5. CASE CommitTx(d)
  <2>1. tx' = [tx EXCEPT ![d] = NoTx]
    BY <1>5 DEF CommitTx
  <2>2. CASE tx[d].broken
    BY <1>1, <1>5, <2>1, <2>2 DEF CommitTx, tables
  <2>3. CASE ~tx[d].broken
    <3>1. ledger' = ledger \cup tx[d].credit
      BY <1>5, <2>3 DEF CommitTx
    <3>2. status' \in {status, "PAID"} /\ payStatus' \in {payStatus, "PAID"}
      BY <1>5, <2>3 DEF CommitTx
    <3>3. status' = "PAID" => payStatus' = "PAID"
      BY <1>5, <2>3 DEF CommitTx, Pending
    <3>4. \A t \in Txns \ {d} : tx[t].credit # {} => tx[d].credit = {} /\ ledger = {}
      OBVIOUS
    <3>5. CreditElectsOne'
      BY <1>1, <2>1, <3>1, <3>4
    <3>6. QED
      BY <1>1, <2>1, <3>1, <3>2, <3>3, <3>5
  <2>4. QED
    BY <2>2, <2>3
<1>6. CASE RollbackTx(d) \/ RollbackAll(ds)
  BY <1>1, <1>6 DEF RollbackTx, RollbackAll, tables
<1>7. CASE RecordReplay(d, e) \/ OverwriteStatus(s) \/ OverwritePaid
  BY <1>7 DEF RecordReplay, OverwriteStatus, OverwritePaid
<1>8. QED
  BY <1>2, <1>3, <1>4, <1>5, <1>6, <1>7

(* What the seller has yet to sync is a status he may write.               *)
LEMMA SellerSyncsStatus ==
    ASSUME TypeOK, SellerSyncs
    PROVE  /\ seller \in SellerStatuses
           /\ OverwriteStatus(seller) \/ UNCHANGED dbVars
BY DEF TypeOK, SellerSyncs

(* Every step keeps the invariant and what was paid.                       *)
LEMMA FinalStep ==
    ASSUME TypeOK, FinalInv, [Next]_vars
    PROVE  FinalInv' /\ (Paid => Paid') /\ (ledger # {} => ledger' = ledger)
<1> DEFINE Kept == /\ FinalInv'
                   /\ payStatus = "PAID" => payStatus' = "PAID"
                   /\ ledger # {} => ledger' = ledger
<1> SUFFICES Kept
  BY DEF FinalInv, Paid
<1>0. DBTypeOK /\ "PAID" \notin SellerStatuses
  BY StartAssumption DEF TypeOK
<1>1. ASSUME NEW d \in Deliveries, Deliver(d) \/ Handle(d) PROVE Kept
  <2>1. d \in Txns /\ EventOf[d] \in Events /\ "PENDING" # "PAID"
    BY SlotsAssumption
  <2>2. QED
    BY <1>0, <1>1, <2>1, HandleRunsStatement, StatementsAreFinal
<1>2. UNCHANGED dbVars => Kept
  BY DEF dbVars, FinalInv, CreditElectsOne, CreditFree
<1>3. ASSUME NEW w \in Workers, Crash(w) PROVE Kept
  BY <1>3 DEF Crash, RollbackAll, tables, FinalInv, CreditElectsOne, CreditFree, NoTx
<1>4. ASSUME NEW s \in SellerStatuses, OverwriteStatus(s) PROVE Kept
  BY <1>0, <1>4 DEF OverwriteStatus, FinalInv, CreditElectsOne, CreditFree
<1>5. CASE SellerSyncs
  <2>1. seller \in SellerStatuses /\ (OverwriteStatus(seller) \/ UNCHANGED dbVars)
    BY <1>5, SellerSyncsStatus
  <2>2. CASE UNCHANGED dbVars
    BY <1>2, <2>2
  <2>3. CASE OverwriteStatus(seller)
    BY <1>0, <2>1, <2>3 DEF OverwriteStatus, FinalInv, CreditElectsOne, CreditFree
  <2>4. QED
    BY <2>1, <2>2, <2>3
<1>6. ASSUME NEW s \in SellerStatuses, SellerUpdates(s) PROVE Kept
  BY <1>4, <1>6 DEF SellerUpdates
<1>7. CASE (\E w \in Workers : RunTasks(w)) \/ LockChanges(LockAbandoned) \/ UNCHANGED vars
  BY <1>2, <1>7 DEF RunTasks, LockChanges, vars
<1>8. QED
  BY <1>1, <1>3, <1>5, <1>6, <1>7 DEF Next

(* The order stays paid and its credit is never replaced, for every fault  *)
(* and every status the seller may write.                                  *)
THEOREM PaymentStays == Spec => PaymentIsFinal
<1>1. Init => FinalInv
  BY StartAssumption DEF Init, DBInit, FinalInv, CreditElectsOne, NoTx
<1>2. TypeOK /\ FinalInv /\ [Next]_vars => FinalInv'
  BY FinalStep
<1>3. TypeOK /\ FinalInv /\ [Next]_vars =>
        [(Paid => Paid') /\ (ledger # {} => ledger' = ledger)]_vars
  BY FinalStep
<1>4. QED
  BY <1>1, <1>2, <1>3, TypeCorrect, PTL DEF Spec, PaymentIsFinal

-----------------------------------------------------------------------------
(* One settlement, whoever keeps the others out.  The lemmas need of the   *)
(* two sets of conditions only what they share, and that nobody settles    *)
(* beside a delivery that forces.                                          *)
Common ==
    /\ Txns = Deliveries
    /\ SellerStatuses \subseteq {"CANCELLED"} /\ ~StockFaults

AloneWhenForcing == \A c, d \in Deliveries : ~(pc[c] = "upsert" /\ Settling(d))

(* An order that nobody has paid satisfies the invariant.                  *)
LEMMA SettlementInvInit == Init => SettlementInv
<1> SUFFICES ASSUME Init PROVE SettlementInv
  OBVIOUS
<1>1. /\ status # "PAID" /\ payStatus # "PAID" /\ events = {} /\ ledger = {}
      /\ stock = Stock
  BY StartAssumption DEF Init, DBInit
<1>2. \A d \in Deliveries : pc[d] = "idle" /\ tx[d] = NoTx
  BY SlotsAssumption DEF Init, DBInit
<1>3. /\ tasks = {} /\ dispatches = 0 /\ ~fulfilled
      /\ \A e \in Events : answers[e] = {}
      /\ \A w \in Workers : ~l1[w]
  BY DEF Init
<1>4. RowsAgree
  BY <1>1 DEF RowsAgree
<1>5. WrittenSoFar
  BY <1>2 DEF WrittenSoFar, WrittenBy, Settling, NoTx
<1>6. OneSettles /\ OneDispatches
  BY <1>1, <1>2, <1>3 DEF OneSettles, OneDispatches, Settling, Settled
<1>7. ClaimsAreTrue
  BY <1>3 DEF ClaimsAreTrue
<1>8. QED
  BY <1>4, <1>5, <1>6, <1>7 DEF SettlementInv

(* Under the invariant the conditions of the code mean what they say.      *)
LEMMA Meanings ==
    ASSUME SettlementInv
    PROVE  (Paid <=> payStatus = "PAID") /\ (AwaitsPayment => ~Paid)
BY DEF SettlementInv, RowsAgree, Paid, AwaitsPayment

(* Claims stay true while the order stays paid and new ones need a paid    *)
(* order.                                                                  *)
LEMMA ClaimsStay ==
    ASSUME ClaimsAreTrue, Paid => Paid',
           answers' = answers \/ Paid',
           (\A w \in Workers : l1'[w] => l1[w]) \/ Paid'
    PROVE  ClaimsAreTrue'
BY DEF ClaimsAreTrue

(* A request that moves outside the transaction and its aftermath, and     *)
(* writes no more than the record of a replay.                             *)
LEMMA MoveOutside ==
    ASSUME TypeOK, SettlementInv, NEW d \in Deliveries, NEW to,
           pc[d] \notin InTransaction, ~Settled(d),
           to \in {"idle", "check", "local", "poll", "lookup", "event"},
           pc' = [pc EXCEPT ![d] = to],
           UNCHANGED <<status, payStatus, ledger, stock, tx>>,
           events' = events \/ (Paid /\ events \subseteq events'),
           answers' = answers \/ Paid, l1' = l1 \/ Paid,
           UNCHANGED <<tasks, dispatches, fulfilled>>
    PROVE  SettlementInv'
<1> USE DEF SettlementInv, TypeOK
<1>1. RowsAgree'
  BY Meanings DEF RowsAgree
<1>2. WrittenSoFar'
  BY DEF WrittenSoFar, WrittenBy, Settling, InTransaction
<1>5. Paid' = Paid
  BY DEF Paid
<1>3. OneSettles'
  BY <1>5 DEF OneSettles, Settling
<1>4. OneDispatches'
  BY <1>5 DEF OneDispatches, Settled
<1>6. ClaimsAreTrue'
  BY <1>5, ClaimsStay
<1>7. QED
  BY <1>1, <1>2, <1>3, <1>4, <1>6

(* A rollback, by an error or because the order was found paid.            *)
LEMMA RollbackInv ==
    ASSUME TypeOK, SettlementInv, NEW d \in Deliveries, NEW to,
           pc[d] \in InTransaction,
           to = "failed" \/ (to = "already" /\ Paid),
           pc' = [pc EXCEPT ![d] = to],
           RollbackTx(d),
           UNCHANGED <<answers, l1, tasks, dispatches, fulfilled>>
    PROVE  SettlementInv'
<1>0. UNCHANGED tables /\ tx' = [tx EXCEPT ![d] = NoTx]
  BY DEF RollbackTx
<1> USE <1>0 DEF SettlementInv, TypeOK, tables
<1>1. RowsAgree'
  BY DEF RowsAgree
<1>2. WrittenSoFar'
  <2>1. tx'[d] = NoTx /\ (pc'[d] = "failed" \/ pc'[d] = "already")
    BY SlotsAssumption DEF DBTypeOK
  <2>2. WrittenBy(d)'
    <3>1. /\ ~tx'[d].broken /\ tx'[d].order = "no"
          /\ tx'[d].credit = {} /\ tx'[d].units = 0
      BY <2>1 DEF NoTx
    <3>2. /\ pc'[d] \notin {"stock", "commit"}
          /\ pc'[d] \notin {"order", "reread", "upsert"}
          /\ ~Settling(d)'
      BY <2>1 DEF Settling
    <3>3. QED
      BY <3>1, <3>2 DEF WrittenBy
  <2>3. ASSUME NEW c \in Deliveries, c # d PROVE WrittenBy(c)'
    BY <2>3, SlotsAssumption DEF WrittenSoFar, WrittenBy, Settling, DBTypeOK
  <2>4. QED
    BY <2>2, <2>3 DEF WrittenSoFar
<1>5. Paid' = Paid
  BY DEF Paid
<1>3. OneSettles'
  BY <1>5 DEF OneSettles, Settling
<1>4. OneDispatches'
  BY <1>5 DEF OneDispatches, Settled
<1>6. ClaimsAreTrue'
  BY <1>5, ClaimsStay
<1>7. QED
  BY <1>1, <1>2, <1>3, <1>4, <1>6

(* The commit makes the order paid, whether its answer arrives or not.     *)
LEMMA CommitInv ==
    ASSUME TypeOK, SettlementInv, AloneWhenForcing, NEW d \in Deliveries, NEW to,
           pc[d] = "commit",
           to \in {"sync", "failed"},
           pc' = [pc EXCEPT ![d] = to],
           CommitTx(d),
           UNCHANGED <<answers, l1, tasks, dispatches, fulfilled>>
    PROVE  SettlementInv' /\ ~Paid /\ Paid' /\ ledger' # {} /\ stock' \in {stock, stock - 1}
<1> USE DEF SettlementInv, TypeOK
<1>1. /\ Settling(d) /\ ~Paid
      /\ tx[d].order = "full" /\ ~tx[d].broken /\ tx[d].credit = {EventOf[d]}
      /\ EventOf[d] \in events \cup tx[d].event
      /\ tx[d].units = 1 => Stock >= 1
  BY DEF WrittenSoFar, WrittenBy, OneSettles, Settling
<1>2. tx[d].units \in {0, 1}
  BY SlotsAssumption DEF DBTypeOK, Pending
<1>3. /\ status' = "PAID" /\ payStatus' = "PAID"
      /\ events' = events \cup tx[d].event
      /\ ledger' = ledger \cup {EventOf[d]}
      /\ stock' = stock - tx[d].units
      /\ tx' = [tx EXCEPT ![d] = NoTx]
  BY <1>1 DEF CommitTx
<1>4. stock = Stock /\ ledger = {}
  BY <1>1 DEF RowsAgree, Paid
<1>5. RowsAgree'
  BY <1>1, <1>2, <1>3, <1>4, StockAssumption DEF RowsAgree
<1>6. WrittenSoFar'
  <2>1. tx'[d] = NoTx /\ pc'[d] = to
    BY <1>3, SlotsAssumption DEF DBTypeOK
  <2>2. WrittenBy(d)'
    BY <2>1 DEF WrittenBy, Settling, NoTx
  <2>3. ASSUME NEW c \in Deliveries, c # d PROVE WrittenBy(c)'
    BY <1>3, <2>3, SlotsAssumption DEF WrittenSoFar, WrittenBy, Settling, DBTypeOK
  <2>4. QED
    BY <2>2, <2>3 DEF WrittenSoFar
<1>9. ~Paid /\ Paid'
  BY <1>1, <1>3 DEF Paid
<1>7. OneSettles'
  <2>1. \A c \in Deliveries \ {d} : ~Settling(c) /\ pc[c] # "upsert"
    BY <1>1 DEF OneSettles, AloneWhenForcing
  <2>2. QED
    BY <1>9, <2>1 DEF OneSettles, Settling
<1>8. OneDispatches'
  BY <1>1, <1>9 DEF OneDispatches, Settled
<1>10. ClaimsAreTrue'
  BY <1>9, ClaimsStay
<1>11. QED
  BY <1>2, <1>3, <1>4, <1>5, <1>6, <1>7, <1>8, <1>9, <1>10, StockAssumption
-----------------------------------------------------------------------------
(* The statements of the transaction.  Each writes one field of the        *)
(* transaction of d and moves d to the next label.                         *)

(* A statement that leaves the committed rows alone, and writes what its   *)
(* label allows, keeps the invariant.                                      *)
LEMMA StatementInv ==
    ASSUME TypeOK, SettlementInv, NEW d \in Deliveries, NEW to,
           pc[d] \in InTransaction, to \in InTransaction,
           pc' = [pc EXCEPT ![d] = to],
           UNCHANGED tables,
           UNCHANGED <<answers, l1, tasks, dispatches, fulfilled>>,
           \A c \in Deliveries \ {d} : tx'[c] = tx[c],
           WrittenBy(d)',
           to = "upsert" => ~Paid,
           Settling(d)' => /\ ~Paid
                           /\ \A c \in Deliveries \ {d} : ~Settling(c)
    PROVE  SettlementInv'
<1> USE DEF SettlementInv, TypeOK, tables
<1>1. RowsAgree'
  BY DEF RowsAgree
<1>2. WrittenSoFar'
  <2>1. ASSUME NEW c \in Deliveries, c # d PROVE WrittenBy(c)'
    BY <2>1, SlotsAssumption DEF WrittenSoFar, WrittenBy, Settling
  <2>2. QED
    BY <2>1 DEF WrittenSoFar
<1>5. Paid' = Paid
  BY DEF Paid
<1>3. OneSettles'
  BY <1>5 DEF OneSettles, Settling, InTransaction
<1>4. OneDispatches'
  BY <1>5 DEF OneDispatches, Settled, InTransaction
<1>6. ClaimsAreTrue'
  BY <1>5, ClaimsStay
<1>7. QED
  BY <1>1, <1>2, <1>3, <1>4, <1>6

(* Whoever holds the row of the order keeps the others out of it.          *)
LEMMA RowElectsOne ==
    ASSUME SettlementInv, NEW d \in Deliveries, OrderFree(d)
    PROVE  \A c \in Deliveries \ {d} : ~Settling(c)
BY SlotsAssumption DEF SettlementInv, WrittenSoFar, WrittenBy, OrderFree

(* Every statement of the settlement transaction keeps the invariant.      *)
LEMMA RecordInv ==
    ASSUME Common, TypeOK, SettlementInv, AloneWhenForcing,
           NEW d \in Deliveries, Record(d)
    PROVE  SettlementInv'
<1> USE SlotsAssumption DEF InTx, Goto, Elsewhere, TypeOK
<1>t. /\ tx \in [Deliveries -> Pending] /\ tx[d] \in Pending /\ WrittenBy(d)
      /\ pc \in [Deliveries -> Labels]
  BY DEF Common, SettlementInv, WrittenSoFar, DBTypeOK
<1>1. CASE RecordEvent(d)
  <2>1. tx' = [tx EXCEPT ![d] = [tx[d] EXCEPT !.event = {EventOf[d]} \ events]]
    BY <1>1 DEF RecordEvent, InsertEvent
  <2>2. WrittenBy(d)'
    BY <1>t, <1>1, <2>1 DEF RecordEvent, InsertEvent, tables, WrittenBy, Settling, Pending
  <2>3. QED
    BY <1>t, <1>1, <2>1, <2>2, StatementInv
    DEF RecordEvent, InsertEvent, InTransaction, Settling
<1>2. CASE MarkOrderPaid(d)
  <2>1. tx' = [tx EXCEPT ![d] = [tx[d] EXCEPT !.order = "full"]]
    BY <1>2 DEF MarkOrderPaid, UpdateOrder
  <2>2. WrittenBy(d)'
    BY <1>t, <1>2, <2>1 DEF MarkOrderPaid, UpdateOrder, tables, WrittenBy, Settling, Pending
  <2>3. ~Paid /\ \A c \in Deliveries \ {d} : ~Settling(c)
    BY <1>2, Meanings, RowElectsOne DEF MarkOrderPaid, UpdateOrder
  <2>4. QED
    BY <1>t, <1>2, <2>1, <2>2, <2>3, StatementInv
    DEF MarkOrderPaid, UpdateOrder, InTransaction, Settling
<1>3. CASE NoRowToMark(d)
  <2>2. WrittenBy(d)'
    BY <1>t, <1>3 DEF NoRowToMark, dbVars, WrittenBy, Settling
  <2>3. QED
    BY <1>t, <1>3, <2>2, StatementInv
    DEF NoRowToMark, dbVars, tables, InTransaction, Settling
<1>4. CASE FoundPaid(d)
  <2>1. Paid
    BY <1>4 DEF FoundPaid
  <2>2. /\ pc[d] \in InTransaction /\ pc' = [pc EXCEPT ![d] = "already"]
        /\ RollbackTx(d) /\ UNCHANGED <<answers, l1, tasks, dispatches, fulfilled>>
    BY <1>4 DEF FoundPaid, InTransaction
  <2>3. QED
    BY <2>1, <2>2, RollbackInv
<1>5. CASE FoundUnpaid(d)
  <2>1. WrittenBy(d)'
    BY <1>t, <1>5 DEF FoundUnpaid, dbVars, WrittenBy, Settling
  <2>2. QED
    BY <1>t, <1>5, <2>1, StatementInv
    DEF FoundUnpaid, dbVars, tables, InTransaction, Settling
<1>13. CASE ForceOrderPaid(d)
  <2>1. tx' = [tx EXCEPT ![d] = [tx[d] EXCEPT !.order = "full"]]
    BY <1>13 DEF ForceOrderPaid, UpsertOrder
  <2>2. WrittenBy(d)'
    BY <1>t, <1>13, <2>1 DEF ForceOrderPaid, UpsertOrder, tables, WrittenBy, Settling, Pending
  <2>3. ~Paid /\ \A c \in Deliveries \ {d} : ~Settling(c)
    BY <1>13, RowElectsOne DEF ForceOrderPaid, UpsertOrder, SettlementInv, OneSettles
  <2>4. QED
    BY <1>t, <1>13, <2>1, <2>2, <2>3, StatementInv
    DEF ForceOrderPaid, UpsertOrder, InTransaction, Settling
<1>6. CASE CreditLedger(d)
  <2>1. /\ ~Paid /\ ledger = {}
        /\ \A c \in Deliveries \ {d} : ~Settling(c)
    BY <1>6, Meanings DEF CreditLedger, SettlementInv, OneSettles, RowsAgree, Settling
  <2>2. tx' = [tx EXCEPT ![d] = [tx[d] EXCEPT !.credit = {EventOf[d]}]]
    BY <1>6, <2>1 DEF CreditLedger, InsertCredit
  <2>3. WrittenBy(d)'
    <3>1. /\ pc[d] = "credit" /\ pc'[d] = "stock" /\ UNCHANGED tables
          /\ tx'[d] = [tx[d] EXCEPT !.credit = {EventOf[d]}]
      BY <1>t, <1>6, <2>2 DEF CreditLedger, InsertCredit
    <3>2. /\ tx'[d].credit = {EventOf[d]} /\ tx'[d].order = tx[d].order
          /\ tx'[d].broken = tx[d].broken /\ tx'[d].units = tx[d].units
          /\ tx'[d].event = tx[d].event
      BY <1>t, <3>1 DEF Pending
    <3>3. QED
      BY <1>t, <3>1, <3>2 DEF tables, WrittenBy, Settling
  <2>4. QED
    BY <1>t, <1>6, <2>1, <2>2, <2>3, StatementInv
    DEF CreditLedger, InsertCredit, InTransaction, Settling
<1>7. CASE TakeStock(d)
  <2>1. /\ ~Paid /\ stock = Stock
        /\ \A c \in Deliveries \ {d} : ~Settling(c)
    BY <1>7, Meanings DEF TakeStock, SettlementInv, OneSettles, RowsAgree, Settling
  <2>2. tx' = [tx EXCEPT ![d] = [tx[d] EXCEPT !.units = 1]]
    BY <1>7 DEF TakeStock, DeductStock
  <2>3. Stock >= 1
    BY <1>7, <2>1 DEF TakeStock, DeductStock
  <2>4. WrittenBy(d)'
    BY <1>t, <1>7, <2>2, <2>3 DEF TakeStock, DeductStock, tables, WrittenBy, Settling, Pending
  <2>5. QED
    BY <1>t, <1>7, <2>1, <2>2, <2>4, StatementInv
    DEF TakeStock, DeductStock, InTransaction, Settling
<1>8. CASE LeaveStock(d)
  <2>1. /\ ~Paid
        /\ \A c \in Deliveries \ {d} : ~Settling(c)
    BY <1>8 DEF LeaveStock, SettlementInv, OneSettles, Settling
  <2>2. WrittenBy(d)'
    BY <1>t, <1>8 DEF LeaveStock, dbVars, WrittenBy, Settling
  <2>3. QED
    BY <1>t, <1>8, <2>1, <2>2, StatementInv
    DEF LeaveStock, dbVars, tables, InTransaction, Settling
<1>9. CASE StockError(d)
  BY <1>9 DEF StockError, Common
<1>10. CASE Commit(d)
  BY <1>10, CommitInv DEF Commit
<1>11. CASE TransactionFails(d)
  <2>1. ASSUME NEW l \in InTransaction, RollbackTx(d), InTx(d, l, "failed")
        PROVE  SettlementInv'
    BY <2>1, RollbackInv
  <2>2. CASE CommitTx(d) /\ InTx(d, "commit", "failed")
    BY <2>2, CommitInv
  <2>3. QED
    BY <1>11, <2>1, <2>2 DEF TransactionFails
<1>12. CASE SyncSupabase(d)
  <2>1. Paid /\ payStatus = "PAID"
    BY <1>12, Meanings DEF SyncSupabase, SettlementInv, OneDispatches, Settled
  <2>2. /\ UNCHANGED <<payStatus, events, ledger, stocked, stock, tx>>
        /\ status' \in {status, "PAID"}
    BY <1>12, <2>1 DEF SyncSupabase, OverwritePaid, dbVars
  <2>3. pc' = [pc EXCEPT ![d] = "release"] /\ pc[d] = "sync"
    BY <1>12 DEF SyncSupabase
  <2>p. Paid'
    BY <2>1, <2>2 DEF Paid
  <2> USE <1>t, <1>12, <2>1, <2>2, <2>3, <2>p DEF SettlementInv
  <2>4. RowsAgree'
    BY DEF RowsAgree
  <2>5. WrittenSoFar'
    BY DEF WrittenSoFar, WrittenBy, Settling
  <2>6. OneSettles'
    BY DEF OneSettles, Settling
  <2>7. OneDispatches'
    BY DEF SyncSupabase, OneDispatches, Settled
  <2>8. ClaimsAreTrue'
    BY ClaimsStay DEF SyncSupabase
  <2>9. QED
    BY <2>4, <2>5, <2>6, <2>7, <2>8
<1>14. QED
  BY <1>1, <1>2, <1>3, <1>4, <1>5, <1>6, <1>7, <1>8, <1>9, <1>10, <1>11, <1>12, <1>13
  DEF Record
-----------------------------------------------------------------------------
(* The steps of a request outside the transaction.                         *)

(* Checks, polls, lock calls and lookups claim nothing that is not so.     *)
LEMMA OutsideInv ==
    ASSUME TypeOK, SettlementInv, NEW d \in Deliveries,
           \/ Deliver(d) \/ Check(d) \/ Local(d) \/ Poll(d) \/ Lookup(d)
           \/ AnswerFailed(d) \/ AnswerAlreadySettled(d)
    PROVE  SettlementInv'
<1> DEFINE Quiet ==
      /\ UNCHANGED <<status, payStatus, ledger, stock, tx>>
      /\ events' = events \/ (Paid /\ events \subseteq events')
      /\ answers' = answers \/ Paid
      /\ l1' = l1 \/ Paid
      /\ UNCHANGED <<tasks, dispatches, fulfilled>>
    Move(from, to) == pc[d] = from /\ pc' = [pc EXCEPT ![d] = to]
<1>1. DbHit(d) => /\ Paid
                  /\ UNCHANGED <<status, payStatus, ledger, stock, tx>>
                  /\ events \subseteq events'
  BY Meanings DEF DbHit, RecordReplay, dbVars, SettlementInv, RowsAgree
<1>2. DbMiss(d) => UNCHANGED dbVars
  BY DEF DbMiss
<1>3. l1[WorkerOf[d]] => Paid
  BY SlotsAssumption DEF SettlementInv, ClaimsAreTrue
<1>4. CASE Deliver(d)
  <2>1. Quiet /\ Move("idle", "check")
    BY <1>4 DEF Deliver, Goto, Elsewhere, dbVars
  <2>2. QED
    BY <2>1, MoveOutside DEF InTransaction, Settled
<1>5. CASE Check(d)
  <2>1. Quiet /\ (Move("check", "idle") \/ Move("check", "local"))
    BY <1>1, <1>2, <1>5
    DEF Check, CheckHit, CheckMiss, CheckError, Accept, Refuse, Goto, MarkSettled, Elsewhere, dbVars
  <2>2. QED
    BY <2>1, MoveOutside DEF InTransaction, Settled
<1>6. CASE Local(d)
  <2>1. \/ Quiet /\ (Move("local", "idle") \/ Move("local", "lookup")
                      \/ Move("local", "poll"))
        \/ IgnoreNonPaid(d)
    BY <1>3, <1>6 DEF Local, LocalHit, AskLock, Accept, Goto, Elsewhere, dbVars
  <2>2. CASE IgnoreNonPaid(d)
    <3> USE <2>2 DEF IgnoreNonPaid, Elsewhere, dbVars, SettlementInv, TypeOK
    <3>1. pc[d] = "local" /\ pc' = [pc EXCEPT ![d] = "idle"]
      BY DEF Accept, Goto
    <3>2. RowsAgree'
      BY DEF RowsAgree
    <3>3. WrittenSoFar'
      BY <3>1 DEF WrittenSoFar, WrittenBy, Settling
    <3>4. OneSettles'
      BY <3>1 DEF OneSettles, Settling, Paid
    <3>5. OneDispatches'
      BY <3>1 DEF OneDispatches, Settled, Paid
    <3>6. ClaimsAreTrue'
      <4>1. answers' = [answers EXCEPT ![EventOf[d]] = @ \cup {"IGNORED"}]
        BY DEF Accept
      <4>2. \A e \in Events : answers'[e] \cap {"SUCCESS", "ALREADY_PROCESSED"}
                                = answers[e] \cap {"SUCCESS", "ALREADY_PROCESSED"}
        BY <4>1
      <4>3. QED
        BY <4>2 DEF ClaimsAreTrue, Paid
    <3>7. QED
      BY <3>2, <3>3, <3>4, <3>5, <3>6
  <2>3. QED
    BY <2>1, <2>2, MoveOutside DEF InTransaction, Settled
<1>7. CASE Poll(d)
  <2>1. \/ Quiet /\ (Move("poll", "idle") \/ Move("poll", "poll"))
        \/ GiveUp(d)
    BY <1>1, <1>2, <1>7
    DEF Poll, PollHit, PollMiss, PollError, Accept, Refuse, Goto, MarkSettled, Elsewhere, dbVars
  <2>2. CASE GiveUp(d)
    <3> USE <2>2 DEF GiveUp, Elsewhere, dbVars, SettlementInv, TypeOK
    <3>1. pc[d] = "poll" /\ pc' = [pc EXCEPT ![d] = "idle"]
      BY DEF Accept, Goto
    <3>2. RowsAgree'
      BY DEF RowsAgree
    <3>3. WrittenSoFar'
      BY <3>1 DEF WrittenSoFar, WrittenBy, Settling
    <3>4. OneSettles'
      BY <3>1 DEF OneSettles, Settling, Paid
    <3>5. OneDispatches'
      BY <3>1 DEF OneDispatches, Settled, Paid
    <3>6. ClaimsAreTrue'
      <4>1. answers' = [answers EXCEPT ![EventOf[d]] = @ \cup {"ALREADY_PROCESSING"}]
        BY DEF Accept
      <4>2. \A e \in Events : answers'[e] \cap {"SUCCESS", "ALREADY_PROCESSED"}
                                = answers[e] \cap {"SUCCESS", "ALREADY_PROCESSED"}
        BY <4>1
      <4>3. QED
        BY <4>2 DEF ClaimsAreTrue, Paid
    <3>7. QED
      BY <3>2, <3>3, <3>4, <3>5, <3>6
  <2>3. QED
    BY <2>1, <2>2, MoveOutside DEF InTransaction, Settled
<1>8. CASE Lookup(d)
  <2>1. Quiet /\ (Move("lookup", "idle") \/ Move("lookup", "event"))
    BY <1>8 DEF Lookup, LookupAccepts, LookupRefuses, Refuse, Goto, Elsewhere, dbVars
  <2>2. QED
    BY <2>1, MoveOutside DEF InTransaction, Settled
<1>9. CASE AnswerFailed(d)
  <2>1. Quiet /\ Move("failed", "idle")
    BY <1>9 DEF AnswerFailed, Refuse, Goto, Elsewhere, dbVars
  <2>2. QED
    BY <2>1, MoveOutside DEF InTransaction, Settled
<1>10. CASE AnswerAlreadySettled(d)
  <2>1. pc[d] = "already"
    BY <1>10 DEF AnswerAlreadySettled, Accept, Goto
  <2>2. Paid
    BY <2>1, Meanings DEF SettlementInv, OneSettles
  <2>3. Quiet /\ Move("already", "idle")
    BY <1>10, <2>2 DEF AnswerAlreadySettled, Accept, Goto, Elsewhere, dbVars
  <2>4. QED
    BY <2>3, MoveOutside DEF InTransaction, Settled
<1>11. QED
  BY <1>4, <1>5, <1>6, <1>7, <1>8, <1>9, <1>10 DEF Check, Local, Poll, Lookup

(* Releasing the lock, and the answer that creates the background tasks.   *)
LEMMA ConcludeInv ==
    ASSUME TypeOK, SettlementInv, NEW d \in Deliveries,
           ReleaseLock(d) \/ Finish(d)
    PROVE  SettlementInv'
<1> USE DEF SettlementInv, TypeOK
<1>1. CASE ReleaseLock(d)
  <2>1. /\ pc[d] = "release" /\ pc' = [pc EXCEPT ![d] = "finish"]
        /\ UNCHANGED <<dbVars, l1, answers, tasks, dispatches, fulfilled>>
    BY <1>1 DEF ReleaseLock, Goto, Elsewhere
  <2> USE <2>1 DEF dbVars
  <2>2. RowsAgree'
    BY DEF RowsAgree
  <2>3. WrittenSoFar'
    BY DEF WrittenSoFar, WrittenBy, Settling
  <2>4. OneSettles'
    BY DEF OneSettles, Settling, Paid
  <2>5. OneDispatches'
    BY DEF OneDispatches, Settled, Paid
  <2>6. ClaimsAreTrue'
    BY ClaimsStay DEF Paid
  <2>7. QED
    BY <2>2, <2>3, <2>4, <2>5, <2>6
<1>2. CASE Finish(d)
  <2>1. /\ pc[d] = "finish" /\ pc' = [pc EXCEPT ![d] = "idle"]
        /\ dispatches' = dispatches + 1 /\ UNCHANGED <<dbVars, fulfilled>>
    BY <1>2 DEF Finish, Accept, Goto
  <2>2. /\ Paid /\ dispatches = 0 /\ dispatches' = 1
        /\ \A c \in Deliveries \ {d} : ~Settled(c)
    BY <2>1 DEF OneDispatches, Settled
  <2> USE <2>1, <2>2 DEF dbVars
  <2>3. RowsAgree'
    BY DEF RowsAgree
  <2>4. WrittenSoFar'
    BY DEF WrittenSoFar, WrittenBy, Settling
  <2>5. OneSettles'
    BY DEF OneSettles, Settling, Paid
  <2>6. OneDispatches'
    BY DEF OneDispatches, Settled, Paid
  <2>7. Paid'
    BY DEF Paid
  <2>8. ClaimsAreTrue'
    BY <2>7, ClaimsStay
  <2>9. QED
    BY <2>3, <2>4, <2>5, <2>6, <2>8
<1>3. QED
  BY <1>1, <1>2

(* A crash takes requests, their transactions and memory away, no row.     *)
LEMMA CrashInv ==
    ASSUME TypeOK, SettlementInv, NEW w \in Workers, Crash(w)
    PROVE  SettlementInv'
<1> USE DEF SettlementInv, TypeOK
<1>1. /\ UNCHANGED tables
      /\ UNCHANGED <<dispatches, fulfilled, answers>>
      /\ tasks' \subseteq tasks
      /\ \A v \in Workers : l1'[v] => l1[v]
  BY DEF Crash, LoseWorker, RollbackAll, histVars
<1>2. \A d \in Deliveries :
        \/ pc'[d] = "idle" /\ tx'[d] = NoTx
        \/ pc'[d] = pc[d] /\ tx'[d] = tx[d]
  BY SlotsAssumption DEF Crash, LoseWorker, RollbackAll, OnWorker
<1> USE <1>1, <1>2 DEF tables
<1>3. RowsAgree'
  BY DEF RowsAgree
<1>4. WrittenSoFar'
  <2>1. ASSUME NEW d \in Deliveries PROVE WrittenBy(d)'
    <3>1. CASE pc'[d] = "idle" /\ tx'[d] = NoTx
      BY <3>1 DEF WrittenBy, Settling, NoTx
    <3>2. CASE pc'[d] = pc[d] /\ tx'[d] = tx[d]
      BY <3>2 DEF WrittenSoFar, WrittenBy, Settling
    <3>3. QED
      BY <3>1, <3>2
  <2>2. QED
    BY <2>1 DEF WrittenSoFar
<1>5. OneSettles'
  BY DEF OneSettles, Settling, Paid
<1>6. OneDispatches'
  BY DEF OneDispatches, Settled, Paid
<1>7. ClaimsAreTrue'
  BY ClaimsStay DEF Paid
<1>8. QED
  BY <1>3, <1>4, <1>5, <1>6, <1>7

(* Nothing that happens to the lock matters.                               *)
LEMMA FrameInv ==
    ASSUME TypeOK, SettlementInv,
           UNCHANGED <<dbVars, pc, l1, answers, dispatches>>,
           \/ UNCHANGED <<tasks, fulfilled>>
           \/ \E w \in tasks : tasks' = tasks \ {w} /\ fulfilled' = TRUE
    PROVE  SettlementInv'
<1> USE DEF SettlementInv, TypeOK, dbVars
<1>1. RowsAgree' /\ OneSettles'
  BY DEF RowsAgree, OneSettles, Settling, Paid
<1>2. WrittenSoFar'
  BY DEF WrittenSoFar, WrittenBy, Settling
<1>3. OneDispatches'
  BY DEF OneDispatches, Settled, Paid
<1>4. ClaimsAreTrue'
  BY ClaimsStay DEF Paid
<1>5. QED
  BY <1>1, <1>2, <1>3, <1>4

(* A seller who cancels the order leaves payment_status alone, and with it *)
(* whether the order counts as paid.                                       *)
LEMMA SellerInv ==
    ASSUME Common, TypeOK, SettlementInv, NEW s \in SellerStatuses,
           OverwriteStatus(s) \/ UNCHANGED dbVars,
           UNCHANGED <<pc, l1, answers, tasks, dispatches, fulfilled>>
    PROVE  SettlementInv'
<1> USE DEF SettlementInv, TypeOK, Common
<1>1. /\ UNCHANGED <<payStatus, events, ledger, stocked, stock, tx>>
      /\ status' = status \/ status' = "CANCELLED"
  BY DEF OverwriteStatus, dbVars
<1>2. RowsAgree'
  BY <1>1 DEF RowsAgree
<1>3. Paid' = Paid
  BY <1>1, Meanings DEF RowsAgree, Paid
<1> USE <1>1, <1>3
<1>4. WrittenSoFar'
  BY DEF WrittenSoFar, WrittenBy, Settling
<1>5. OneSettles'
  BY DEF OneSettles, Settling
<1>6. OneDispatches'
  BY DEF OneDispatches, Settled
<1>7. ClaimsAreTrue'
  BY ClaimsStay
<1>8. QED
  BY <1>2, <1>4, <1>5, <1>6, <1>7

(* Every step keeps the invariant, from where nobody settles beside a      *)
(* delivery that forces.                                                   *)
LEMMA SettlementInvNext ==
    ASSUME Common, TypeOK, SettlementInv, AloneWhenForcing, [Next]_vars
    PROVE  SettlementInv'
<1>1. ASSUME NEW d \in Deliveries, Deliver(d) \/ Handle(d) PROVE SettlementInv'
  BY <1>1, OutsideInv, RecordInv, ConcludeInv DEF Handle, Conclude
<1>2. ASSUME NEW w \in Workers, RunTasks(w) PROVE SettlementInv'
  BY <1>2, FrameInv DEF RunTasks
<1>3. ASSUME NEW w \in Workers, Crash(w) PROVE SettlementInv'
  BY <1>3, CrashInv
<1>4. ASSUME NEW s \in SellerStatuses, SellerUpdates(s) PROVE SettlementInv'
  BY <1>4, SellerInv DEF SellerUpdates, memVars, histVars
<1>5. CASE SellerSyncs
  BY <1>5, SellerInv, SellerSyncsStatus DEF SellerSyncs, memVars, histVars
<1>6. CASE LockChanges(LockAbandoned) \/ UNCHANGED vars
  BY <1>6, FrameInv DEF LockChanges, vars, memVars, histVars
<1>7. QED
  BY <1>1, <1>2, <1>3, <1>4, <1>5, <1>6 DEF Next

-----------------------------------------------------------------------------
(* The first condition: the database alone.                                *)

(* From where a request may come to the forced update.                     *)
LEMMA WayToForce ==
    ASSUME TypeOK, NEW d \in Deliveries, Deliver(d) \/ Handle(d)
    PROVE  /\ \A c \in Deliveries \ {d} : pc'[c] = pc[c]
           /\ pc'[d] = "reread" => ~AwaitsPayment /\ UNCHANGED dbVars
           /\ pc'[d] = "upsert" => pc[d] = "reread" /\ ~Paid
<1> USE DEF Goto, Accept, Refuse, InTx, InTransaction, TypeOK
<1>1. CASE Deliver(d) \/ Check(d) \/ Local(d) \/ Poll(d) \/ Lookup(d) \/ Conclude(d)
  BY <1>1
  DEF Deliver, Check, CheckHit, CheckMiss, CheckError, Local, LocalHit, IgnoreNonPaid,
      AskLock, Poll, PollHit, PollMiss, PollError, GiveUp,
      Lookup, LookupAccepts, LookupRefuses,
      Conclude, AnswerFailed, AnswerAlreadySettled, ReleaseLock, Finish
<1>2. CASE Record(d)
  BY <1>2
  DEF Record, RecordEvent, MarkOrderPaid, NoRowToMark, FoundPaid,
      FoundUnpaid, ForceOrderPaid, CreditLedger, TakeStock, LeaveStock,
      StockError, Commit, TransactionFails, SyncSupabase
<1>3. QED
  BY <1>1, <1>2 DEF Handle

(* A step writes PAID into orders.status, or leaves it, where nobody else  *)
(* writes it.                                                              *)
LEMMA StatusOnlyPaid ==
    ASSUME OnlyTheDatabase, TypeOK, [Next]_vars
    PROVE  status' \in {status, "PAID"}
<1>1. ASSUME NEW d \in Deliveries, Deliver(d) \/ Handle(d) PROVE status' \in {status, "PAID"}
  BY <1>1, HandleRunsStatement
  DEF dbVars, tables, InsertEvent, UpdateOrder, UpsertOrder, InsertCredit, DeductStock,
      BreakTx, CommitTx, RollbackTx, RecordReplay, OverwritePaid
<1>2. SellerSyncs \/ (\E s \in SellerStatuses : SellerUpdates(s)) => FALSE
  BY DEF OnlyTheDatabase, TypeOK, SellerSyncs
<1>3. QED
  BY <1>1, <1>2 DEF Next, RunTasks, Crash, RollbackAll, LockChanges, vars, dbVars, tables

(* Where the order is PENDING or PAID, whoever finds no row to update      *)
(* finds the order paid.                                                   *)
LEMMA NobodyForcesNext ==
    ASSUME OnlyTheDatabase, TypeOK, FinalInv, NobodyForces, [Next]_vars
    PROVE  NobodyForces'
<1>0. pc \in [Deliveries -> Labels]
  BY DEF TypeOK
<1>1. status' \in {"PENDING", "PAID"}
  BY StatusOnlyPaid DEF NobodyForces
<1>2. Paid => Paid'
  BY FinalStep
<1>3. ASSUME NEW d \in Deliveries, Deliver(d) \/ Handle(d), NEW c \in Deliveries
      PROVE  pc'[c] # "upsert" /\ (pc'[c] = "reread" => Paid')
  <2>1. CASE c # d
    BY <1>2, <1>3, <2>1, WayToForce DEF NobodyForces
  <2>2. CASE c = d
    BY <1>3, <2>2, WayToForce DEF NobodyForces, AwaitsPayment, Paid, dbVars
  <2>3. QED
    BY <2>1, <2>2
<1>4. ASSUME NEW w \in Workers, Crash(w), NEW c \in Deliveries
      PROVE  pc'[c] = "idle" \/ pc'[c] = pc[c]
  BY <1>4 DEF Crash, LoseWorker
<1>5. (\E d \in Deliveries : Deliver(d) \/ Handle(d)) \/ (\E w \in Workers : Crash(w))
        \/ UNCHANGED pc
  BY DEF Next, RunTasks, SellerUpdates, SellerSyncs, LockChanges, vars
<1>6. QED
  BY <1>0, <1>1, <1>2, <1>3, <1>4, <1>5 DEF NobodyForces

-----------------------------------------------------------------------------
(* The second condition: a lock that does not fail.                        *)

(* Under it a call of the lock reaches Redis, and is refused or makes the  *)
(* caller the holder; a release frees it.                                  *)
LEMMA ReliableCalls ==
    ASSUME ReliableLock, LockTypeOK, redisUp, \A v \in Workers : client[v] # "throttled",
           NEW w \in Workers
    PROVE  /\ Reaches(w)
           /\ \A got \in BOOLEAN : TryLock(w, got) =>
                 /\ redisHeld' /\ (got <=> ~redisHeld)
                 /\ redisUp' /\ \A v \in Workers : client'[v] # "throttled"
           /\ Unlock(w) =>
                 /\ ~redisHeld'
                 /\ redisUp' /\ \A v \in Workers : client'[v] # "throttled"
<1>1. Reaches(w) /\ ClientAfter(w) = "connected"
  BY DEF Reaches, ClientAfter, LockTypeOK, ClientStates
<1>2. QED
  BY <1>1 DEF ReliableLock, TryLock, Unlock, GetClient, AcquireRedis, AcquireInMemory,
              ReleaseRedis, ReleaseInMemory, LockTypeOK

(* How a request's step changes the lock and the place of the request.     *)
LEMMA HandleAndLock ==
    ASSUME TypeOK, NEW d \in Deliveries, Deliver(d) \/ Handle(d)
    PROVE  /\ \A c \in Deliveries \ {d} : pc'[c] = pc[c]
           /\ \/ UNCHANGED lockVars /\ (pc'[d] \in Critical => pc[d] \in Critical)
              \/ \E got \in BOOLEAN : /\ TryLock(WorkerOf[d], got)
                                      /\ pc[d] \notin Critical
                                      /\ pc'[d] \in Critical => got
              \/ /\ Unlock(WorkerOf[d])
                 /\ pc'[d] \notin Critical
                 /\ pc[d] \in {"failed", "lookup"} \/ pc[d] = "already" \/ Settled(d)
<1> USE DEF Goto, Accept, Refuse, InTx, InTransaction, Critical, TypeOK
<1>1. CASE Deliver(d) \/ Check(d) \/ Local(d) \/ Poll(d)
  BY <1>1
  DEF Deliver, Check, CheckHit, CheckMiss, CheckError, Local, LocalHit, IgnoreNonPaid,
      AskLock, Poll, PollHit, PollMiss, PollError, GiveUp
<1>2. CASE Lookup(d) \/ Conclude(d)
  BY <1>2
  DEF Lookup, LookupAccepts, LookupRefuses, Settled,
      Conclude, AnswerFailed, AnswerAlreadySettled, ReleaseLock, Finish
<1>3. CASE Record(d)
  BY <1>3
  DEF Record, RecordEvent, MarkOrderPaid, NoRowToMark, FoundPaid,
      FoundUnpaid, ForceOrderPaid, CreditLedger, TakeStock, LeaveStock,
      StockError, Commit, TransactionFails, SyncSupabase
<1>4. QED
  BY <1>1, <1>2, <1>3 DEF Handle

(* The holder of a lock that neither fails nor expires under it is alone   *)
(* until the order is paid; who releases it is the holder, or comes after  *)
(* the payment.                                                            *)
LEMMA LockGuardsNext ==
    ASSUME ReliableLock, TypeOK, FinalInv, SettlementInv, LockGuards, [Next]_vars
    PROVE  LockGuards'
<1> USE DEF LockGuards, AloneUntilPaid
<1>0. /\ pc \in [Deliveries -> Labels] /\ LockTypeOK
      /\ Paid => Paid'
  BY FinalStep DEF TypeOK
<1>1. ASSUME NEW d \in Deliveries, Deliver(d) \/ Handle(d) PROVE LockGuards'
  <2> DEFINE Sound == redisUp /\ \A w \in Workers : client[w] # "throttled"
  <2>1. WorkerOf[d] \in Workers
    BY SlotsAssumption
  <2>2. \A c \in Deliveries \ {d} : pc'[c] = pc[c]
    BY <1>1, HandleAndLock
  <2>3. CASE UNCHANGED lockVars /\ (pc'[d] \in Critical => pc[d] \in Critical)
    BY <1>0, <2>2, <2>3 DEF lockVars
  <2>4. ASSUME NEW got \in BOOLEAN, TryLock(WorkerOf[d], got),
               pc[d] \notin Critical, pc'[d] \in Critical => got
        PROVE  LockGuards'
    <3>1. redisHeld' /\ (got <=> ~redisHeld) /\ Sound'
      BY <1>0, <2>1, <2>4, ReliableCalls
    <3>2. \A c \in Deliveries \ {d} : pc[c] \in Critical /\ got => Paid
      BY <3>1
    <3>3. QED
      BY <1>0, <2>2, <2>4, <3>1, <3>2
  <2>5. CASE /\ Unlock(WorkerOf[d])
             /\ pc'[d] \notin Critical
             /\ pc[d] \in {"failed", "lookup"} \/ pc[d] = "already" \/ Settled(d)
    <3>1. Sound'
      BY <1>0, <2>1, <2>5, ReliableCalls
    <3>2. pc[d] \in Critical \/ Paid
      BY <2>5 DEF Critical, Settled, SettlementInv, OneDispatches
    <3>3. \A c \in Deliveries \ {d} : pc[c] \in Critical => Paid
      BY <3>2
    <3>4. QED
      BY <1>0, <2>2, <2>5, <3>1, <3>3
  <2>6. QED
    BY <1>1, <2>3, <2>4, <2>5, HandleAndLock
<1>2. ASSUME NEW w \in Workers, Crash(w) PROVE LockGuards'
  <2>1. \A c \in Deliveries : pc'[c] \in Critical => pc[c] \in Critical
    BY <1>2 DEF Crash, LoseWorker, Critical, InTransaction
  <2>2. UNCHANGED <<redisUp, redisHeld>> /\ \A v \in Workers : client'[v] # "throttled"
    BY <1>0, <1>2 DEF Crash, LoseWorker, ForgetLocal, LockTypeOK
  <2>3. QED
    BY <1>0, <2>1, <2>2
<1>3. CASE LockChanges(LockAbandoned)
  <2>1. CASE ExpireRedis \/ \E w \in Workers : ExpireInMemory(w)
    <3>1. \A c \in Deliveries : pc[c] \notin Critical
      BY <1>3, <2>1 DEF LockChanges, LockAbandoned, ReliableLock, RedisGoesDown,
                        RedisComesBack, ThrottleEnds
    <3>2. QED
      BY <1>3, <2>1, <3>1 DEF LockChanges, ExpireRedis, ExpireInMemory
  <2>2. CASE RedisGoesDown \/ RedisComesBack \/ \E w \in Workers : ThrottleEnds(w)
    BY <2>2 DEF ReliableLock, RedisGoesDown, RedisComesBack, ThrottleEnds
  <2>3. QED
    BY <1>3, <2>1, <2>2 DEF LockChanges
<1>4. CASE UNCHANGED <<lockVars, pc>>
  BY <1>0, <1>4 DEF lockVars
<1>5. QED
  BY <1>1, <1>2, <1>3, <1>4
  DEF Next, RunTasks, SellerUpdates, SellerSyncs, vars

-----------------------------------------------------------------------------
(* What follows from the invariant.                                        *)

(* The invariant holds always for an order that awaits payment, whatever   *)
(* becomes of the lock, of the workers and of any single statement; and    *)
(* for every order behind a lock that does not fail.                       *)
LEMMA SettlementAlone ==
    ASSUME OnlyTheDatabase \/ ReliableLock
    PROVE  Spec => [](SettlementInv /\ AloneWhenForcing)
<1>1. Init => SettlementInv /\ FinalInv
  BY SettlementInvInit, StartAssumption
  DEF Init, DBInit, FinalInv, CreditElectsOne, NoTx
<1>2. Common
  BY DEF Common, OnlyTheDatabase, ReliableLock
<1>3. ASSUME OnlyTheDatabase PROVE Spec => [](SettlementInv /\ AloneWhenForcing)
  <2>1. Init => NobodyForces
    BY <1>3 DEF Init, DBInit, NobodyForces, OnlyTheDatabase
  <2>2. NobodyForces => AloneWhenForcing
    BY DEF AloneWhenForcing, NobodyForces
  <2>3. TypeOK /\ FinalInv /\ SettlementInv /\ NobodyForces /\ [Next]_vars
          => FinalInv' /\ SettlementInv' /\ NobodyForces'
    BY <1>2, <1>3, <2>2, FinalStep, SettlementInvNext, NobodyForcesNext
  <2>4. QED
    BY <1>1, <2>1, <2>2, <2>3, TypeCorrect, PTL DEF Spec
<1>4. ASSUME ReliableLock PROVE Spec => [](SettlementInv /\ AloneWhenForcing)
  <2>1. Init => LockGuards
    BY DEF Init, LockInit, LockGuards, AloneUntilPaid, Critical, InTransaction
  <2>2. SettlementInv /\ LockGuards => AloneWhenForcing
    BY DEF SettlementInv, OneSettles, Settling, LockGuards, AloneUntilPaid,
           AloneWhenForcing, Critical, InTransaction
  <2>3. TypeOK /\ FinalInv /\ SettlementInv /\ LockGuards /\ [Next]_vars
          => FinalInv' /\ SettlementInv' /\ LockGuards'
    BY <1>2, <1>4, <2>2, FinalStep, SettlementInvNext, LockGuardsNext
  <2>4. QED
    BY <1>1, <2>1, <2>2, <2>3, TypeCorrect, PTL DEF Spec
<1>5. QED
  BY <1>3, <1>4

(* The same without what the induction needs beside it.                    *)
THEOREM SettlementInvariant ==
    ASSUME OnlyTheDatabase \/ ReliableLock PROVE Spec => []SettlementInv
BY SettlementAlone, PTL

(* A lock that neither fails nor expires under its holder lets two         *)
(* deliveries into the locked part together only when the order is paid.   *)
THEOREM LockKeepsAlone ==
    ASSUME ReliableLock PROVE Spec => []AloneUntilPaid
<1>1. Init => FinalInv /\ LockGuards
  BY StartAssumption
  DEF Init, LockInit, DBInit, FinalInv, CreditElectsOne, NoTx,
      LockGuards, AloneUntilPaid, Critical, InTransaction
<1>2. TypeOK /\ FinalInv /\ SettlementInv /\ LockGuards /\ [Next]_vars
        => FinalInv' /\ LockGuards'
  BY FinalStep, LockGuardsNext
<1>3. LockGuards => AloneUntilPaid
  BY DEF LockGuards
<1>4. QED
  BY <1>1, <1>2, <1>3, TypeCorrect, SettlementInvariant, PTL DEF Spec

(* The order row, the ledger credit and the audit event of one payment     *)
(* appear together.                                                        *)
THEOREM PaidWhenCredited ==
    ASSUME OnlyTheDatabase \/ ReliableLock PROVE Spec => []PaidExactlyWhenCredited
<1>1. SettlementInv => PaidExactlyWhenCredited
  BY DEF SettlementInv, RowsAgree, PaidExactlyWhenCredited
<1>2. QED
  BY <1>1, SettlementInvariant, PTL

(* The receipt and the goods are sent off at most once.                    *)
THEOREM SingleDispatch ==
    ASSUME OnlyTheDatabase \/ ReliableLock PROVE Spec => []DispatchedAtMostOnce
<1>1. SettlementInv => DispatchedAtMostOnce
  BY DEF SettlementInv, OneDispatches, DispatchedAtMostOnce
<1>2. QED
  BY <1>1, SettlementInvariant, PTL

(* A payment takes at most one unit, and only when it is paid.             *)
THEOREM SingleUnit ==
    ASSUME OnlyTheDatabase \/ ReliableLock PROVE Spec => []OneUnitPerPayment
<1>1. SettlementInv => OneUnitPerPayment
  BY StockAssumption, Meanings DEF SettlementInv, RowsAgree, OneUnitPerPayment
<1>2. QED
  BY <1>1, SettlementInvariant, PTL

(* A worker that claims or remembers a settlement is right.                *)
THEOREM ClaimsCorrect ==
    ASSUME OnlyTheDatabase \/ ReliableLock PROVE Spec => []ClaimsAreTrue
<1>1. SettlementInv => ClaimsAreTrue
  BY DEF SettlementInv
<1>2. QED
  BY <1>1, SettlementInvariant, PTL

-----------------------------------------------------------------------------
(* The webhook implements the contract.                                    *)

(* The provider was told that the order is settled.                        *)
Told == \E e \in Events : answers[e] \cap {"SUCCESS", "ALREADY_PROCESSED"} # {}

(* Answers are added, never taken back.                                    *)
AnswersGrow ==
    \/ answers' = answers
    \/ \E e \in Events, a \in Answers : answers' = [answers EXCEPT ![e] = @ \cup {a}]

(* What the provider was told is not taken back.                           *)
LEMMA ToldForEver == ASSUME TypeOK, AnswersGrow PROVE Told => Told'
<1> SUFFICES ASSUME Told PROVE Told'
  OBVIOUS
<1>1. PICK e \in Events : answers[e] \cap {"SUCCESS", "ALREADY_PROCESSED"} # {}
  BY DEF Told
<1>2. answers[e] \subseteq answers'[e]
  BY DEF AnswersGrow, TypeOK
<1>3. QED
  BY <1>1, <1>2 DEF Told

(* A step of a request commits the settlement, or finishes it, or leaves   *)
(* all that the contract speaks of but the answers.                        *)
LEMMA HandleKinds ==
    ASSUME Common, TypeOK, SettlementInv, NEW d \in Deliveries,
           Deliver(d) \/ Handle(d)
    PROVE  \/ Finish(d)
           \/ Commit(d)
           \/ CommitTx(d) /\ InTx(d, "commit", "failed")
           \/ /\ UNCHANGED <<Paid, ledger, stock, dispatches, fulfilled>>
              /\ AnswersGrow
<1> USE SlotsAssumption DEF Elsewhere, dbVars, tables, Paid
<1>1. /\ EventOf[d] \in Events
      /\ \A from, a : a \in Answers /\ Accept(d, from, a) => AnswersGrow
  BY DEF Accept, AnswersGrow
<1>2. /\ "ALREADY_PROCESSED" \in Answers /\ "IGNORED" \in Answers
      /\ "ALREADY_PROCESSING" \in Answers
  BY DEF Answers
<1>3. answers' = answers => AnswersGrow
  BY DEF AnswersGrow
<1>4. DbHit(d) \/ DbMiss(d) => UNCHANGED <<status, payStatus, ledger, stock>>
  BY DEF DbHit, DbMiss, RecordReplay
<1>5. CASE Deliver(d) \/ Check(d)
  BY <1>1, <1>2, <1>3, <1>4, <1>5
  DEF Deliver, Check, CheckHit, CheckMiss, CheckError, Refuse
<1>6. CASE Local(d)
  BY <1>1, <1>2, <1>3, <1>6 DEF Local, LocalHit, IgnoreNonPaid, AskLock
<1>7. CASE Poll(d)
  BY <1>1, <1>2, <1>3, <1>4, <1>7 DEF Poll, PollHit, PollMiss, PollError, GiveUp, Refuse
<1>8. CASE Lookup(d)
  BY <1>3, <1>8 DEF Lookup, LookupAccepts, LookupRefuses, Refuse
<1>9. CASE SyncSupabase(d)
  <2>1. payStatus = "PAID"
    BY <1>9, Meanings DEF SyncSupabase, InTx, Goto, SettlementInv, OneDispatches, Settled
  <2>2. QED
    BY <1>3, <1>9, <2>1 DEF SyncSupabase, OverwritePaid, InTx
<1>10. CASE Record(d) /\ ~SyncSupabase(d)
  BY <1>3, <1>10
  DEF Record, InTx, RecordEvent, MarkOrderPaid, NoRowToMark, FoundPaid,
      FoundUnpaid, ForceOrderPaid, CreditLedger, TakeStock, LeaveStock,
      StockError, TransactionFails, InsertEvent, UpdateOrder, UpsertOrder,
      InsertCredit, DeductStock, BreakTx, RollbackTx
<1>11. CASE Conclude(d)
  BY <1>1, <1>2, <1>3, <1>11
  DEF Conclude, AnswerFailed, AnswerAlreadySettled, ReleaseLock, Refuse
<1>12. QED
  BY <1>5, <1>6, <1>7, <1>8, <1>9, <1>10, <1>11 DEF Handle

(* The webhook starts where the contract starts.                           *)
LEMMA ContractInit == Init => Contract!Init
<1> SUFFICES ASSUME Init PROVE Contract!Init
  OBVIOUS
<1>1. ~Paid /\ ledger = {} /\ stock = Stock
  BY StartAssumption DEF Init, DBInit, Paid
<1>2. ~Told
  BY DEF Init, Told
<1>3. QED
  BY <1>1, <1>2, StockAssumption DEF Contract!Init, Init, Told

(* Every step of the webhook is a step of the contract or a stutter.       *)
LEMMA ContractStep ==
    ASSUME Common, TypeOK, SettlementInv, SettlementInv', AloneWhenForcing, [Next]_vars
    PROVE  [Contract!Next]_(Contract!vars)
<1>1. Told' => Paid'
  BY DEF SettlementInv, ClaimsAreTrue, Told
<1>2. ASSUME UNCHANGED <<Paid, ledger, stock, dispatches, fulfilled>>, AnswersGrow
      PROVE  Contract!Confirm \/ UNCHANGED Contract!vars
  <2>1. CASE Told' /\ ~Told
    BY <1>1, <1>2, <2>1 DEF Contract!Confirm, Told
  <2>2. CASE Told' = Told
    BY <1>2, <2>2 DEF Contract!vars, Told
  <2>3. QED
    BY <1>2, <2>1, <2>2, ToldForEver DEF Told
<1>3. ASSUME NEW d \in Deliveries, NEW to \in {"sync", "failed"},
             CommitTx(d), InTx(d, "commit", to)
      PROVE  Contract!Settle
  <2>1. UNCHANGED <<answers, l1, tasks, dispatches, fulfilled>>
        /\ pc[d] = "commit" /\ pc' = [pc EXCEPT ![d] = to]
    BY <1>3 DEF InTx, Goto, Elsewhere
  <2>2. ~Paid /\ Paid' /\ ledger' # {} /\ stock' \in {stock, stock - 1}
    BY <1>3, <2>1, CommitInv
  <2>3. stock = Stock
    BY <2>2, Meanings DEF SettlementInv, RowsAgree
  <2>4. Stock - stock' \in {0, 1}
    <3>1. stock' = Stock \/ stock' = Stock - 1
      BY <2>2, <2>3
    <3>2. Stock \in Int
      BY StockAssumption
    <3>3. CASE stock' = Stock
      BY <3>2, <3>3
    <3>4. CASE stock' = Stock - 1
      BY <3>2, <3>4
    <3>5. QED
      BY <3>1, <3>3, <3>4
  <2>5. Paid' = TRUE /\ (ledger' # {}) = TRUE
    BY <2>2
  <2>6. UNCHANGED <<dispatches, fulfilled, Told>>
    BY <2>1 DEF Told
  <2>7. QED
    BY <2>2, <2>4, <2>5, <2>6 DEF Contract!Settle, Told
<1>4. ASSUME NEW d \in Deliveries, Finish(d) PROVE Contract!Dispatch
  <2>1. dispatches = 0 /\ dispatches' = 1 /\ Paid
    BY <1>4, Meanings DEF Finish, Accept, Goto, SettlementInv, OneDispatches, Settled
  <2>2. UNCHANGED <<status, payStatus, ledger, stock, fulfilled>>
    BY <1>4 DEF Finish, dbVars
  <2>3. answers'[EventOf[d]] \cap {"SUCCESS", "ALREADY_PROCESSED"} # {}
    BY <1>4, SlotsAssumption DEF Finish, Accept, TypeOK
  <2>4. Told'
    BY <2>3, SlotsAssumption DEF Told
  <2>5. QED
    BY <2>1, <2>2, <2>4 DEF Contract!Dispatch, Paid, Told
<1>5. ASSUME NEW d \in Deliveries, Deliver(d) \/ Handle(d)
      PROVE  [Contract!Next]_(Contract!vars)
  BY <1>2, <1>3, <1>4, <1>5, HandleKinds DEF Commit, Contract!Next
<1>6. ASSUME NEW w \in Workers, RunTasks(w) PROVE Contract!Fulfil
  <2>1. dispatches = 1
    BY <1>6 DEF RunTasks, SettlementInv, OneDispatches
  <2>2. QED
    BY <1>6, <2>1 DEF RunTasks, dbVars, Contract!Fulfil, Paid
<1>7. ASSUME NEW w \in Workers, Crash(w) PROVE UNCHANGED Contract!vars
  BY <1>7 DEF Crash, LoseWorker, RollbackAll, tables, histVars, Contract!vars, Paid
<1>8. SellerSyncs \/ (\E s \in SellerStatuses : SellerUpdates(s)) => UNCHANGED Contract!vars
  <2>1. ASSUME NEW s \in SellerStatuses, OverwriteStatus(s) \/ UNCHANGED dbVars
        PROVE  UNCHANGED <<Paid, ledger, stock>>
    BY <2>1, Meanings
    DEF Common, OverwriteStatus, dbVars, SettlementInv, RowsAgree, Paid
  <2>2. QED
    BY <2>1, SellerSyncsStatus DEF SellerSyncs, SellerUpdates, histVars, Contract!vars
<1>9. LockChanges(LockAbandoned) \/ UNCHANGED vars => UNCHANGED Contract!vars
  BY DEF LockChanges, vars, dbVars, histVars, Contract!vars, Paid
<1>10. QED
  BY <1>5, <1>6, <1>7, <1>8, <1>9 DEF Next, Contract!Next

(* The settlement keeps its contract, by the database alone or behind a    *)
(* reliable lock: every behaviour of the webhook, its crashes and lost     *)
(* commits included, is a behaviour of SettlementContract.                 *)
THEOREM Implementation ==
    ASSUME OnlyTheDatabase \/ ReliableLock PROVE Spec => ImplementsContract
<1>1. Init => Contract!Init
  BY ContractInit
<1>2. TypeOK /\ SettlementInv /\ SettlementInv' /\ AloneWhenForcing /\ [Next]_vars
        => [Contract!Next]_(Contract!vars)
  BY ContractStep DEF Common, OnlyTheDatabase, ReliableLock
<1>3. QED
  BY <1>1, <1>2, TypeCorrect, SettlementAlone, PTL
  DEF Spec, ImplementsContract, Contract!Spec
=============================================================================
