CONSTANTS
    w1 = w1
    w2 = w2
    e1 = e1
    e2 = e2
    Workers = {w1, w2}
    Events = {e1, e2}
    Deliveries <- Duplicate
    Txns <- Duplicate
    WorkerOf <- WorkerOfSlot
    EventOf <- EventOfSlot
    NonPaid = {e2}
    Rejected = {}
    IntentWorkers = {w1, w2}
    StartStatuses = {"absent", "PENDING", "CANCELLED"}
    StartPayStatuses = {"none", "PENDING"}
    SellerStatuses = {"CANCELLED"}
    Stock = 0
    LockFaults = FALSE
    DbFaults = FALSE
    StockFaults = TRUE
    EarlyExpiry = FALSE
    MaxPolls = 1
    MaxCrashes = 0

SPECIFICATION FairSpec
INVARIANT AloneUntilPaid
PROPERTIES PaymentIsFinal EveryRequestAnswered PaidAndFulfilled
