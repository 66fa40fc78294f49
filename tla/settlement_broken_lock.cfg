CONSTANTS
    w1 = w1
    w2 = w2
    e1 = e1
    e2 = e2
    Workers = {w1, w2}
    Events = {e1, e2}
    Deliveries <- TwoEvents
    Txns <- TwoEvents
    WorkerOf <- WorkerOfSlot
    EventOf <- EventOfSlot
    NonPaid = {}
    Rejected = {}
    IntentWorkers = {}
    StartStatuses = {"PENDING"}
    StartPayStatuses = {"PENDING"}
    SellerStatuses = {}
    Stock = 2
    LockFaults = TRUE
    DbFaults = TRUE
    StockFaults = FALSE
    EarlyExpiry = TRUE
    MaxPolls = 1
    MaxCrashes = 1

SPECIFICATION Spec
INVARIANTS TypeOK PaidExactlyWhenCredited ClaimsAreTrue
PROPERTY ImplementsContract
