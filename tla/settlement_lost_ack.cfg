CONSTANTS
    w1 = w1
    w2 = w2
    e1 = e1
    e2 = e2
    Workers = {w1, w2}
    Events = {e1}
    Deliveries <- SameEvent
    Txns <- SameEvent
    WorkerOf <- WorkerOfSlot
    EventOf <- EventOfSlot
    NonPaid = {}
    Rejected = {}
    IntentWorkers = {}
    StartStatuses = {"PENDING"}
    StartPayStatuses = {"PENDING"}
    SellerStatuses = {}
    Stock = 2
    LockFaults = FALSE
    DbFaults = TRUE
    StockFaults = FALSE
    EarlyExpiry = FALSE
    MaxPolls = 1
    MaxCrashes = 0

SPECIFICATION Spec
INVARIANT AcknowledgedPaymentSettles
