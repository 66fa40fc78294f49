CONSTANTS
    w1 = w1
    w2 = w2
    e1 = e1
    e2 = e2
    a1 = a1
    Workers = {w1, w2}
    Events = {e1, e2}
    Deliveries <- NoDelivery
    Callbacks <- OneCallback
    Txns <- AllSlots
    WorkerOf <- WorkerOfSlot
    EventOf <- EventOfSlot
    CallbackWorker <- WorkerOfCallback
    CallbackEvent <- EventOfCallback
    CallbackKind <- KindOfCallback
    Agents = {}
    NonPaid = {}
    Rejected = {}
    Notices = TRUE
    IntentWorkers = {}
    StartStatuses = {"PENDING"}
    StartPayStatuses = {"PENDING"}
    SellerStatuses = {}
    Stock = 1
    LockFaults = FALSE
    DbFaults = FALSE
    StockFaults = FALSE
    RailFaults = FALSE
    SupabaseFaults = FALSE
    EntitlementFaults = FALSE
    EarlyExpiry = FALSE
    MaxPolls = 1
    MaxCrashes = 0

SPECIFICATION BothSpec
INVARIANT AcknowledgedCallbackSettles
