CONSTANTS
    w1 = w1
    w2 = w2
    e1 = e1
    e2 = e2
    a1 = a1
    Workers = {w1, w2}
    Events = {e1, e2}
    Deliveries <- OneDelivery
    Callbacks <- CallbackAtQris
    Txns <- AllSlots
    WorkerOf <- WorkerOfSlot
    EventOf <- EventOfSlot
    CallbackWorker <- WorkerOfCallback
    CallbackEvent <- EventOfCallback
    CallbackKind <- KindOfCallback
    Agents = {}
    NonPaid = {}
    Rejected = {}
    Notices = TRUE
    IntentWorkers = {}
    StartStatuses = {"absent", "PENDING"}
    StartPayStatuses = {"none", "PENDING"}
    SellerStatuses = {"CANCELLED"}
    Stock = 0
    LockFaults = FALSE
    DbFaults = FALSE
    StockFaults = FALSE
    RailFaults = TRUE
    SupabaseFaults = TRUE
    EntitlementFaults = TRUE
    EarlyExpiry = TRUE
    MaxPolls = 1
    MaxCrashes = 0

SPECIFICATION BothFairSpec
INVARIANTS OneJustifiedCredit
PROPERTY EveryRequestEnds
