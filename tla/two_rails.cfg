CONSTANTS
    w1 = w1
    w2 = w2
    e1 = e1
    e2 = e2
    a1 = a1
    Workers = {w1, w2}
    Events = {e1, e2}
    Deliveries <- OneDelivery
    Callbacks <- BothEndpoints
    Txns <- AllSlots
    WorkerOf <- WorkerOfSlot
    EventOf <- EventOfSlot
    CallbackWorker <- WorkerOfCallback
    CallbackEvent <- EventOfCallback
    CallbackKind <- KindOfCallback
    Agents = {a1}
    NonPaid = {}
    Rejected = {}
    Notices = FALSE
    IntentWorkers = {}
    StartStatuses = {"PENDING"}
    StartPayStatuses = {"PENDING"}
    SellerStatuses = {}
    Stock = 2
    LockFaults = FALSE
    DbFaults = FALSE
    StockFaults = FALSE
    RailFaults = TRUE
    SupabaseFaults = FALSE
    EntitlementFaults = TRUE
    EarlyExpiry = TRUE
    MaxPolls = 1
    MaxCrashes = 1

SPECIFICATION BothSpec
INVARIANTS BothTypeOK CreditedOncePaid OnlyTheSettlerDispatches
PROPERTY ImplementsRailsContract
