\* One peer at the gates; one tenant's books and three orders, two processes.
CONSTANTS
    BurstCount = 3
    BurstWindow = 2
    ChallengeTTL = 2
    LoopLimit = 5
    LoopWindow = 4
    VelocityLimit = 6
    VelocityWindow = 5
    Cooldowns <- CooldownsMC
    Budget = 7
    Patience = 6
    p1 = p1
    p2 = p2
    n1 = n1
    n2 = n2
    Processes = {p1, p2}
    Contacts = {"c1"}
    BaseQuota = 1
    PackSize = 2
    Deployments <- DeploymentsMC
    MaxCredits = 2
    MaxCharges = 2
    Readers = {p1, p2}
    Orders = {1, 2, 3}
    Receipts = {n1, n2}
    Resendable = {n1}
    ReaderFaults = TRUE
    MaxSends = 2
    MaxReminders = 2
    k1 = k1
    k2 = k2
    k3 = k3
    s1 = s1
    s2 = s2
    Desks = {p1, p2}
    Agents = {"a1", "a2"}
    Chats = {k1, k2, k3}
    Capacities = {1, 2}
    Sends = {s1, s2}
    KeyOf <- OneKey
    MaxEdits = 1
    DeskFaults = TRUE
    Nobody = "nobody"
    Turns = {"t1", "t2"}
    HoldFaults = TRUE
    i1 = i1
    i2 = i2
    Servers = {p1, p2}
    Invoices = {i1, i2}
    Period = 3
    Trial = 1
    LastDay = 1
    MaxActivations = 3
    PlanFaults = TRUE
    Hosts = {"h1", "h2"}
    Fulfilments = {"f1", "f2", "f3"}
    InviteFaults = TRUE

SPECIFICATION TenantSpec

INVARIANTS
    TenantTypeOK
    TurnsBounded
    FrictionBeforeBurstQuarantine
    PatientPeerMissesOneMessage
    BalanceIsCoherent
    LostOnlyToStaleCopies
    SentTwiceOnlyUnmarked
    RemindedTwiceOnlySlipped
    OneReceiptOneOrder
    OverloadBounded
    ResentOnlyUnrecorded
    AnswersOnlyWhenFree
    CommissionsAreDue
    PaidPeriodIsServed
    AccessGivenOnce

\* The jobs are bounded, so the books come to rest.
CHECK_DEADLOCK FALSE

SYMMETRY Alike
