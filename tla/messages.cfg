\* Two processes, one message and one opt-out, every combination of faults.
CONSTANTS
    s1 = s1
    s2 = s2
    m1 = m1
    stop = stop
    Servers <- ServersMC
    Requests <- RequestsMC
    ServerOf <- ServerOfMC
    Messages = {m1, stop}
    OptOuts = {stop}
    Scenarios <- ScenariosMC

SPECIFICATION FairInboundSpec

INVARIANTS
    InboundTypeOK
    DispatchedTwiceOnlyByMemory
    AcknowledgedOptOutIsKept
    ConfirmedOptOutIsHonoured

PROPERTIES
    EveryMessageIsDispatched
