\* Two switches that replace each other, two packets, two orders of the controller.
SPECIFICATION PktSpec
CONSTANTS
    Ctls = {c1}
    Dpts = {d1, d2}
    NoPeer = NoPeer
    PortMap <- MCPortMap
    NoVlan = NoVlan
    Wild = Wild
    PacketIds = {p1, p2}
    Arrivals <- MCArrivals
    ActionLists <- MCActionLists
    InPorts <- MCInPorts
    port_config_handling = "passthrough"
    DEBUG = FALSE
    MaxOrders = 2
INVARIANTS
    PktTypeOK
    ShownWhereItArrived
    LeavesWhereAsked
    NothingVanishes
    ShownAsOnePort
    ChangedAsAsked
SYMMETRY MCSymmetry
CHECK_DEADLOCK FALSE
