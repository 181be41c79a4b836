\* One packet, one switch: does a flood come back to where the packet came from?
SPECIFICATION PktSpec
CONSTANTS
    Ctls = {c1}
    Dpts = {d1}
    NoPeer = NoPeer
    PortMap <- MCPortMap
    NoVlan = NoVlan
    Wild = Wild
    PacketIds = {p1}
    Arrivals <- MCArrivals
    ActionLists <- MCActionLists
    InPorts <- MCInPorts
    port_config_handling = "passthrough"
    DEBUG = FALSE
    MaxOrders = 1
INVARIANTS
    FloodSparesInput
CHECK_DEADLOCK FALSE
