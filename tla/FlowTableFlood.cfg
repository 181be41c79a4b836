\* flow_entry_translate.cc:125 says where a flood goes.
SPECIFICATION Spec
CONSTANTS
    Ctls = {c1}
    Dpts = {d1}
    NoPeer = NoPeer
    PortMap <- MCPortMap
    NoVlan = NoVlan
    Wild = Wild
    F = F
    Matches <- OneMatch
    ActionLists <- FloodList
    OutPorts = {65535}
    DEBUG = FALSE
    MaxFlows = 1
    MaxChannel = 2
PROPERTY FloodSparesInputOnly
CHECK_DEADLOCK FALSE
