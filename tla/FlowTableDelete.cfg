\* flow_entry_translate.cc:291 says what is deleted leaves the table.
SPECIFICATION Spec
CONSTANTS
    Ctls = {c1}
    Dpts = {d1}
    NoPeer = NoPeer
    PortMap <- MCPortMap
    NoVlan = NoVlan
    Wild = Wild
    F = F
    Matches <- OneMatch
    ActionLists <- MCActionLists
    OutPorts = {65535}
    DEBUG = FALSE
    MaxFlows = 1
    MaxChannel = 2
PROPERTY DeletedEntriesForgotten
CHECK_DEADLOCK FALSE
