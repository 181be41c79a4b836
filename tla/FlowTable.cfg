\* Flow-mods of every command, with losses and refusals by the switch.
SPECIFICATION Spec
CONSTANTS
    Ctls = {c1}
    Dpts = {d1}
    NoPeer = NoPeer
    PortMap <- MCPortMap
    NoVlan = NoVlan
    Wild = Wild
    F = F
    Matches <- MCMatches
    ActionLists <- MCActionLists
    OutPorts = {65535}
    DEBUG = FALSE
    MaxFlows = 2
    MaxChannel = 2
INVARIANTS
    FlowTypeOK
    SidesAgree
    InstalledAreKnown
PROPERTIES
    DeleteTakesEffect
    DeleteSparesOthers
    TaggedOutputsTagged
CHECK_DEADLOCK FALSE
