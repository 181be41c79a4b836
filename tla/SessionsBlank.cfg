\* csh_flow_stats.cc:21 says when a blank reply is sent.
SPECIFICATION Spec
CONSTANTS
    Ctls = {c1}
    Dpts = {d1}
    NoPeer = NoPeer
    Kinds = {"flow_stats"}
    port_config_handling = "drop"
    DEBUG = FALSE
    TimerSlots = 2
    MaxSessions = 1
    MaxMatches = 2
    MaxMore = 0
INVARIANT BlankMeansNoMatch
