\* morpheus.cc:410 says an expired session leaves the database.
SPECIFICATION Spec
CONSTANTS
    Ctls = {c1}
    Dpts = {d1}
    NoPeer = NoPeer
    Kinds = {"flow_mod"}
    port_config_handling = "drop"
    DEBUG = FALSE
    TimerSlots = 2
    MaxSessions = 1
    MaxMatches = 1
    MaxMore = 0
INVARIANT ExpiredSessionsForgotten
CHECK_DEADLOCK FALSE
