\* Every kind of request, two at a time, two controllers, a switch that comes and goes.
SPECIFICATION LiveSpec
CONSTANTS
    Ctls = {c1, c2}
    Dpts = {d1}
    NoPeer = NoPeer
    Kinds = {"features", "get_config", "desc_stats", "table_stats", "barrier",
             "flow_stats", "aggregate_stats", "port_stats", "flow_mod"}
    port_config_handling = "passthrough"
    DEBUG = FALSE
    TimerSlots = 1
    MaxSessions = 2
    MaxMatches = 2
    MaxMore = 1
INVARIANTS
    SessTypeOK
    OnlyLocalSessionsDangle
    TimerOrAnswerDeletes
    RepliesFindTheirSession
    AtMostOneAnswer
    EntriesAwaitTheSwitch
    BarrierWaits
    AggregateWaitsForAll
PROPERTIES
    AnswersGoToTheAsker
    RequestsAnswered
    ActionsLearntAtLast
\* The process dies on an unknown port and on a pointer to a deleted session.
CHECK_DEADLOCK FALSE
