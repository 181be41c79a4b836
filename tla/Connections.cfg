\* Both control paths with two controllers and three switches.
SPECIFICATION ConnLiveSpec
CONSTANTS
    Ctls = {c1, c2}
    Dpts = {d1, d2, d3}
    NoPeer = NoPeer
INVARIANTS
    ConnTypeOK
    NoStalePeer
    StateMatchesPeer
    ControllerSideWatched
PROPERTIES
    NoControllerTakeover
    SwitchReturns
    ControllerReturns
