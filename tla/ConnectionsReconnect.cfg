\* morpheus.cc:373 promises a reconnection that is never asked for.
SPECIFICATION ConnSpec
CONSTANTS
    Ctls = {c1}
    Dpts = {d1}
    NoPeer = NoPeer
PROPERTY ReconnectsToSwitch
