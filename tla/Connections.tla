---------------------------- MODULE Connections ----------------------------
(***************************************************************************)
(* The two control paths of the xcpd proxy: one to the switch (datapath)   *)
(* and one to the controller.  src/xcpd/morpheus.cc keeps for each a state *)
(* and the peer in use; rofl, the OpenFlow library, listens or dials and   *)
(* calls one handler at a time from its event loop.                        *)
(*                                                                         *)
(* The library is modelled by what the proxy sees of it: once the proxy    *)
(* has asked it to watch a side, peers may connect there, several at once  *)
(* (every call of a watcher listens or dials again, and the calls made     *)
(* before stay in force), and a connected peer may leave at any time.      *)
(***************************************************************************)
CONSTANTS
    Ctls,     \* controllers that may connect
    Dpts,     \* switches that may connect
    NoPeer    \* the null pointer of m_slave and m_master

ASSUME PeersAssumption == NoPeer \notin Ctls \cup Dpts

VARIABLES
    dpt_state,   \* "closed", "wait" or "open": PATH_CLOSED, ...
    ctl_state,   \* likewise
    m_slave,     \* the switch in use, or NoPeer
    m_master,    \* the controller in use, or NoPeer
    dptWatched,  \* rofl: has it been asked to find a switch?
    ctlWatched,  \* rofl: has it been asked to find a controller?
    dptUp,       \* rofl: the switches connected now
    ctlUp        \* rofl: the controllers connected now

connVars ==
    <<dpt_state, ctl_state, m_slave, m_master, dptWatched, ctlWatched, dptUp, ctlUp>>

PathStates == {"closed", "wait", "open"}

\* What the message handlers ask before they do anything.
Connected == m_slave # NoPeer /\ m_master # NoPeer

ConnTypeOK ==
    /\ dpt_state \in PathStates
    /\ ctl_state \in PathStates
    /\ m_slave \in Dpts \cup {NoPeer}
    /\ m_master \in Ctls \cup {NoPeer}
    /\ dptWatched \in BOOLEAN
    /\ ctlWatched \in BOOLEAN
    /\ dptUp \subseteq Dpts
    /\ ctlUp \subseteq Ctls

\* Construction, then initialiseConnections: only the switch is looked for,
\* the controller's turn comes when a switch is there.
ConnInit ==
    /\ dpt_state = "wait"   /\ dptWatched = TRUE
    /\ ctl_state = "closed" /\ ctlWatched = FALSE
    /\ m_slave = NoPeer     /\ m_master = NoPeer
    /\ dptUp = {}           /\ ctlUp = {}

-----------------------------------------------------------------------------
(***************************************************************************)
(* The watchers: each returns at once unless its path is closed.  Listening*)
(* and dialling, which the configuration chooses between, are one here.    *)
(***************************************************************************)
set_dpt_watcher ==
    IF dpt_state = "closed"
    THEN dpt_state' = "wait" /\ dptWatched' = TRUE
    ELSE UNCHANGED <<dpt_state, dptWatched>>

\* Called by handlers that have set ctl_state to s.
set_ctl_watcher(s) ==
    IF s = "closed"
    THEN ctl_state' = "wait" /\ ctlWatched' = TRUE
    ELSE ctl_state' = s /\ UNCHANGED ctlWatched

-----------------------------------------------------------------------------
(***************************************************************************)
(* Mutants of the handlers below                                           *)
(***************************************************************************)

\* A replacement controller takes over at once.
ctrl_open_replaces(c) ==
    /\ ctlWatched /\ c \notin ctlUp
    /\ ctlUp' = ctlUp \cup {c}
    /\ ctl_state' = "open"
    /\ m_master' = c
    /\ UNCHANGED <<m_slave, dpt_state, dptWatched, ctlWatched, dptUp>>

\* The controller is stored in the switch's pointer.
ctrl_open_stores_slave(c) ==
    /\ ctlWatched /\ c \notin ctlUp
    /\ ctlUp' = ctlUp \cup {c}
    /\ ctl_state' = "open"
    /\ m_slave' = c
    /\ UNCHANGED <<m_master, dpt_state, dptWatched, ctlWatched, dptUp>>

\* A controller is only taken while a switch is attached.
ctrl_open_needs_switch(c) ==
    /\ ctlWatched /\ c \notin ctlUp
    /\ ctlUp' = ctlUp \cup {c}
    /\ ctl_state' = "open"
    /\ m_master' = IF m_slave = NoPeer THEN m_master ELSE c
    /\ UNCHANGED <<m_slave, dpt_state, dptWatched, ctlWatched, dptUp>>

\* A controller not in use closes the path but is otherwise ignored.
ctrl_close_returns_on_mismatch(c) ==
    /\ c \in ctlUp
    /\ ctlUp' = ctlUp \ {c}
    /\ IF c = m_master
       THEN m_master' = NoPeer /\ set_ctl_watcher("closed")
       ELSE ctl_state' = "closed" /\ UNCHANGED <<m_master, ctlWatched>>
    /\ UNCHANGED <<m_slave, dpt_state, dptWatched, dptUp>>

\* A switch is only taken while one is waited for.
dpath_open_only_when_waiting(d) ==
    /\ dptWatched /\ d \notin dptUp
    /\ dptUp' = dptUp \cup {d}
    /\ dpt_state' = "open"
    /\ m_slave' = IF dpt_state = "wait" THEN d ELSE m_slave
    /\ set_ctl_watcher(ctl_state)
    /\ UNCHANGED <<m_master, dptWatched, ctlUp>>

\* The close of a replaced switch is mistaken for that of the one in use.
dpath_close_wrong_side(d) ==
    /\ d \in dptUp
    /\ dptUp' = dptUp \ {d}
    /\ IF d = m_slave
       THEN UNCHANGED <<m_slave, dpt_state, dptWatched>>
       ELSE m_slave' = NoPeer /\ dpt_state' = "closed" /\ UNCHANGED dptWatched
    /\ UNCHANGED <<ctl_state, m_master, ctlWatched, ctlUp>>

-----------------------------------------------------------------------------
(***************************************************************************)
(* The handlers                                                            *)
(***************************************************************************)

\* A second controller is not taken while one is in use.
handle_ctrl_open(c) ==
    /\ ctlWatched /\ c \notin ctlUp
    /\ ctlUp' = ctlUp \cup {c}
    /\ ctl_state' = "open"
    /\ IF m_master # NoPeer
       THEN UNCHANGED <<m_master, dpt_state, dptWatched>>
       ELSE /\ m_master' = c
            /\ IF m_slave = NoPeer
               THEN set_dpt_watcher
               ELSE UNCHANGED <<dpt_state, dptWatched>>
    /\ UNCHANGED <<m_slave, ctlWatched, dptUp>>

\* Whichever controller leaves, the one in use is forgotten.
handle_ctrl_close(c) ==
    /\ c \in ctlUp
    /\ ctlUp' = ctlUp \ {c}
    /\ m_master' = NoPeer
    /\ set_ctl_watcher("closed")
    /\ UNCHANGED <<m_slave, dpt_state, dptWatched, dptUp>>

\* The newest switch always replaces the one in use.
handle_dpath_open(d) ==
    /\ dptWatched /\ d \notin dptUp
    /\ dptUp' = dptUp \cup {d}
    /\ dpt_state' = "open"
    /\ m_slave' = d
    /\ set_ctl_watcher(ctl_state)
    /\ UNCHANGED <<m_master, dptWatched, ctlUp>>

\* The watcher is called before dpt_state is closed: it only acts on a path
\* that was closed already, and what it sets is overwritten.
handle_dpath_close(d) ==
    /\ d \in dptUp
    /\ dptUp' = dptUp \ {d}
    /\ IF d # m_slave
       THEN UNCHANGED <<m_slave, dpt_state, dptWatched>>
       ELSE /\ m_slave' = NoPeer
            /\ dptWatched' = (dptWatched \/ (m_master # NoPeer /\ dpt_state = "closed"))
            /\ dpt_state' = "closed"
    /\ UNCHANGED <<ctl_state, m_master, ctlWatched, ctlUp>>

ControllerOpens  == \E c \in Ctls : handle_ctrl_open(c)
ControllerCloses == \E c \in Ctls : handle_ctrl_close(c)
SwitchOpens      == \E d \in Dpts : handle_dpath_open(d)
SwitchCloses     == \E d \in Dpts : handle_dpath_close(d)

ConnNext == ControllerOpens \/ ControllerCloses \/ SwitchOpens \/ SwitchCloses

ConnSpec == ConnInit /\ [][ConnNext]_connVars

\* Peers that are watched for do connect sooner or later (rofl dials every
\* second, and so do the peers it listens for).  Nothing obliges one to leave.
ConnLiveSpec == ConnSpec /\ WF_connVars(SwitchOpens) /\ WF_connVars(ControllerOpens)

-----------------------------------------------------------------------------
(***************************************************************************)
(* Properties                                                              *)
(***************************************************************************)

\* The proxy never keeps a pointer to a peer rofl has already dropped, however
\* the openings and closings of several peers interleave: the sessions pass
\* m_slave and m_master straight to rofl's send functions.
NoStalePeer ==
    /\ m_slave \in dptUp \cup {NoPeer}
    /\ m_master \in ctlUp \cup {NoPeer}

\* The path states, which decide whether a watcher does anything, agree with
\* the pointers, which decide whether a message is forwarded.
StateMatchesPeer ==
    /\ dpt_state = "open" <=> m_slave # NoPeer
    /\ ctl_state = "open" <=> m_master # NoPeer

\* Once a switch has been attached the controller side is watched, and it stays
\* so whatever closes afterwards; a path is never "wait" without a watch.
ControllerSideWatched ==
    /\ m_slave # NoPeer => ctlWatched
    /\ ctl_state = "closed" <=> ~ctlWatched

\* A controller in use gives way to another only through a state without any:
\* handle_ctrl_open never hands the sessions of one controller to the next.
NoControllerTakeover ==
    [][m_master # NoPeer /\ m_master' # m_master => m_master' = NoPeer]_connVars

\* If the peers keep trying, a proxy without a switch gets one again.
SwitchReturns == (m_slave = NoPeer) ~> (m_slave # NoPeer)

\* If the peers keep trying, a proxy that lost its controller gets one again,
\* also when the one that left was not the one in use.
ControllerReturns == (ctlWatched /\ m_master = NoPeer) ~> (m_master # NoPeer)

\* morpheus.cc:373 "If master is still open try to reconnect": losing the switch
\* while a controller is attached puts the proxy back to waiting for a switch.
ReconnectsToSwitch ==
    [][m_slave # NoPeer /\ m_slave' = NoPeer /\ m_master # NoPeer => dpt_state' = "wait"]_connVars
=============================================================================
