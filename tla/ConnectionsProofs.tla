------------------------- MODULE ConnectionsProofs -------------------------
(***************************************************************************)
(* The safety properties of Connections for any sets of peers.  Neither    *)
(* the agreement of states and pointers nor the watch of the controller    *)
(* side is inductive alone: handle_dpath_close relies on an open path      *)
(* having a peer, handle_ctrl_open on a watched side not being closed.     *)
(***************************************************************************)
EXTENDS Connections, TLAPS

ConnInv ==
    /\ ConnTypeOK
    /\ NoStalePeer
    /\ StateMatchesPeer
    /\ ControllerSideWatched

\* Construction establishes the invariant.
LEMMA ConnInitInv == ConnInit => ConnInv
  BY PeersAssumption DEF ConnInit, ConnInv, ConnTypeOK, PathStates, NoStalePeer,
     StateMatchesPeer, ControllerSideWatched

\* Each of the four handlers preserves it.
LEMMA ConnNextInv == ConnInv /\ [ConnNext]_connVars => ConnInv'
<1> SUFFICES ASSUME ConnInv, [ConnNext]_connVars PROVE ConnInv'
  OBVIOUS
<1> USE PeersAssumption DEF ConnInv, ConnTypeOK, PathStates, NoStalePeer, StateMatchesPeer,
        ControllerSideWatched
<1>1. ASSUME NEW c \in Ctls, handle_ctrl_open(c) PROVE ConnInv'
  BY <1>1 DEF handle_ctrl_open, set_dpt_watcher
<1>2. ASSUME NEW c \in Ctls, handle_ctrl_close(c) PROVE ConnInv'
  BY <1>2 DEF handle_ctrl_close, set_ctl_watcher
<1>3. ASSUME NEW d \in Dpts, handle_dpath_open(d) PROVE ConnInv'
  BY <1>3 DEF handle_dpath_open, set_ctl_watcher
<1>4. ASSUME NEW d \in Dpts, handle_dpath_close(d) PROVE ConnInv'
  BY <1>4 DEF handle_dpath_close
<1>5. CASE UNCHANGED connVars
  BY <1>5 DEF connVars
<1> QED
  BY <1>1, <1>2, <1>3, <1>4, <1>5 DEF ConnNext, ControllerOpens, ControllerCloses,
     SwitchOpens, SwitchCloses

\* Whatever the peers do, the types, the absence of stale pointers, the agreement
\* of states with pointers and the watch of the controller side hold together.
THEOREM ConnInvariance == ConnSpec => []ConnInv
  BY ConnInitInv, ConnNextInv, PTL DEF ConnSpec

\* No handler leaves a pointer to a peer rofl has dropped.
THEOREM ConnNoStalePeer == ConnSpec => []NoStalePeer
<1>1. ConnInv => NoStalePeer
  BY DEF ConnInv
<1> QED
  BY <1>1, ConnInvariance, PTL

\* The state of a path says "open" exactly when its pointer is set.
THEOREM ConnStateMatchesPeer == ConnSpec => []StateMatchesPeer
<1>1. ConnInv => StateMatchesPeer
  BY DEF ConnInv
<1> QED
  BY <1>1, ConnInvariance, PTL

\* The states, pointers and watches stay within their types.
THEOREM ConnTypes == ConnSpec => []ConnTypeOK
<1>1. ConnInv => ConnTypeOK
  BY DEF ConnInv
<1> QED
  BY <1>1, ConnInvariance, PTL

\* A closed path is always watched, and an attached switch has the controller
\* side watched, so the proxy is not left waiting for nobody.
THEOREM ConnSideWatched == ConnSpec => []ControllerSideWatched
<1>1. ConnInv => ControllerSideWatched
  BY DEF ConnInv
<1> QED
  BY <1>1, ConnInvariance, PTL

\* A controller in use is never replaced in one step.
THEOREM ConnNoTakeover == ConnSpec => NoControllerTakeover
<1>1. ConnInv /\ [ConnNext]_connVars
      => [m_master # NoPeer /\ m_master' # m_master => m_master' = NoPeer]_connVars
  BY DEF ConnNext, ControllerOpens, ControllerCloses, SwitchOpens, SwitchCloses,
     handle_ctrl_open, handle_ctrl_close, handle_dpath_open, handle_dpath_close
<1> QED
  BY <1>1, ConnInvariance, PTL DEF ConnSpec, NoControllerTakeover
=============================================================================
