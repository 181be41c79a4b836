------------------------------ MODULE Packets ------------------------------
(***************************************************************************)
(* Packets and ports.  A packet that a switch hands up comes to the        *)
(* controller as from a virtual port (csh_packet_in.cc); packets that      *)
(* controllers send out of virtual ports go to the switch with a list of   *)
(* actions for each output (csh_packet_out.cc); a port_mod goes to the     *)
(* actual port (csh_port_mod.cc), a set_config as it came to the switch in *)
(* use (csh_set_config.cc).  None of these leaves a session behind.        *)
(*                                                                         *)
(* The hosts, the switch and the controllers are the environment.  A       *)
(* packet comes in at most once; it has the tag of its VLAN, which the     *)
(* proxy takes off, and may have another under it.  A connection that      *)
(* closes loses what is under way on it, and the switch may drop what it   *)
(* is told to send.  As OpenFlow 1.0 has it, a switch sends nothing out of *)
(* the port that the packet_out names as its in_port.                      *)
(***************************************************************************)
EXTENDS Connections, Translation, FiniteSets

CONSTANTS
    PacketIds,            \* the packets
    Arrivals,             \* where, and how tagged, packets come in
    ActionLists,          \* the actions of the controllers' packet_outs
    InPorts,              \* the in_ports of these: virtual ports, or none (NONE)
    port_config_handling, \* what the configuration says of port_mods
    DEBUG,                \* TRUE: built with assertions
    MaxOrders             \* bound: messages of controllers

VlanTags  == Nat \cup {NoVlan}
Arrival   == [port : Nat \ {0}, vlan : VlanTags, inner : VlanTags]
Handlings == {"drop", "passthrough", "hardware"}

\* An action type OpenFlow does not know.
Unknown == [type |-> "unknown", arg |-> 0]

ASSUME PacketsAssumption ==
    /\ Arrivals \subseteq Arrival
    /\ ActionLists \subseteq Seq(Action \cup {Unknown})
    /\ InPorts \subseteq Nat
    /\ port_config_handling \in Handlings
    /\ DEBUG \in BOOLEAN
    /\ MaxOrders \in Nat

VARIABLES
    inbound,    \* packet_ins under way to the proxy
    shown,      \* what the controllers know: packets they were shown
    channel,    \* what is under way to each switch, oldest first
    emitted,    \* history: what left the switches, and where
    arrived,    \* history: what came in
    asked,      \* history: the packet_outs of controllers that the proxy took on
    modified,   \* history: the virtual ports of the controllers' port_mods
    changed,    \* history: the actual ports a switch was told to change
    orders,     \* history: how often controllers asked for anything
    lost,       \* history: was anything lost but by the proxy?
    fault       \* "none", or how the process went wrong

pktVars ==
    <<inbound, shown, channel, emitted, arrived, asked, modified, changed, orders, lost, fault>>
vars == <<connVars, pktVars>>

PacketIn  == [dpt : Dpts, packet : PacketIds, at : Arrival]
Shown     == [ctl : Ctls, packet : PacketIds, in_port : VirtualPorts, tag : VlanTags]
Emission  == [dpt : Dpts, packet : PacketIds, port : Nat, vlan : VlanTags]
Order     == [dpt : Dpts, packet : PacketIds, tag : VlanTags, in_port : InPorts,
              actions : ActionLists]

PacketOut(pkt, tag, in_port, actions) ==
    [type |-> "packet_out", packet |-> pkt, tag |-> tag, in_port |-> in_port, actions |-> actions]
PortMod(port) == [type |-> "port_mod", port |-> port]
SetConfig     == [type |-> "set_config"]

PktTypeOK ==
    /\ inbound \subseteq PacketIn
    /\ shown \subseteq Shown
    /\ DOMAIN channel = Dpts
    /\ \A d \in Dpts : \A i \in DOMAIN channel[d] :
         LET m == channel[d][i] IN
         CASE m.type = "packet_out" ->
                m.packet \in PacketIds /\ m.tag \in VlanTags /\ m.in_port \in InPorts
           [] m.type = "port_mod"   -> m.port \in Nat
           [] OTHER                 -> m = SetConfig
    /\ emitted \subseteq Emission
    /\ arrived \subseteq PacketIn
    /\ asked \subseteq Order
    /\ modified \subseteq VirtualPorts
    /\ changed \subseteq Nat
    /\ orders \in 0 .. MaxOrders
    /\ lost \in BOOLEAN
    /\ fault \in {"none", "out_of_range", "assertion", "double_free"}

Init ==
    /\ ConnInit
    /\ inbound = {} /\ shown = {}
    /\ channel = [d \in Dpts |-> <<>>]
    /\ emitted = {} /\ arrived = {} /\ asked = {}
    /\ modified = {} /\ changed = {}
    /\ orders = 0
    /\ lost = FALSE
    /\ fault = "none"

Running == fault = "none"

\* What the FORWARD template makes of an eInval: assert, or free twice.
Unhandled == IF DEBUG THEN "assertion" ELSE "double_free"

\* Mutant: no fault is caught.
uncaught_any(f) == IF f = "none" THEN fault ELSE f

\* Errors are reported to the controller, but nothing catches an out_of_range.
uncaught(f) == IF f = "out_of_range" THEN f ELSE fault

-----------------------------------------------------------------------------
(***************************************************************************)
(* Packets coming in                                                       *)
(***************************************************************************)
Spec(at) == [port |-> at.port, vlan |-> at.vlan]

\* The switch hands the packet to the proxy.
PacketArrives(d, pkt, at) ==
    LET p == [dpt |-> d, packet |-> pkt, at |-> at] IN
    /\ Running /\ d \in dptUp
    /\ \A q \in arrived : q.packet # pkt
    /\ inbound' = inbound \cup {p}
    /\ arrived' = arrived \cup {p}
    /\ UNCHANGED <<connVars, shown, channel, emitted, asked, modified, changed, orders, lost, fault>>

\* Mutant: the tag of the virtual port stays on the packet.
packet_in_keeps_tag(p) ==
    LET vports == actual_to_virtual_map(Spec(p.at)) IN
    /\ Running
    /\ inbound' = inbound \ {p}
    /\ lost' = (lost \/ ~Connected)
    /\ shown' = IF ~Connected \/ Cardinality(vports) # 1 THEN shown
                ELSE shown \cup {[ctl |-> m_master, packet |-> p.packet, in_port |-> v,
                                  tag |-> p.at.vlan] : v \in vports}
    /\ UNCHANGED <<connVars, channel, emitted, arrived, asked, modified, changed, orders, fault>>

\* Mutant: the packet is shown as from any virtual port that stands for its own.
packet_in_any_port(p) ==
    LET vports == actual_to_virtual_map(Spec(p.at)) IN
    /\ Running
    /\ inbound' = inbound \ {p}
    /\ lost' = (lost \/ ~Connected)
    /\ shown' = IF ~Connected THEN shown
                ELSE shown \cup {[ctl |-> m_master, packet |-> p.packet, in_port |-> v,
                                  tag |-> p.at.inner] : v \in vports}
    /\ UNCHANGED <<connVars, channel, emitted, arrived, asked, modified, changed, orders, fault>>

\* The packet is shown without its tag to the controller in use, if there is one
\* and if exactly one virtual port stands for where it came in.
handle_packet_in(p) ==
    LET vports == actual_to_virtual_map(Spec(p.at)) IN
    /\ Running
    /\ inbound' = inbound \ {p}
    /\ lost' = (lost \/ ~Connected)
    /\ shown' = IF ~Connected \/ Cardinality(vports) # 1 THEN shown
                ELSE shown \cup {[ctl |-> m_master, packet |-> p.packet, in_port |-> v,
                                  tag |-> p.at.inner] : v \in vports}
    /\ UNCHANGED <<connVars, channel, emitted, arrived, asked, modified, changed, orders, fault>>

-----------------------------------------------------------------------------
(***************************************************************************)
(* Packets going out                                                       *)
(***************************************************************************)

\* What is wrong with an action; a refused one is found before the others.
out_fault(a) ==
    CASE a.type = "output" /\ a.arg = 0               -> "out_of_range"
      [] a.type = "output" /\ a.arg \notin VirtualPorts -> "bad_out_port"
      [] a = Unknown                                  -> "eperm"
      [] OTHER                                        -> "none"

\* The action the processing stops at, or the end of the list.
stop_at(actions) ==
    LET faulty == {i \in DOMAIN actions : out_fault(actions[i]) # "none"}
    IN  IF faulty = {} THEN Len(actions) + 1
        ELSE CHOOSE i \in faulty : \A j \in faulty : i <= j

\* masteroutlist when the i-th action is reached: the fields rewritten by then.
masteroutlist(actions, i) ==
    SE!FlattenSeq([j \in 1 .. i - 1 |->
        IF actions[j].type = "set_field" THEN <<actions[j]>> ELSE <<>>])

out_list(a) == IF a.type = "flood" THEN flood(VirtualPorts) ELSE trans_output(a.arg)

Outputs(actions) ==
    {i \in DOMAIN actions : i < stop_at(actions) /\ actions[i].type \in {"output", "flood"}}

\* Mutant: the lists of earlier outputs stay in masteroutlist.
packet_outs_accumulate(pkt, tag, in_port, actions) ==
    SE!FlattenSeq([i \in DOMAIN actions |->
        IF i \notin Outputs(actions) THEN <<>>
        ELSE <<PacketOut(pkt, tag, in_port,
                 SE!FlattenSeq([j \in 1 .. i |->
                   IF j \in Outputs(actions) THEN out_list(actions[j]) ELSE <<actions[j]>>]))>>])

\* For each output a packet_out of its own; what precedes a fault has been sent.
\* The in_port stays the virtual one: it is not translated.
packet_outs(pkt, tag, in_port, actions) ==
    SE!FlattenSeq([i \in DOMAIN actions |->
        IF i \notin Outputs(actions) THEN <<>>
        ELSE <<PacketOut(pkt, tag, in_port, masteroutlist(actions, i) \o out_list(actions[i]))>>])

Refuses(actions) == \E i \in DOMAIN actions : actions[i].type = "refused"

Floods(actions) == \E i \in Outputs(actions) : actions[i].type = "flood"

\* A controller sends out a packet it was shown, as part of the message or as
\* buffered by the switch, and says where the packet came from.
handle_packet_out(s, in_port, actions, buffered) ==
    LET after == IF stop_at(actions) \in DOMAIN actions
                 THEN out_fault(actions[stop_at(actions)]) ELSE "none"
    IN
    /\ Running /\ s.ctl \in ctlUp /\ orders < MaxOrders
    /\ orders' = orders + 1
    /\ IF ~Connected
       THEN UNCHANGED <<channel, asked, fault>>
       ELSE IF buffered \/ Refuses(actions)
       THEN /\ fault' = IF DEBUG THEN "assertion" ELSE fault
            /\ UNCHANGED <<channel, asked>>
       ELSE /\ channel' = [channel EXCEPT ![m_slave] =
                              @ \o packet_outs(s.packet, s.tag, in_port, actions)]
            /\ asked' = asked \cup
                 {[dpt |-> m_slave, packet |-> s.packet, tag |-> s.tag, in_port |-> in_port,
                   actions |-> actions]}
            /\ fault' = uncaught(after)
    /\ UNCHANGED <<connVars, inbound, shown, emitted, arrived, modified, changed, lost>>

\* Mutant: the port of the port_mod is taken for an actual one.
port_mod_as_it_came(port) == port

\* The port of the switch that a port_mod for a virtual port is about.
real_port(port) == get_actual_port(port).port

\* port is virtual, and may be any number; a port there is not is answered by
\* an error.  No hardware manager handles a port_mod.
handle_port_mod(c, port) ==
    /\ Running /\ c \in ctlUp /\ orders < MaxOrders
    /\ orders' = orders + 1
    /\ IF ~Connected \/ port_config_handling = "drop"
       THEN UNCHANGED <<channel, modified, fault>>
       ELSE IF port_config_handling = "hardware"
       THEN fault' = Unhandled /\ UNCHANGED <<channel, modified>>
       ELSE IF port \notin VirtualPorts
       THEN UNCHANGED <<channel, modified, fault>>
       ELSE /\ channel' = [channel EXCEPT ![m_slave] = Append(@, PortMod(real_port(port)))]
            /\ modified' = modified \cup {port}
            /\ UNCHANGED fault
    /\ UNCHANGED <<connVars, inbound, shown, emitted, arrived, asked, changed, lost>>

\* A set_config goes as it came to the switch in use.
handle_set_config(c) ==
    /\ Running /\ c \in ctlUp /\ orders < MaxOrders
    /\ orders' = orders + 1
    /\ channel' = IF ~Connected THEN channel
                  ELSE [channel EXCEPT ![m_slave] = Append(@, SetConfig)]
    /\ UNCHANGED <<connVars, inbound, shown, emitted, arrived, asked, modified, changed, lost, fault>>

-----------------------------------------------------------------------------
(***************************************************************************)
(* The switch, and connections that come and go                            *)
(***************************************************************************)
SwitchObeys(d) ==
    /\ Running /\ d \in dptUp /\ channel[d] # <<>>
    /\ channel' = [channel EXCEPT ![d] = Tail(@)]
    /\ LET m    == Head(channel[d])
           sent == IF m.type # "packet_out" THEN {}
                   ELSE {[dpt |-> d, packet |-> m.packet, port |-> e.port, vlan |-> e.vlan] :
                            e \in {x \in Emissions(m.tag, m.actions) : x.port # m.in_port}}
           told == IF m.type = "port_mod" THEN {m.port} ELSE {}
       IN  \/ /\ emitted' = emitted \cup sent
              /\ changed' = changed \cup told
              /\ UNCHANGED lost
           \/ UNCHANGED <<emitted, changed>> /\ lost' = TRUE
    /\ UNCHANGED <<connVars, inbound, shown, arrived, asked, modified, orders, fault>>

PeersComeAndGo ==
    /\ Running /\ (SwitchOpens \/ ControllerOpens \/ ControllerCloses)
    /\ UNCHANGED pktVars

SwitchLeaves(d) ==
    /\ Running /\ handle_dpath_close(d)
    /\ inbound' = {p \in inbound : p.dpt # d}
    /\ channel' = [channel EXCEPT ![d] = <<>>]
    /\ lost' = (lost \/ inbound' # inbound \/ channel' # channel)
    /\ UNCHANGED <<shown, emitted, arrived, asked, modified, changed, orders, fault>>

Next ==
    \/ \E d \in Dpts, pkt \in PacketIds, at \in Arrivals : PacketArrives(d, pkt, at)
    \/ \E p \in inbound : handle_packet_in(p)
    \/ \E s \in shown, in_port \in InPorts, actions \in ActionLists, buffered \in BOOLEAN :
         handle_packet_out(s, in_port, actions, buffered)
    \/ \E c \in Ctls, port \in 0 .. Len(PortMap) + 1 : handle_port_mod(c, port)
    \/ \E c \in Ctls : handle_set_config(c)
    \/ \E d \in Dpts : SwitchObeys(d) \/ SwitchLeaves(d)
    \/ PeersComeAndGo

PktSpec == Init /\ [][Next]_vars

-----------------------------------------------------------------------------
(***************************************************************************)
(* Properties                                                              *)
(***************************************************************************)

\* A packet is shown as from a virtual port only if it came in at its actual
\* port with its tag, which has been taken off: no other VLAN's packet is shown.
ShownWhereItArrived ==
    \A s \in shown : \E p \in arrived :
        /\ p.packet = s.packet
        /\ Spec(p.at) = get_actual_port(s.in_port)
        /\ p.at.inner = s.tag

\* A packet is never shown as from two ports, though two virtual ports may stand
\* for one actual port and VLAN, and though controllers and switches change: a
\* controller that learns from it learns one place.
ShownAsOnePort ==
    \A s, t \in shown : s.packet = t.packet => s.in_port = t.in_port

\* A switch changes an actual port only if a controller wanted a virtual port of it
\* changed: never the port that has the number of the virtual one.
ChangedAsAsked ==
    \A a \in changed : \E v \in modified : get_actual_port(v).port = a

\* Where a packet_out asks for its packet, by outputs that nothing wrong precedes.
\* A flood is meant for all ports "except input port" (csh_packet_out.cc:104-105).
Targets(o) ==
    {p \in VirtualPorts : \E i \in Outputs(o.actions) :
        (o.actions[i].type = "flood" /\ p # o.in_port) \/ o.actions[i] = Output(p)}

\* Departure: the loop over the virtual ports does not leave out the input port.
Reflected(o) == {p \in VirtualPorts : p = o.in_port /\ Floods(o.actions)}

\* Departure: the switch takes the virtual in_port for an actual port, and sends
\* nothing out of the port that happens to have this number.
Suppressed(o, p) == get_actual_port(p).port = o.in_port

\* e leaves the switch that order o went to, as virtual port p of the order.
LeavesAs(e, o, p) ==
    /\ e.dpt = o.dpt /\ e.packet = o.packet
    /\ e.port = get_actual_port(p).port
    /\ e.vlan = IF Tagged(p) THEN get_actual_port(p).vlan ELSE o.tag

\* A packet_out on its way that will send what order o wants sent as p.
Carries(m, o, p) ==
    /\ m.type = "packet_out" /\ m.packet = o.packet /\ m.in_port = o.in_port
    /\ \E e \in Emissions(m.tag, m.actions) :
         /\ e.port = get_actual_port(p).port
         /\ e.vlan = IF Tagged(p) THEN get_actual_port(p).vlan ELSE o.tag

\* What leaves a switch was asked of that switch, and has the tag of that virtual
\* port, whatever the other outputs of the list and though the switch in use may
\* have been replaced: no packet gets to a VLAN it was not sent to.  The input port
\* of a flood is excused (FloodSparesInput).
LeavesWhereAsked ==
    \A e \in emitted : \E o \in asked : \E p \in Targets(o) \cup Reflected(o) : LeavesAs(e, o, p)

\* csh_packet_out.cc:104-105: "FLOOD == "All physical ports except input port and
\* those disabled by STP."", "ALL == "All physical ports except input port."": a
\* packet does not go back to the virtual port it came from.
FloodSparesInput ==
    \A e \in emitted : \E o \in asked : \E p \in Targets(o) : LeavesAs(e, o, p)

\* Unless a connection or the switch loses something, every packet of a known
\* port gets to a controller, and every output asked for is sent with its tag,
\* though an error follows it in the list, except where Suppressed says so.
NothingVanishes ==
    ~lost =>
        /\ \A p \in arrived : Cardinality(actual_to_virtual_map(Spec(p.at))) = 1 =>
             p \in inbound \/ \E s \in shown : s.packet = p.packet
        /\ \A o \in asked : \A p \in Targets(o) :
             \/ Suppressed(o, p)
             \/ \E e \in emitted : LeavesAs(e, o, p)
             \/ \E i \in DOMAIN channel[o.dpt] : Carries(channel[o.dpt][i], o, p)
=============================================================================
