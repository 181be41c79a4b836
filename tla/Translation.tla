---------------------------- MODULE Translation ----------------------------
(***************************************************************************)
(* From virtual ports to actual ones.  The controller sees virtual ports,  *)
(* numbered from 1; each stands for a port of the switch, with a VLAN tag  *)
(* of its own or untagged.  cportvlan_mapper.h holds the map, the methods  *)
(* of flow_entry_translate.cc apply it to the match and to the actions of  *)
(* a flow-mod.                                                             *)
(*                                                                         *)
(* Virtual and actual ports are numbers alike, as in the code: nothing but *)
(* the code's care keeps one from being taken for the other.               *)
(***************************************************************************)
EXTENDS Integers, Sequences

CONSTANTS
    PortMap,  \* m_virtual_to_abstract: the actual port of each virtual one
    NoVlan,   \* NO_VLAN
    Wild      \* the value of a match field that is wildcarded

SE == INSTANCE SequencesExt

PortSpec == [port : Nat \ {0}, vlan : Nat \cup {NoVlan}]

ASSUME MapperAssumption ==
    /\ PortMap \in Seq(PortSpec)
    /\ NoVlan \notin Nat /\ Wild \notin Nat

-----------------------------------------------------------------------------
(***************************************************************************)
(* The mapper                                                              *)
(***************************************************************************)
VirtualPorts == 1 .. Len(PortMap)

\* For p outside VirtualPorts the code throws out_of_range.
get_actual_port(p) == PortMap[p]

Tagged(p) == get_actual_port(p).vlan # NoVlan

\* The virtual ports that stand for the actual port a.
actual_to_virtual_map(a) == {p \in VirtualPorts : get_actual_port(p) = a}

-----------------------------------------------------------------------------
(***************************************************************************)
(* Matches: the input port, the VLAN, and one field for all the others     *)
(***************************************************************************)

\* Does m1 cover all that m2 matches?  If strict, is it the same match?
contains(m1, m2, strict) ==
    IF strict THEN m1 = m2
    ELSE \A f \in {"in_port", "vlan", "field"} : m1[f] = Wild \/ m1[f] = m2[f]

\* The input port of an unknown number is sent on as it is.
trans_match(m) ==
    IF m.in_port \in VirtualPorts
    THEN LET a == get_actual_port(m.in_port)
         IN  [m EXCEPT !.in_port = a.port, !.vlan = IF a.vlan = NoVlan THEN m.vlan ELSE a.vlan]
    ELSE m

-----------------------------------------------------------------------------
(***************************************************************************)
(* Actions                                                                 *)
(***************************************************************************)
Output(p)  == [type |-> "output", arg |-> p]
SetVlan(v) == [type |-> "set_vlan", arg |-> v]
StripVlan  == [type |-> "strip_vlan", arg |-> NoVlan]
Flood      == [type |-> "flood", arg |-> 0]       \* OUTPUT to FLOOD or to ALL
SetField   == [type |-> "set_field", arg |-> 0]   \* rewrites a header field
Refused    == [type |-> "refused", arg |-> 0]     \* VLANs, queues, vendor's, unsupported

\* What controllers may give, and what a switch may be told.
Action       == [type : {"output"}, arg : Nat] \cup {Flood, SetField, Refused}
SwitchAction == Action \cup [type : {"set_vlan"}, arg : Nat] \cup {StripVlan}

\* Mutant: the packet is tagged once it has left.
output_before_tag(p) ==
    LET a == get_actual_port(p)
    IN  IF Tagged(p) THEN <<Output(a.port), SetVlan(a.vlan)>> ELSE <<Output(a.port)>>

\* An output to a virtual port: tag the packet if its port is tagged.
trans_output(p) ==
    LET a == get_actual_port(p)
    IN  IF Tagged(p) THEN <<SetVlan(a.vlan), Output(a.port)>> ELSE <<Output(a.port)>>

\* A list of outputs to the given virtual ports, in their order.
OutputsOn(ports) ==
    SE!FlattenSeq([p \in VirtualPorts |-> IF p \in ports THEN trans_output(p) ELSE <<>>])

\* Mutant: the outputs to untagged ports are collected, and left out.
flood_tagged_only(ports) ==
    LET tagged == {p \in ports : Tagged(p)}
    IN  OutputsOn(tagged) \o (IF tagged # {} THEN <<StripVlan>> ELSE <<>>)

\* A flood of ports: the untagged ones, the tagged ones, and the tag is taken off.
flood(ports) ==
    LET tagged == {p \in ports : Tagged(p)}
    IN  OutputsOn(ports \ tagged) \o OutputsOn(tagged)
        \o (IF tagged # {} THEN <<StripVlan>> ELSE <<>>)

\* The port left out is the one whose actual number is the match's virtual number.
trans_flood(in_port) == flood({p \in VirtualPorts : get_actual_port(p).port # in_port})

trans_action(a, m) ==
    CASE a.type = "output" -> trans_output(a.arg)
      [] a.type = "flood"  -> trans_flood(m.in_port)
      [] OTHER             -> <<a>>

\* What stops the translation of action a, if anything does.
action_fault(a, m) ==
    CASE a.type = "refused"                               -> "eInval"
      [] a.type = "output" /\ a.arg \notin VirtualPorts   -> "out_of_range"
      [] a.type = "flood" /\ m.in_port = Wild /\ VirtualPorts # {} -> "eOFmatchNotFound"
      [] OTHER                                            -> "none"

trans_actions(actions, m) ==
    SE!FlattenSeq([i \in DOMAIN actions |-> trans_action(actions[i], m)])

\* What stops the translation of a flow-mod: the first of its actions at fault,
\* then a match on the VLAN.  valid: are the switch's supported actions known?
trans_fault(actions, m, valid) ==
    LET faulty == {i \in DOMAIN actions : action_fault(actions[i], m) # "none"}
        first  == CHOOSE i \in faulty : \A j \in faulty : i <= j
    IN  IF actions # <<>> /\ ~valid THEN "eInval"
        ELSE IF faulty # {}         THEN action_fault(actions[first], m)
        ELSE IF m.vlan # Wild       THEN "eInval"
        ELSE "none"

-----------------------------------------------------------------------------
(***************************************************************************)
(* What the switch does with a packet                                      *)
(***************************************************************************)

\* The tag a packet that came in with tag carries before the j-th action.
TagAt(tag, actions, j) ==
    LET marks == {k \in 1 .. j - 1 : actions[k].type \in {"set_vlan", "strip_vlan"}}
    IN  IF marks = {} THEN tag
        ELSE actions[CHOOSE k \in marks : \A l \in marks : l <= k].arg

\* Where the packet leaves, and with which tag.
Emissions(tag, actions) ==
    {[port |-> actions[j].arg, vlan |-> TagAt(tag, actions, j)] :
        j \in {i \in DOMAIN actions : actions[i].type = "output"}}
=============================================================================
