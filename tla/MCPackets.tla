----------------------------- MODULE MCPackets -----------------------------
(***************************************************************************)
(* An instance of Packets: the map of MCFlowTable, and two virtual ports   *)
(* for one actual port and VLAN, which nothing in a configuration forbids. *)
(***************************************************************************)
EXTENDS Packets, TLC

\* Nothing tells one packet, or one switch, from the other.
MCSymmetry == Permutations(PacketIds) \cup Permutations(Dpts)

MCPortMap ==
    <<[port |-> 2, vlan |-> 10], [port |-> 2, vlan |-> 11], [port |-> 1, vlan |-> NoVlan],
      [port |-> 2, vlan |-> 12], [port |-> 2, vlan |-> 12]>>

\* Untagged, tagged with a second tag, for two virtual ports, and for none.
MCArrivals ==
    {[port |-> 1, vlan |-> NoVlan, inner |-> NoVlan], [port |-> 2, vlan |-> 10, inner |-> 11],
     [port |-> 2, vlan |-> 12, inner |-> NoVlan], [port |-> 3, vlan |-> 10, inner |-> NoVlan]}

\* Virtual port 1, which has the number of an actual port, and NONE.
MCInPorts == {1, 65535}

\* An untagged output after a tagged one, a flood, and each kind of fault.
MCActionLists ==
    {<<Output(1), SetField, Output(3), Unknown, Output(2)>>, <<Flood, Output(2)>>,
     <<Output(2), Output(0)>>, <<Output(1), Output(9), Output(2)>>, <<Output(1), Refused>>}
=============================================================================
