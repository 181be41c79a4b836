---------------------------- MODULE MCFlowTable ----------------------------
(***************************************************************************)
(* Instances of FlowTable.  The map is in the manner of                    *)
(* test/test_flowmod.cc: two ports on VLANs of one actual port, and an     *)
(* untagged one whose actual number is the virtual number of another.      *)
(***************************************************************************)
EXTENDS FlowTable

CONSTANT F  \* a value of the other fields

Match(p) == [in_port |-> p, vlan |-> Wild, field |-> F]

MCPortMap == <<[port |-> 2, vlan |-> 10], [port |-> 2, vlan |-> 11], [port |-> 1, vlan |-> NoVlan]>>

\* Two ports on one actual port, and any port: there a flood ends the process.
MCMatches     == {Match(1), Match(2), Match(Wild)}
MCActionLists == {<<Output(3), SetField, Output(1)>>, <<Flood>>}

OneMatch  == {Match(1)}
FloodList == {<<Flood>>}
=============================================================================
