--------------------------- MODULE PacketsProofs ---------------------------
(***************************************************************************)
(* What Packets promises for any number of peers and packets and for any   *)
(* map: the connections behave as Connections says, a packet is shown to a *)
(* controller only as from the virtual port it came in at, and as from one *)
(* port only, a switch changes the ports it was meant to change, a packet  *)
(* leaves where it was sent with the tag it should have, and none is gone  *)
(* for no reason.                                                          *)
(*                                                                         *)
(* For the last two the list of actions of every packet_out under way is   *)
(* known to send to the ports it was asked for (OutInv, Kept): that is     *)
(* what TranslationProofs says of lists flattened from lists.              *)
(***************************************************************************)
EXTENDS Packets, ConnectionsProofs, TranslationProofs, FiniteSetTheorems

\* The packets are handled beside the connections and never instead: each step
\* of the proxy is one of Connections or leaves the connections alone.
THEOREM PacketsRefineConn == PktSpec => ConnSpec
<1>1. Init => ConnInit
  BY DEF Init
<1>2. [Next]_vars => [ConnNext]_connVars
  <2> SUFFICES ASSUME [Next]_vars PROVE [ConnNext]_connVars
    OBVIOUS
  <2>1. CASE UNCHANGED vars
    BY <2>1 DEF vars
  <2>2. ASSUME NEW d \in Dpts, NEW pkt \in PacketIds, NEW at \in Arrivals,
               PacketArrives(d, pkt, at)
        PROVE  UNCHANGED connVars
    BY <2>2 DEF PacketArrives
  <2>3. ASSUME NEW p \in inbound, handle_packet_in(p)
        PROVE  UNCHANGED connVars
    BY <2>3 DEF handle_packet_in
  <2>4. ASSUME NEW s \in shown, NEW in_port \in InPorts, NEW actions \in ActionLists,
               NEW buffered \in BOOLEAN, handle_packet_out(s, in_port, actions, buffered)
        PROVE  UNCHANGED connVars
    BY <2>4 DEF handle_packet_out
  <2>5. ASSUME NEW c \in Ctls, NEW port \in 0 .. Len(PortMap) + 1, handle_port_mod(c, port)
        PROVE  UNCHANGED connVars
    BY <2>5 DEF handle_port_mod
  <2>6. ASSUME NEW d \in Dpts, SwitchObeys(d)
        PROVE  UNCHANGED connVars
    BY <2>6 DEF SwitchObeys
  <2>7. ASSUME NEW d \in Dpts, SwitchLeaves(d)
        PROVE  ConnNext
    BY <2>7 DEF SwitchLeaves, ConnNext, SwitchCloses
  <2>8. CASE PeersComeAndGo
    BY <2>8 DEF PeersComeAndGo, ConnNext
  <2>9. ASSUME NEW c \in Ctls, handle_set_config(c)
        PROVE  UNCHANGED connVars
    BY <2>9 DEF handle_set_config
  <2> QED
    BY <2>1, <2>2, <2>3, <2>4, <2>5, <2>6, <2>7, <2>8, <2>9 DEF Next
<1> QED
  BY <1>1, <1>2, PTL DEF PktSpec, ConnSpec

-----------------------------------------------------------------------------
(***************************************************************************)
(* Packets that come in                                                    *)
(***************************************************************************)

\* What is under way to the proxy has come in somewhere.
InboundArrived == inbound \subseteq arrived

\* A packet comes in but once.
ArrivedOnce == \A p, q \in arrived : p.packet = q.packet => p = q

\* What a controller was shown came in, at an actual port that exactly one virtual
\* port stands for.
ShownAsItArrived ==
    \A s \in shown : \E p \in arrived :
        /\ p.packet = s.packet
        /\ s.in_port \in actual_to_virtual_map(Spec(p.at))
        /\ Cardinality(actual_to_virtual_map(Spec(p.at))) = 1
        /\ p.at.inner = s.tag

PktInv == InboundArrived /\ ArrivedOnce /\ ShownAsItArrived

\* PktInv holds as long as what controllers know only grows by what
\* handle_packet_in takes from the packets that came in.
LEMMA PktInvariance == PktSpec => []PktInv
<1>1. Init => PktInv
  BY DEF Init, PktInv, InboundArrived, ArrivedOnce, ShownAsItArrived
<1>2. PktInv /\ [Next]_vars => PktInv'
  <2> SUFFICES ASSUME PktInv, [Next]_vars PROVE PktInv'
    OBVIOUS
  <2> USE DEF PktInv, InboundArrived
  <2>1. ASSUME UNCHANGED <<shown, arrived>>, inbound' \subseteq inbound
        PROVE  PktInv'
    BY <2>1 DEF ShownAsItArrived, ArrivedOnce
  <2>2. CASE UNCHANGED vars
    BY <2>1, <2>2 DEF vars, pktVars
  <2>3. ASSUME NEW d \in Dpts, NEW pkt \in PacketIds, NEW at \in Arrivals,
               PacketArrives(d, pkt, at)
        PROVE  PktInv'
    <3>1. InboundArrived'
      BY <2>3 DEF PacketArrives
    <3>2. ShownAsItArrived'
      BY <2>3 DEF PacketArrives, ShownAsItArrived
    <3>3. ArrivedOnce'
      BY <2>3 DEF PacketArrives, ArrivedOnce
    <3> QED
      BY <3>1, <3>2, <3>3
  <2>4. ASSUME NEW p \in inbound, handle_packet_in(p)
        PROVE  PktInv'
    <3>1. UNCHANGED arrived /\ inbound' = inbound \ {p}
      BY <2>4 DEF handle_packet_in
    <3>2. ASSUME NEW s \in shown', s \notin shown
          PROVE  /\ p.packet = s.packet
                 /\ s.in_port \in actual_to_virtual_map(Spec(p.at))
                 /\ Cardinality(actual_to_virtual_map(Spec(p.at))) = 1
                 /\ p.at.inner = s.tag
      BY <2>4, <3>2 DEF handle_packet_in
    <3>3. p \in arrived'
      BY <3>1
    <3>4. ArrivedOnce'
      BY <3>1 DEF ArrivedOnce
    <3>5. ShownAsItArrived'
      BY <3>1, <3>2, <3>3 DEF ShownAsItArrived
    <3> QED
      BY <3>1, <3>4, <3>5
  <2>5. ASSUME NEW s \in shown, NEW in_port \in InPorts, NEW actions \in ActionLists,
               NEW buffered \in BOOLEAN, handle_packet_out(s, in_port, actions, buffered)
        PROVE  PktInv'
    BY <2>1, <2>5 DEF handle_packet_out
  <2>6. ASSUME NEW c \in Ctls, NEW port \in 0 .. Len(PortMap) + 1, handle_port_mod(c, port)
        PROVE  PktInv'
    BY <2>1, <2>6 DEF handle_port_mod
  <2>7. ASSUME NEW d \in Dpts, SwitchObeys(d)
        PROVE  PktInv'
    BY <2>1, <2>7 DEF SwitchObeys
  <2>8. ASSUME NEW d \in Dpts, SwitchLeaves(d)
        PROVE  PktInv'
    BY <2>1, <2>8 DEF SwitchLeaves
  <2>9. CASE PeersComeAndGo
    BY <2>1, <2>9 DEF PeersComeAndGo, pktVars
  <2>10. ASSUME NEW c \in Ctls, handle_set_config(c)
         PROVE  PktInv'
    BY <2>1, <2>10 DEF handle_set_config
  <2> QED
    BY <2>2, <2>3, <2>4, <2>5, <2>6, <2>7, <2>8, <2>9, <2>10 DEF Next
<1> QED
  BY <1>1, <1>2, PTL DEF PktSpec

\* No controller is shown a packet as from a virtual port whose actual port and
\* tag it did not have when it came in.
THEOREM PacketsShown == PktSpec => []ShownWhereItArrived
<1>1. PktInv => ShownWhereItArrived
  BY DEF PktInv, ShownAsItArrived, ShownWhereItArrived, actual_to_virtual_map
<1> QED
  BY <1>1, PktInvariance, PTL

\* A single virtual port, if only one stands for the actual port a.
LEMMA OneVirtualPort ==
    ASSUME NEW a, Cardinality(actual_to_virtual_map(a)) = 1,
           NEW v \in actual_to_virtual_map(a), NEW w \in actual_to_virtual_map(a)
    PROVE  v = w
<1>1. IsFiniteSet(VirtualPorts)
  BY MapperAssumption, FS_Interval, LenProperties DEF VirtualPorts
<1>2. IsFiniteSet(actual_to_virtual_map(a))
  BY <1>1, FS_Subset DEF actual_to_virtual_map
<1>3. PICK x : actual_to_virtual_map(a) = {x}
  BY <1>2, FS_Singleton
<1> QED
  BY <1>3

\* No two controllers, nor one at two times, are shown a packet as from two ports.
THEOREM PacketsShownOnce == PktSpec => []ShownAsOnePort
<1>1. PktInv => ShownAsOnePort
  <2> SUFFICES ASSUME PktInv, NEW s \in shown, NEW t \in shown, s.packet = t.packet
               PROVE  s.in_port = t.in_port
    BY DEF ShownAsOnePort
  <2>1. PICK p \in arrived : /\ p.packet = s.packet
                             /\ s.in_port \in actual_to_virtual_map(Spec(p.at))
                             /\ Cardinality(actual_to_virtual_map(Spec(p.at))) = 1
    BY DEF PktInv, ShownAsItArrived
  <2>2. PICK q \in arrived : /\ q.packet = t.packet
                             /\ t.in_port \in actual_to_virtual_map(Spec(q.at))
    BY DEF PktInv, ShownAsItArrived
  <2>3. p = q
    BY <2>1, <2>2 DEF PktInv, ArrivedOnce
  <2> QED
    BY <2>1, <2>2, <2>3, OneVirtualPort
<1> QED
  BY <1>1, PktInvariance, PTL
-----------------------------------------------------------------------------
(***************************************************************************)
(* What becomes of a packet_out                                            *)
(***************************************************************************)

\* The virtual ports an output is for.
Wants(a) == IF a.type = "flood" THEN VirtualPorts ELSE {a.arg}

\* The actions a packet_out of the proxy has for the i-th action it is made from.
Sent(actions, i) == masteroutlist(actions, i) \o out_list(actions[i])

\* Nothing is wrong with the outputs that are obeyed.
LEMMA OutputsFaultless ==
    ASSUME NEW actions \in ActionLists, NEW i \in Outputs(actions)
    PROVE  out_fault(actions[i]) = "none"
<1> DEFINE faulty == {j \in DOMAIN actions : out_fault(actions[j]) # "none"}
<1>1. SUFFICES ASSUME i \in faulty PROVE FALSE
  BY DEF Outputs
<1>2. faulty \subseteq Nat /\ faulty # {}
  <2>1. DOMAIN actions \subseteq Nat
    BY PacketsAssumption, LenProperties
  <2> QED
    BY <1>1, <2>1
<1> DEFINE first == CHOOSE j \in faulty : \A k \in faulty : j <= k
<1>3. stop_at(actions) = first
  BY <1>2 DEF stop_at
<1>4. i < stop_at(actions)
  BY DEF Outputs
<1> HIDE DEF faulty
<1>5. \E j \in faulty : \A k \in faulty : j <= k
  BY <1>2, LeastNumber
<1>6. first \in faulty /\ \A k \in faulty : first <= k
  BY <1>5
<1> HIDE DEF first
<1> QED
  BY <1>1, <1>2, <1>3, <1>4, <1>6

\* The fields rewritten before an output are all that precedes its own actions.
LEMMA RewritesOnly ==
    ASSUME NEW actions \in ActionLists, NEW i \in DOMAIN actions
    PROVE  masteroutlist(actions, i) \in Seq({SetField})
<1> DEFINE seqs == [j \in 1 .. i - 1 |->
                      IF actions[j].type = "set_field" THEN <<actions[j]>> ELSE <<>>]
<1>1. /\ actions \in Seq(Action \cup {Unknown})
      /\ DOMAIN actions = 1 .. Len(actions) /\ Len(actions) \in Nat
  BY PacketsAssumption, LenProperties
<1>2. \A j \in 1 .. i - 1 : actions[j].type = "set_field" => actions[j] = SetField
  <2>1. ASSUME NEW a \in Action \cup {Unknown}, a.type = "set_field" PROVE a = SetField
    BY <2>1 DEF Action, Unknown, Flood, SetField, Refused
  <2> QED
    BY <1>1, <2>1
<1>3. \A j \in 1 .. i - 1 : seqs[j] \in Seq({SetField})
  <2>1. <<SetField>> \in Seq({SetField}) /\ <<>> \in Seq({SetField})
    OBVIOUS
  <2> QED
    BY <1>2, <2>1
<1>4. i - 1 \in Nat /\ seqs = [j \in 1 .. i - 1 |-> seqs[j]]
  BY <1>1
<1>5. masteroutlist(actions, i) = SE!FlattenSeq(seqs)
  BY DEF masteroutlist
<1> HIDE DEF seqs
<1>6. seqs \in Seq(Seq({SetField}))
  BY <1>3, <1>4, SeqDef
<1> QED
  BY <1>5, <1>6, FlattenParts

\* Each output is sent to the ports it is for, and a flood to all.
LEMMA SentWhereWanted ==
    ASSUME NEW actions \in ActionLists, NEW i \in Outputs(actions)
    PROVE  /\ Wants(actions[i]) \subseteq VirtualPorts
           /\ SendsTo(Sent(actions, i), Wants(actions[i]))
<1> DEFINE a == actions[i]
<1>1. i \in DOMAIN actions /\ a.type \in {"output", "flood"}
  BY DEF Outputs
<1>2. out_fault(a) = "none"
  BY OutputsFaultless
<1>3. Wants(a) \subseteq VirtualPorts /\ SendsTo(out_list(a), Wants(a))
  <2>1. CASE a.type = "flood"
    <3>1. VirtualPorts \in SUBSET VirtualPorts
      OBVIOUS
    <3> HIDE DEF a
    <3> QED
      BY <2>1, <3>1, FloodSends DEF Wants, out_list
  <2>2. CASE a.type = "output"
    <3> HIDE DEF a
    <3>1. a.arg \in VirtualPorts
      BY <1>2, <2>2 DEF out_fault
    <3> QED
      BY <2>2, <3>1, OutputSends DEF Wants, out_list
  <2> QED
    BY <1>1, <2>1, <2>2
<1>4. masteroutlist(actions, i) \in Seq({SetField})
  BY <1>1, RewritesOnly
<1> DEFINE pre == masteroutlist(actions, i)
<1>5. pre \in Seq(SwitchAction)
  <2>1. SetField \in SwitchAction
    BY DEF SwitchAction, Action
  <2> QED
    BY <1>4, <2>1
<1>6. \A k \in DOMAIN pre : pre[k].type \notin Marks \cup {"output"}
  <2>1. \A k \in DOMAIN pre : pre[k] = SetField
    BY <1>4
  <2> QED
    BY <2>1 DEF SetField, Marks
<1> HIDE DEF a, pre
<1>7. SendsTo(pre \o out_list(a), Wants(a))
  BY <1>3, <1>5, <1>6, RewritesFirst
<1> QED
  BY <1>3, <1>7 DEF Sent, a, pre

\* What is under way to a switch.
Message ==
    [type : {"packet_out"}, packet : PacketIds, tag : VlanTags, in_port : InPorts,
     actions : Seq(SwitchAction)]
    \cup [type : {"port_mod"}, port : {real_port(v) : v \in VirtualPorts}]
    \cup {SetConfig}

\* A packet_out of a controller becomes one for each of its outputs.
LEMMA PacketOutsSend ==
    ASSUME NEW pkt \in PacketIds, NEW tag \in VlanTags, NEW in_port \in InPorts,
           NEW actions \in ActionLists
    PROVE  LET outs == packet_outs(pkt, tag, in_port, actions) IN
           /\ outs \in Seq(Message)
           /\ \A j \in DOMAIN outs :
                \E i \in Outputs(actions) : outs[j] = PacketOut(pkt, tag, in_port, Sent(actions, i))
           /\ \A i \in Outputs(actions) :
                \E j \in DOMAIN outs : outs[j] = PacketOut(pkt, tag, in_port, Sent(actions, i))
<1> DEFINE M(i)  == PacketOut(pkt, tag, in_port, Sent(actions, i))
           seqs  == [i \in DOMAIN actions |-> IF i \notin Outputs(actions) THEN <<>> ELSE <<M(i)>>]
<1>1. DOMAIN actions = 1 .. Len(actions) /\ Len(actions) \in Nat
  BY PacketsAssumption, LenProperties
<1>2. \A i \in Outputs(actions) : M(i) \in Message /\ i \in DOMAIN actions
  <2>1. ASSUME NEW i \in Outputs(actions) PROVE Sent(actions, i) \in Seq(SwitchAction)
    BY SentWhereWanted DEF SendsTo
  <2> QED
    BY <2>1 DEF Message, PacketOut, Outputs
<1>3. packet_outs(pkt, tag, in_port, actions) = SE!FlattenSeq(seqs)
  BY DEF packet_outs, Sent
<1> HIDE DEF M
<1>4. \A i \in DOMAIN actions :
        /\ i \notin Outputs(actions) => seqs[i] = <<>>
        /\ i \in Outputs(actions) => seqs[i] = <<M(i)>>
        /\ seqs[i] \in Seq(Message)
  <2>1. \A i \in Outputs(actions) : <<M(i)>> \in Seq(Message)
    BY <1>2
  <2>2. <<>> \in Seq(Message)
    OBVIOUS
  <2> QED
    BY <2>1, <2>2
<1>5. DOMAIN seqs = 1 .. Len(actions) /\ seqs = [i \in 1 .. Len(actions) |-> seqs[i]]
  BY <1>1
<1> HIDE DEF seqs
<1>6. seqs \in Seq(Seq(Message))
  BY <1>1, <1>4, <1>5, SeqDef
<1> DEFINE outs == packet_outs(pkt, tag, in_port, actions)
<1>7. /\ outs \in Seq(Message)
      /\ \A i \in DOMAIN seqs : \A k \in DOMAIN seqs[i] : \E j \in DOMAIN outs : outs[j] = seqs[i][k]
      /\ \A j \in DOMAIN outs : \E i \in DOMAIN seqs : \E k \in DOMAIN seqs[i] : outs[j] = seqs[i][k]
  BY <1>3, <1>6, FlattenParts, FlattenElements
<1> HIDE DEF outs
<1>8. ASSUME NEW j \in DOMAIN outs PROVE \E i \in Outputs(actions) : outs[j] = M(i)
  <2>1. PICK i \in DOMAIN seqs : \E k \in DOMAIN seqs[i] : outs[j] = seqs[i][k]
    BY <1>7
  <2>2. i \in Outputs(actions)
    BY <1>1, <1>4, <1>5, <2>1
  <2>3. seqs[i] = <<M(i)>>
    BY <1>2, <1>4, <2>2
  <2> QED
    BY <2>1, <2>2, <2>3
<1>9. ASSUME NEW i \in Outputs(actions) PROVE \E j \in DOMAIN outs : outs[j] = M(i)
  <2>1. i \in DOMAIN seqs /\ seqs[i] = <<M(i)>>
    BY <1>1, <1>2, <1>4, <1>5
  <2>2. 1 \in DOMAIN seqs[i] /\ seqs[i][1] = M(i)
    BY <2>1
  <2> QED
    BY <1>7, <2>1, <2>2
<1> QED
  BY <1>7, <1>8, <1>9 DEF outs, M

\* Where an order is sent: where it asks for it, and what a flood reflects.
SentFor(o) == Targets(o) \cup Reflected(o)

\* The ports that the outputs of an order are sent to are these.
LEMMA TargetsWanted ==
    ASSUME NEW o, o.actions \in ActionLists
    PROVE  /\ \A i \in Outputs(o.actions) : Wants(o.actions[i]) \subseteq SentFor(o)
           /\ SentFor(o) \subseteq VirtualPorts
           /\ \A p \in Targets(o) :
                p \in VirtualPorts /\ \E i \in Outputs(o.actions) : p \in Wants(o.actions[i])
<1>1. ASSUME NEW i \in Outputs(o.actions), NEW p \in Wants(o.actions[i]) PROVE p \in SentFor(o)
  <2>1. p \in VirtualPorts
    BY SentWhereWanted
  <2>2. CASE o.actions[i].type = "flood"
    BY <2>1, <2>2 DEF SentFor, Targets, Reflected, Floods
  <2>3. CASE o.actions[i].type # "flood"
    <3>1. PICK a : a = o.actions[i]
      OBVIOUS
    <3>2. a \in Action \cup {Unknown} /\ a.type = "output"
      <4>1. o.actions \in Seq(Action \cup {Unknown}) /\ i \in DOMAIN o.actions
        BY PacketsAssumption DEF Outputs
      <4>2. a \in Action \cup {Unknown}
        BY <3>1, <4>1, ElementOfSeq
      <4> QED
        BY <2>3, <3>1, <4>2 DEF Outputs
    <3>3. a = Output(a.arg)
      BY <3>2 DEF Action, Unknown, Flood, SetField, Refused, Output
    <3>4. o.actions[i] = Output(p)
      BY <2>3, <3>1, <3>3 DEF Wants
    <3> QED
      BY <2>1, <3>4 DEF SentFor, Targets
  <2> QED
    BY <2>2, <2>3
<1>2. ASSUME NEW p \in Targets(o)
      PROVE  p \in VirtualPorts /\ \E i \in Outputs(o.actions) : p \in Wants(o.actions[i])
  BY DEF Targets, Wants, Output
<1>3. SentFor(o) \subseteq VirtualPorts
  BY DEF SentFor, Targets, Reflected
<1> QED
  BY <1>1, <1>2, <1>3

-----------------------------------------------------------------------------
(***************************************************************************)
(* What is under way to the switches, and what leaves them                 *)
(***************************************************************************)

\* A message tells switch d nothing that is not in mods, the ports that controllers
\* wanted changed, or in asks, the orders they gave for this switch.
Wanted(m, d, mods, asks) ==
    /\ m.type = "port_mod" => \E v \in mods : get_actual_port(v).port = m.port
    /\ m.type = "packet_out" =>
         \E o \in asks :
            /\ o.dpt = d /\ o.packet = m.packet /\ o.tag = m.tag
            /\ \E ports \in SUBSET VirtualPorts : ports \subseteq SentFor(o) /\ SendsTo(m.actions, ports)

AllWanted == \A d \in Dpts : \A i \in DOMAIN channel[d] : Wanted(channel[d][i], d, modified, asked)

\* PktTypeOK but for the channels.
RestTyped ==
    /\ inbound \subseteq PacketIn
    /\ shown \subseteq Shown
    /\ emitted \subseteq Emission
    /\ arrived \subseteq PacketIn
    /\ asked \subseteq Order
    /\ modified \subseteq VirtualPorts
    /\ changed \subseteq Nat
    /\ orders \in 0 .. MaxOrders
    /\ lost \in BOOLEAN
    /\ fault \in {"none", "out_of_range", "assertion", "double_free"}

OutInv ==
    /\ RestTyped
    /\ channel \in [Dpts -> Seq(Message)]
    /\ AllWanted
    /\ LeavesWhereAsked
    /\ ChangedAsAsked

LEMMA OutInvInit == Init => OutInv
<1> SUFFICES ASSUME Init PROVE OutInv
  OBVIOUS
<1>1. 0 \in 0 .. MaxOrders
  BY PacketsAssumption
<1>2. RestTyped
  BY <1>1 DEF Init, RestTyped
<1>3. <<>> \in Seq(Message) /\ channel = [d \in Dpts |-> <<>>]
  BY DEF Init
<1>4. channel \in [Dpts -> Seq(Message)] /\ AllWanted
  BY <1>3 DEF AllWanted
<1>5. LeavesWhereAsked /\ ChangedAsAsked
  BY DEF Init, LeavesWhereAsked, ChangedAsAsked
<1> QED
  BY <1>2, <1>4, <1>5 DEF OutInv

LEMMA OutInvTypes == OutInv => PktTypeOK
<1> SUFFICES ASSUME OutInv PROVE PktTypeOK
  OBVIOUS
<1>1. ASSUME NEW m \in Message
      PROVE  CASE m.type = "packet_out" ->
                    m.packet \in PacketIds /\ m.tag \in VlanTags /\ m.in_port \in InPorts
               [] m.type = "port_mod"   -> m.port \in Nat
               [] OTHER                 -> m = SetConfig
  <2>1. \A v \in VirtualPorts : real_port(v) \in Nat
    BY PortTyped DEF real_port
  <2>2. \/ /\ m.type = "packet_out"
           /\ m.packet \in PacketIds /\ m.tag \in VlanTags /\ m.in_port \in InPorts
        \/ m.type = "port_mod" /\ m.port \in Nat
        \/ m = SetConfig /\ m.type = "set_config"
    BY <2>1 DEF Message, SetConfig
  <2>3. CASE m.type = "packet_out"
    BY <2>2, <2>3
  <2>4. CASE m.type = "port_mod"
    BY <2>2, <2>4
  <2>5. CASE m.type # "packet_out" /\ m.type # "port_mod"
    BY <2>2, <2>5
  <2> QED
    BY <2>3, <2>4, <2>5
<1>2. \A d \in Dpts : \A i \in DOMAIN channel[d] : channel[d][i] \in Message
  BY DEF OutInv
<1>3. DOMAIN channel = Dpts
  BY DEF OutInv
<1> QED
  BY <1>1, <1>2, <1>3 DEF OutInv, RestTyped, PktTypeOK

\* Wanting more takes nothing back.
LEMMA WantedStays ==
    ASSUME NEW m, NEW d, NEW mods, NEW asks, NEW mods2, NEW asks2,
           Wanted(m, d, mods, asks), mods \subseteq mods2, asks \subseteq asks2
    PROVE  Wanted(m, d, mods2, asks2)
  BY DEF Wanted

ElementOf(x, s) == \E i \in DOMAIN s : x = s[i]

\* The elements of a concatenation are those of the two sequences.
LEMMA ConcatElements ==
    ASSUME NEW S, NEW s \in Seq(S), NEW t \in Seq(S), NEW x
    PROVE  ElementOf(x, s \o t) <=> ElementOf(x, s) \/ ElementOf(x, t)
<1> DEFINE u == s \o t
<1>1. /\ \A k \in DOMAIN s : k \in DOMAIN u /\ u[k] = s[k]
      /\ \A k \in DOMAIN t : Len(s) + k \in DOMAIN u /\ u[Len(s) + k] = t[k]
      /\ \A j \in DOMAIN u : j \in DOMAIN s \/ \E k \in DOMAIN t : j = Len(s) + k
  BY ConcatParts
<1> HIDE DEF u
<1>2. ElementOf(x, s) => ElementOf(x, u)
  BY <1>1 DEF ElementOf
<1>3. ElementOf(x, t) => ElementOf(x, u)
  BY <1>1 DEF ElementOf
<1>4. ElementOf(x, u) => ElementOf(x, s) \/ ElementOf(x, t)
  BY <1>1 DEF ElementOf
<1> QED
  BY <1>2, <1>3, <1>4 DEF u

\* Messages are added to a channel as controllers want them.
LEMMA SendingKeepsOutInv ==
    ASSUME OutInv, RestTyped', NEW d, NEW sent \in Seq(Message),
           channel' = [channel EXCEPT ![d] = @ \o sent], UNCHANGED <<emitted, changed>>,
           modified \subseteq modified', asked \subseteq asked',
           \A i \in DOMAIN sent : Wanted(sent[i], d, modified', asked')
    PROVE  OutInv'
<1>1. ChangedAsAsked' /\ LeavesWhereAsked'
  BY DEF OutInv, ChangedAsAsked, LeavesWhereAsked
<1>2. \A e \in Dpts : channel'[e] = channel[e] \/ (e = d /\ channel'[e] = channel[e] \o sent)
  BY DEF OutInv
<1>3. channel' \in [Dpts -> Seq(Message)]
  BY ConcatProperties DEF OutInv
<1>4. ASSUME NEW e \in Dpts, NEW i \in DOMAIN channel'[e]
      PROVE  Wanted(channel'[e][i], e, modified', asked')
  <2> DEFINE old == channel[e]
             now == channel'[e]
  <2>1. old \in Seq(Message)
    BY DEF OutInv
  <2>2. \A j \in DOMAIN old : Wanted(old[j], e, modified', asked')
    BY WantedStays DEF OutInv, AllWanted
  <2>3. now = old \/ (e = d /\ now = old \o sent)
    BY <1>2
  <2>4. ElementOf(now[i], now)
    BY <1>4 DEF ElementOf
  <2> HIDE DEF old, now
  <2>5. ElementOf(now[i], old) \/ (e = d /\ ElementOf(now[i], sent))
    <3>1. CASE now = old
      BY <2>4, <3>1
    <3>2. CASE e = d /\ now = old \o sent
      BY <2>1, <2>4, <3>2, ConcatElements
    <3> QED
      BY <2>3, <3>1, <3>2
  <2>6. Wanted(now[i], e, modified', asked')
    BY <2>2, <2>5 DEF ElementOf
  <2> QED
    BY <2>6 DEF now
<1> QED
  BY <1>1, <1>3, <1>4 DEF OutInv, AllWanted

\* A step that leaves the channels alone and takes nothing back preserves it too.
LEMMA QuietKeepsOutInv ==
    ASSUME OutInv, UNCHANGED <<channel, modified, changed, asked, emitted>>, RestTyped'
    PROVE  OutInv'
  BY DEF OutInv, AllWanted, ChangedAsAsked, LeavesWhereAsked

\* What a wanted packet_out makes leave a switch was asked for.
LEMMA ObeyedAsAsked ==
    ASSUME NEW d \in Dpts, NEW m \in Message, NEW mods, NEW asks, Wanted(m, d, mods, asks),
           m.type = "packet_out", NEW e \in Emissions(m.tag, m.actions),
           NEW g, g = [dpt |-> d, packet |-> m.packet, port |-> e.port, vlan |-> e.vlan]
    PROVE  g \in Emission /\ \E o \in asks : \E p \in Targets(o) \cup Reflected(o) : LeavesAs(g, o, p)
<1>1. PICK o \in asks :
        /\ o.dpt = d /\ o.packet = m.packet /\ o.tag = m.tag
        /\ \E ports \in SUBSET VirtualPorts : ports \subseteq SentFor(o) /\ SendsTo(m.actions, ports)
  BY DEF Wanted
<1>2. PICK ports \in SUBSET VirtualPorts : ports \subseteq SentFor(o) /\ SendsTo(m.actions, ports)
  BY <1>1
<1>3. PICK p \in ports : e.port = get_actual_port(p).port /\ e.vlan = TagFor(p, m.tag)
  BY <1>2, SendsWhereAsked
<1>4. m.packet \in PacketIds /\ m.tag \in VlanTags
  BY DEF Message, SetConfig
<1>5. /\ get_actual_port(p).port \in Nat
      /\ Tagged(p) => get_actual_port(p).vlan \in Nat
  BY PortTyped
<1>6. e.port \in Nat /\ e.vlan \in VlanTags
  BY <1>3, <1>4, <1>5 DEF VlanTags, TagFor
<1>7. g \in Emission
  BY <1>4, <1>6 DEF Emission
<1>8. LeavesAs(g, o, p)
  BY <1>1, <1>3 DEF LeavesAs, TagFor
<1>9. p \in Targets(o) \cup Reflected(o)
  BY <1>2 DEF SentFor
<1> QED
  BY <1>7, <1>8, <1>9

\* The elements of a sequence are its head and those of its tail.
LEMMA TailElements ==
    ASSUME NEW S, NEW s \in Seq(S), s # <<>>, NEW x
    PROVE  ElementOf(x, s) <=> x = Head(s) \/ ElementOf(x, Tail(s))
<1>1. /\ DOMAIN s = 1 .. Len(s) /\ Len(s) \in Nat /\ Len(s) # 0
      /\ DOMAIN Tail(s) = 1 .. Len(s) - 1
      /\ Head(s) = s[1]
      /\ \A i \in 1 .. Len(s) - 1 : Tail(s)[i] = s[i + 1]
  <2>1. DOMAIN Tail(s) = 1 .. Len(Tail(s)) /\ Len(Tail(s)) = Len(s) - 1
    BY HeadTailProperties, LenProperties
  <2>2. Len(s) # 0 /\ Len(s) \in Nat /\ DOMAIN s = 1 .. Len(s)
    BY EmptySeq, LenProperties
  <2>3. Head(s) = s[1] /\ \A i \in 1 .. Len(Tail(s)) : Tail(s)[i] = s[i + 1]
    BY HeadTailProperties
  <2> QED
    BY <2>1, <2>2, <2>3
<1> DEFINE t == Tail(s)
           h == Head(s)
<1> HIDE DEF t, h
<1>2. ASSUME ElementOf(x, s) PROVE x = h \/ ElementOf(x, t)
  <2>1. PICK i \in DOMAIN s : x = s[i]
    BY <1>2 DEF ElementOf
  <2>2. CASE i = 1
    BY <1>1, <2>1, <2>2 DEF h
  <2>3. CASE i # 1
    <3>1. i - 1 \in 1 .. Len(s) - 1 /\ i - 1 + 1 = i
      BY <1>1, <2>3
    <3>2. t[i - 1] = x /\ i - 1 \in DOMAIN t
      BY <1>1, <2>1, <3>1 DEF t
    <3> QED
      BY <3>2 DEF ElementOf
  <2> QED
    BY <2>2, <2>3
<1>3. ASSUME ElementOf(x, t) PROVE ElementOf(x, s)
  <2>1. PICK i \in 1 .. Len(s) - 1 : x = s[i + 1]
    BY <1>1, <1>3 DEF ElementOf, t
  <2>2. i + 1 \in DOMAIN s
    BY <1>1
  <2> QED
    BY <2>1, <2>2 DEF ElementOf
<1>4. ElementOf(h, s)
  <2>1. 1 \in DOMAIN s /\ h = s[1]
    BY <1>1 DEF h
  <2> QED
    BY <2>1 DEF ElementOf
<1> QED
  BY <1>2, <1>3, <1>4 DEF t, h

\* Each step preserves OutInv: what is under way to a switch is what handle_port_mod
\* and the two other handlers put there, and the switch obeys nothing else.
LEMMA OutInvNext == ConnTypeOK /\ OutInv /\ [Next]_vars => OutInv'
<1> SUFFICES ASSUME ConnTypeOK, OutInv, [Next]_vars PROVE OutInv'
  OBVIOUS
<1> USE DEF RestTyped
<1>0. RestTyped
  BY DEF OutInv
<1>1. CASE UNCHANGED vars
  <2>1. RestTyped'
    BY <1>0, <1>1 DEF vars, pktVars
  <2> QED
    BY <1>1, <2>1, QuietKeepsOutInv DEF vars, pktVars
<1>2. ASSUME NEW d \in Dpts, NEW pkt \in PacketIds, NEW at \in Arrivals,
             PacketArrives(d, pkt, at)
      PROVE  OutInv'
  <2>1. [dpt |-> d, packet |-> pkt, at |-> at] \in PacketIn
    BY PacketsAssumption DEF PacketIn
  <2>2. RestTyped'
    BY <1>0, <1>2, <2>1 DEF PacketArrives
  <2> QED
    BY <1>2, <2>2, QuietKeepsOutInv DEF PacketArrives
<1>3. ASSUME NEW p \in inbound, handle_packet_in(p)
      PROVE  OutInv'
  <2>1. p.packet \in PacketIds /\ p.at.inner \in VlanTags
    BY <1>0 DEF PacketIn, Arrival
  <2>2. shown' \subseteq Shown
    <3>1. ASSUME NEW s \in shown', s \notin shown PROVE s \in Shown
      <4>1. PICK v \in actual_to_virtual_map(Spec(p.at)) :
               s = [ctl |-> m_master, packet |-> p.packet, in_port |-> v, tag |-> p.at.inner]
        BY <1>3, <3>1 DEF handle_packet_in
      <4>2. Connected
        BY <1>3, <3>1 DEF handle_packet_in
      <4>3. m_master \in Ctls /\ v \in VirtualPorts
        BY <4>2 DEF Connected, ConnTypeOK, actual_to_virtual_map
      <4> QED
        BY <2>1, <4>1, <4>3 DEF Shown
    <3> QED
      BY <1>0, <3>1
  <2>3. /\ inbound' \subseteq inbound /\ lost' \in BOOLEAN
        /\ UNCHANGED <<channel, emitted, arrived, asked, modified, changed, orders, fault>>
    BY <1>3 DEF handle_packet_in
  <2>4. RestTyped'
    BY <1>0, <2>2, <2>3
  <2> QED
    BY <2>3, <2>4, QuietKeepsOutInv
<1>4. ASSUME NEW s \in shown, NEW in_port \in InPorts, NEW actions \in ActionLists,
             NEW buffered \in BOOLEAN, handle_packet_out(s, in_port, actions, buffered)
      PROVE  OutInv'
  <2>1. UNCHANGED <<inbound, shown, emitted, arrived, modified, changed, lost>>
    BY <1>4 DEF handle_packet_out
  <2>2. orders' \in 0 .. MaxOrders
    BY <1>0, <1>4, PacketsAssumption DEF handle_packet_out
  <2>3. fault' \in {"none", "out_of_range", "assertion", "double_free"}
    BY <1>0, <1>4 DEF handle_packet_out, uncaught
  <2>4. CASE UNCHANGED <<channel, asked>>
    <3>1. RestTyped'
      BY <1>0, <2>1, <2>2, <2>3, <2>4
    <3> QED
      BY <2>1, <2>4, <3>1, QuietKeepsOutInv
  <2>5. CASE /\ Connected
             /\ channel' = [channel EXCEPT ![m_slave] =
                              @ \o packet_outs(s.packet, s.tag, in_port, actions)]
             /\ asked' = asked \cup
                  {[dpt |-> m_slave, packet |-> s.packet, tag |-> s.tag, in_port |-> in_port,
                    actions |-> actions]}
    <3> DEFINE outs == packet_outs(s.packet, s.tag, in_port, actions)
    <3>1. s.packet \in PacketIds /\ s.tag \in VlanTags /\ m_slave \in Dpts
      BY <1>0, <2>5 DEF Shown, Connected, ConnTypeOK
    <3>2. /\ outs \in Seq(Message)
          /\ \A j \in DOMAIN outs : \E i \in Outputs(actions) :
               outs[j] = PacketOut(s.packet, s.tag, in_port, Sent(actions, i))
      BY <3>1, PacketOutsSend
    <3>3. PICK o : o = [dpt |-> m_slave, packet |-> s.packet, tag |-> s.tag, in_port |-> in_port,
                        actions |-> actions]
      OBVIOUS
    <3>4. /\ o \in Order /\ o.dpt = m_slave /\ o.packet = s.packet /\ o.tag = s.tag
          /\ o.actions = actions /\ asked' = asked \cup {o}
      BY <2>5, <3>1, <3>3 DEF Order
    <3>5. RestTyped'
      <4>1. asked' \subseteq Order
        BY <1>0, <3>4
      <4> QED
        BY <1>0, <2>1, <2>2, <2>3, <4>1
    <3> HIDE DEF outs
    <3>6. ASSUME NEW j \in DOMAIN outs PROVE Wanted(outs[j], m_slave, modified', asked')
      <4>1. PICK i \in Outputs(actions) : outs[j] = PacketOut(s.packet, s.tag, in_port, Sent(actions, i))
        BY <3>2
      <4>2. PICK m : m = PacketOut(s.packet, s.tag, in_port, Sent(actions, i))
        OBVIOUS
      <4>3. PICK ports : ports = Wants(actions[i])
        OBVIOUS
      <4>4. ports \in SUBSET VirtualPorts /\ SendsTo(Sent(actions, i), ports)
        BY <4>3, SentWhereWanted
      <4>5. ports \subseteq SentFor(o)
        BY <3>4, <4>3, TargetsWanted
      <4>6. /\ m.type = "packet_out" /\ m.packet = s.packet /\ m.tag = s.tag
            /\ m.actions = Sent(actions, i)
        BY <4>2 DEF PacketOut
      <4>7. o \in asked'
        BY <3>4
      <4>8. Wanted(m, m_slave, modified', asked')
        BY <3>4, <4>4, <4>5, <4>6, <4>7 DEF Wanted
      <4> QED
        BY <4>1, <4>2, <4>8
    <3>7. channel' = [channel EXCEPT ![m_slave] = @ \o outs]
      BY <2>5 DEF outs
    <3>8. asked \subseteq asked' /\ modified \subseteq modified'
      BY <2>1, <2>5
    <3> QED
      BY <2>1, <3>2, <3>5, <3>6, <3>7, <3>8, SendingKeepsOutInv
  <2> QED
    BY <1>4, <2>4, <2>5 DEF handle_packet_out
<1>5. ASSUME NEW c \in Ctls, NEW port \in 0 .. Len(PortMap) + 1, handle_port_mod(c, port)
      PROVE  OutInv'
  <2>1. UNCHANGED <<inbound, shown, emitted, arrived, asked, changed, lost>>
    BY <1>5 DEF handle_port_mod
  <2>2. orders' \in 0 .. MaxOrders
    BY <1>0, <1>5, PacketsAssumption DEF handle_port_mod
  <2>3. fault' \in {"none", "out_of_range", "assertion", "double_free"}
    BY <1>0, <1>5 DEF handle_port_mod, Unhandled
  <2>4. CASE UNCHANGED <<channel, modified>>
    <3>1. RestTyped'
      BY <1>0, <2>1, <2>2, <2>3, <2>4
    <3> QED
      BY <2>1, <2>4, <3>1, QuietKeepsOutInv
  <2>5. CASE /\ port \in VirtualPorts /\ Connected
             /\ channel' = [channel EXCEPT ![m_slave] = Append(@, PortMod(real_port(port)))]
             /\ modified' = modified \cup {port}
    <3> DEFINE sent == <<PortMod(real_port(port))>>
    <3>1. PortMod(real_port(port)) \in Message
      BY <2>5 DEF Message, PortMod
    <3>2. sent \in Seq(Message)
      BY <3>1
    <3>3. channel' = [channel EXCEPT ![m_slave] = @ \o sent]
      <4>1. m_slave \in Dpts
        BY <2>5 DEF Connected, ConnTypeOK
      <4> QED
        BY <2>5, <3>1, <4>1, AppendIsConcat DEF OutInv
    <3>4. RestTyped'
      BY <1>0, <2>1, <2>2, <2>3, <2>5
    <3>5. Wanted(PortMod(real_port(port)), m_slave, modified', asked')
      BY <2>5 DEF Wanted, PortMod, real_port
    <3>6. \A i \in DOMAIN sent : Wanted(sent[i], m_slave, modified', asked')
      BY <3>5
    <3> HIDE DEF sent
    <3> QED
      BY <2>1, <2>5, <3>2, <3>3, <3>4, <3>6, SendingKeepsOutInv
  <2> QED
    BY <1>5, <2>4, <2>5 DEF handle_port_mod
<1>6. ASSUME NEW c \in Ctls, handle_set_config(c)
      PROVE  OutInv'
  <2>1. UNCHANGED <<inbound, shown, emitted, arrived, asked, modified, changed, lost, fault>>
    BY <1>6 DEF handle_set_config
  <2>2. RestTyped'
    BY <1>0, <1>6, <2>1, PacketsAssumption DEF handle_set_config
  <2>3. CASE UNCHANGED channel
    BY <2>1, <2>2, <2>3, QuietKeepsOutInv
  <2>4. CASE Connected /\ channel' = [channel EXCEPT ![m_slave] = Append(@, SetConfig)]
    <3> DEFINE sent == <<SetConfig>>
    <3>1. SetConfig \in Message
      BY DEF Message
    <3>2. sent \in Seq(Message)
      BY <3>1
    <3>3. channel' = [channel EXCEPT ![m_slave] = @ \o sent]
      <4>1. m_slave \in Dpts
        BY <2>4 DEF Connected, ConnTypeOK
      <4> QED
        BY <2>4, <3>1, <4>1, AppendIsConcat DEF OutInv
    <3>4. Wanted(SetConfig, m_slave, modified', asked')
      BY DEF Wanted, SetConfig
    <3>5. \A i \in DOMAIN sent : Wanted(sent[i], m_slave, modified', asked')
      BY <3>4
    <3> HIDE DEF sent
    <3> QED
      BY <2>1, <2>2, <2>4, <3>2, <3>3, <3>5, SendingKeepsOutInv
  <2> QED
    BY <1>6, <2>3, <2>4 DEF handle_set_config
<1>7. ASSUME NEW d \in Dpts, SwitchObeys(d)
      PROVE  OutInv'
  <2>1. UNCHANGED <<inbound, shown, arrived, asked, modified, orders, fault>>
    BY <1>7 DEF SwitchObeys
  <2>2. channel[d] \in Seq(Message) /\ channel[d] # <<>>
    BY <1>7 DEF SwitchObeys, OutInv
  <2>3. PICK m : m = Head(channel[d])
    OBVIOUS
  <2>4. m \in Message /\ ElementOf(m, channel[d])
    BY <2>2, <2>3, HeadTailProperties, TailElements
  <2>5. Wanted(m, d, modified, asked)
    BY <2>4 DEF OutInv, AllWanted, ElementOf
  <2>6. channel' = [channel EXCEPT ![d] = Tail(@)]
    BY <1>7 DEF SwitchObeys
  <2>7. channel' \in [Dpts -> Seq(Message)]
    BY <2>2, <2>6, HeadTailProperties DEF OutInv
  <2>8. AllWanted'
    <3>1. ASSUME NEW e \in Dpts, NEW i \in DOMAIN channel'[e]
          PROVE  ElementOf(channel'[e][i], channel[e])
      <4>1. ElementOf(channel'[e][i], channel'[e])
        BY <3>1 DEF ElementOf
      <4>2. CASE e = d
        <5>1. channel'[d] = Tail(channel[d])
          BY <2>6 DEF OutInv
        <5> QED
          BY <2>2, <4>1, <4>2, <5>1, TailElements
      <4>3. CASE e # d
        BY <2>6, <4>1, <4>3 DEF OutInv
      <4> QED
        BY <4>2, <4>3
    <3> QED
      BY <2>1, <3>1 DEF OutInv, AllWanted, ElementOf
  <2>9. /\ changed' \subseteq Nat
        /\ ChangedAsAsked'
    <3>1. changed' = changed \/ (m.type = "port_mod" /\ changed' = changed \cup {m.port})
      BY <1>7, <2>3 DEF SwitchObeys
    <3>2. m.type = "port_mod" =>
            m.port \in Nat /\ \E v \in modified : get_actual_port(v).port = m.port
      BY <2>5, <1>0, PortTyped DEF Wanted
    <3> QED
      BY <1>0, <2>1, <3>1, <3>2 DEF OutInv, ChangedAsAsked
  <2>10. emitted' \subseteq Emission /\ LeavesWhereAsked'
    <3>1. \/ emitted' = emitted
          \/ /\ m.type = "packet_out"
             /\ emitted' = emitted \cup
                  {[dpt |-> d, packet |-> m.packet, port |-> e.port, vlan |-> e.vlan] :
                     e \in {x \in Emissions(m.tag, m.actions) : x.port # m.in_port}}
      BY <1>7, <2>3 DEF SwitchObeys
    <3>2. CASE emitted' = emitted
      BY <1>0, <2>1, <3>2 DEF OutInv, LeavesWhereAsked
    <3>3. CASE /\ m.type = "packet_out"
               /\ emitted' = emitted \cup
                    {[dpt |-> d, packet |-> m.packet, port |-> e.port, vlan |-> e.vlan] :
                       e \in {x \in Emissions(m.tag, m.actions) : x.port # m.in_port}}
      <4>1. ASSUME NEW g \in emitted', g \notin emitted
            PROVE  /\ g \in Emission
                   /\ \E o \in asked : \E p \in Targets(o) \cup Reflected(o) : LeavesAs(g, o, p)
        <5>1. PICK e \in Emissions(m.tag, m.actions) :
                g = [dpt |-> d, packet |-> m.packet, port |-> e.port, vlan |-> e.vlan]
          BY <3>3, <4>1
        <5> QED
          BY <2>4, <2>5, <3>3, <5>1, ObeyedAsAsked
      <4>2. \A g \in emitted :
              \E o \in asked : \E p \in Targets(o) \cup Reflected(o) : LeavesAs(g, o, p)
        BY DEF OutInv, LeavesWhereAsked
      <4>3. LeavesWhereAsked'
        BY <2>1, <4>1, <4>2 DEF LeavesWhereAsked
      <4> QED
        BY <1>0, <4>1, <4>3
    <3> QED
      BY <3>1, <3>2, <3>3
  <2>11. lost' \in BOOLEAN
    BY <1>0, <1>7 DEF SwitchObeys
  <2>12. RestTyped'
    BY <1>0, <2>1, <2>9, <2>10, <2>11
  <2> QED
    BY <2>7, <2>8, <2>9, <2>10, <2>12 DEF OutInv
<1>8. ASSUME NEW d \in Dpts, SwitchLeaves(d)
      PROVE  OutInv'
  <2>1. /\ UNCHANGED <<shown, emitted, arrived, asked, modified, changed, orders, fault>>
        /\ inbound' \subseteq inbound
    BY <1>8 DEF SwitchLeaves
  <2>2. channel' = [channel EXCEPT ![d] = <<>>]
    BY <1>8 DEF SwitchLeaves
  <2>3. lost' \in BOOLEAN
    BY <1>0, <1>8 DEF SwitchLeaves
  <2>4. RestTyped'
    BY <1>0, <2>1, <2>3
  <2>5. ChangedAsAsked' /\ LeavesWhereAsked'
    BY <2>1 DEF OutInv, ChangedAsAsked, LeavesWhereAsked
  <2>6. channel' \in [Dpts -> Seq(Message)]
    BY <2>2, EmptySeq DEF OutInv
  <2>7. \A e \in Dpts : channel'[e] = channel[e] \/ channel'[e] = <<>>
    BY <2>2 DEF OutInv
  <2>8. AllWanted'
    BY <2>1, <2>7 DEF OutInv, AllWanted
  <2> QED
    BY <2>4, <2>5, <2>6, <2>8 DEF OutInv
<1>9. CASE PeersComeAndGo
  <2>1. RestTyped'
    BY <1>0, <1>9 DEF PeersComeAndGo, pktVars
  <2> QED
    BY <1>9, <2>1, QuietKeepsOutInv DEF PeersComeAndGo, pktVars
<1> QED
  BY <1>1, <1>2, <1>3, <1>4, <1>5, <1>6, <1>7, <1>8, <1>9 DEF Next

LEMMA OutInvariance == PktSpec => [](ConnTypeOK /\ OutInv)
<1>1. ConnInv => ConnTypeOK
  BY DEF ConnInv
<1>2. ConnTypeOK /\ OutInv /\ [Next]_vars => OutInv'
  BY OutInvNext
<1>3. Init => OutInv
  BY OutInvInit
<1> QED
  BY <1>1, <1>2, <1>3, ConnInvariance, PacketsRefineConn, PTL DEF PktSpec

\* The variables of the packets stay within their types.
THEOREM PacketTypes == PktSpec => []PktTypeOK
  BY OutInvariance, OutInvTypes, PTL

\* Whatever controllers ask for and however switches replace each other, the ports
\* a switch changes are those of virtual ports that were meant.
THEOREM PortsChangedAsAsked == PktSpec => []ChangedAsAsked
<1>1. OutInv => ChangedAsAsked
  BY DEF OutInv
<1> QED
  BY <1>1, OutInvariance, PTL

\* Whatever the lists of actions, their faults and the map of ports, no packet leaves
\* another switch, port or VLAN than those of an order for it; of a flood, the virtual
\* port the packet came from is the only one not meant.
THEOREM PacketsLeaveWhereAsked == PktSpec => []LeavesWhereAsked
<1>1. OutInv => LeavesWhereAsked
  BY DEF OutInv
<1> QED
  BY <1>1, OutInvariance, PTL

-----------------------------------------------------------------------------
(***************************************************************************)
(* What is asked for and not lost gets there                               *)
(***************************************************************************)

\* What order o wants sent as p has left, or waits in the channel of its switch.
Left(o, p)  == \E e \in emitted : LeavesAs(e, o, p)
Waits(o, p) == \E i \in DOMAIN channel[o.dpt] : Carries(channel[o.dpt][i], o, p)

ShownOrComing ==
    \A p \in arrived : Cardinality(actual_to_virtual_map(Spec(p.at))) = 1 =>
        p \in inbound \/ \E s \in shown : s.packet = p.packet

OrdersKept ==
    \A o \in asked : \A p \in Targets(o) : Suppressed(o, p) \/ Left(o, p) \/ Waits(o, p)

Kept == ~lost => ShownOrComing /\ OrdersKept

LEMMA KeptIsNothingVanishes == Kept <=> NothingVanishes
  BY DEF Kept, ShownOrComing, OrdersKept, Left, Waits, NothingVanishes

\* Messages are added to the channel of a switch, for whatever is asked for newly.
LEMMA SendingKeeps ==
    ASSUME OutInv, Kept, NEW d \in Dpts, NEW sent \in Seq(Message),
           channel' = [channel EXCEPT ![d] = @ \o sent],
           UNCHANGED <<inbound, shown, arrived, emitted, lost>>,
           \A o \in asked' :
             \/ o \in asked
             \/ o.dpt = d /\ \A p \in Targets(o) : \E i \in DOMAIN sent : Carries(sent[i], o, p)
    PROVE  Kept'
<1> SUFFICES ASSUME ~lost PROVE ShownOrComing' /\ OrdersKept'
  BY DEF Kept
<1>1. ShownOrComing'
  BY DEF Kept, ShownOrComing
<1>2. channel[d] \in Seq(Message) /\ channel'[d] = channel[d] \o sent
  BY DEF OutInv
<1>3. \A e \in Dpts : e # d => channel'[e] = channel[e]
  BY DEF OutInv
<1>4. ASSUME NEW o \in asked, NEW p, Waits(o, p) PROVE Waits(o, p)'
  <2>1. PICK c : c = o.dpt
    OBVIOUS
  <2>2. c \in Dpts
    BY <2>1 DEF OutInv, RestTyped, Order
  <2>3. PICK x : ElementOf(x, channel[c]) /\ Carries(x, o, p)
    BY <1>4, <2>1 DEF Waits, ElementOf
  <2>4. ElementOf(x, channel'[c])
    BY <1>2, <1>3, <2>2, <2>3, ConcatElements
  <2> QED
    BY <2>1, <2>3, <2>4 DEF Waits, ElementOf
<1>5. ASSUME NEW o, o.dpt = d, NEW p, NEW i \in DOMAIN sent, Carries(sent[i], o, p)
      PROVE  Waits(o, p)'
  <2>1. ElementOf(sent[i], sent)
    BY DEF ElementOf
  <2>2. ElementOf(sent[i], channel'[d])
    BY <1>2, <2>1, ConcatElements
  <2> QED
    BY <1>5, <2>2 DEF Waits, ElementOf
<1>6. ASSUME NEW o \in asked, NEW p \in Targets(o)
      PROVE  Suppressed(o, p) \/ Left(o, p)' \/ Waits(o, p)'
  <2>1. Left(o, p) => Left(o, p)'
    BY DEF Left
  <2> QED
    BY <1>4, <2>1 DEF Kept, OrdersKept
<1>7. OrdersKept'
  BY <1>5, <1>6 DEF OrdersKept
<1> QED
  BY <1>1, <1>7

\* A step that leaves channels alone and shows or keeps what came in preserves it too.
LEMMA QuietKeeps ==
    ASSUME Kept, UNCHANGED <<channel, emitted, asked>>, ~lost' => ~lost,
           ~lost' /\ ShownOrComing => ShownOrComing'
    PROVE  Kept'
  BY DEF Kept, OrdersKept, Left, Waits

\* What an order wants sent is in one of the messages it becomes.
LEMMA TargetsCarried ==
    ASSUME NEW o \in Order, NEW p \in Targets(o)
    PROVE  LET outs == packet_outs(o.packet, o.tag, o.in_port, o.actions) IN
           \E j \in DOMAIN outs : Carries(outs[j], o, p)
<1>1. /\ o.packet \in PacketIds /\ o.tag \in VlanTags
      /\ o.in_port \in InPorts /\ o.actions \in ActionLists
  BY DEF Order
<1>2. PICK i \in Outputs(o.actions) : p \in Wants(o.actions[i])
  BY <1>1, TargetsWanted
<1> DEFINE l == Sent(o.actions, i)
           m == PacketOut(o.packet, o.tag, o.in_port, l)
<1>3. /\ Wants(o.actions[i]) \in SUBSET VirtualPorts
      /\ SendsTo(l, Wants(o.actions[i]))
  BY <1>1, SentWhereWanted
<1>4. PICK j \in DOMAIN packet_outs(o.packet, o.tag, o.in_port, o.actions) :
        packet_outs(o.packet, o.tag, o.in_port, o.actions)[j] = m
  BY <1>1, PacketOutsSend
<1>5. /\ m.type = "packet_out" /\ m.packet = o.packet /\ m.in_port = o.in_port
      /\ m.tag = o.tag /\ m.actions = l
  BY DEF PacketOut
<1> HIDE DEF l, m
<1>6. \E e \in Emissions(o.tag, l) : e.port = get_actual_port(p).port /\ e.vlan = TagFor(p, o.tag)
  BY <1>2, <1>3, SendsToEach
<1>7. Carries(m, o, p)
  BY <1>5, <1>6 DEF Carries, TagFor
<1> QED
  BY <1>4, <1>7

\* A switch that obeys a message sends what it carries, but not out of its in_port.
LEMMA CarriedLeaves ==
    ASSUME NEW m, NEW o, NEW p, Carries(m, o, p), ~Suppressed(o, p)
    PROVE  \E e \in {x \in Emissions(m.tag, m.actions) : x.port # m.in_port} :
              LeavesAs([dpt |-> o.dpt, packet |-> m.packet, port |-> e.port, vlan |-> e.vlan], o, p)
<1>1. PICK e \in Emissions(m.tag, m.actions) :
        /\ e.port = get_actual_port(p).port
        /\ e.vlan = IF Tagged(p) THEN get_actual_port(p).vlan ELSE o.tag
  BY DEF Carries
<1>2. m.packet = o.packet /\ e.port # m.in_port
  BY <1>1 DEF Carries, Suppressed
<1> QED
  BY <1>1, <1>2 DEF LeavesAs

LEMMA KeptNext == ConnTypeOK /\ OutInv /\ Kept /\ [Next]_vars => Kept'
<1> SUFFICES ASSUME ConnTypeOK, OutInv, Kept, [Next]_vars PROVE Kept'
  OBVIOUS
<1>1. CASE UNCHANGED vars
  BY <1>1, QuietKeeps DEF vars, pktVars, ShownOrComing
<1>2. ASSUME NEW d \in Dpts, NEW pkt \in PacketIds, NEW at \in Arrivals,
             PacketArrives(d, pkt, at)
      PROVE  Kept'
  <2>1. UNCHANGED <<channel, emitted, asked, lost>>
    BY <1>2 DEF PacketArrives
  <2>2. ShownOrComing => ShownOrComing'
    BY <1>2 DEF PacketArrives, ShownOrComing
  <2> QED
    BY <2>1, <2>2, QuietKeeps
<1>3. ASSUME NEW p \in inbound, handle_packet_in(p)
      PROVE  Kept'
  <2>1. /\ UNCHANGED <<channel, emitted, asked, arrived>>
        /\ inbound' = inbound \ {p} /\ shown \subseteq shown'
        /\ lost' = (lost \/ ~Connected)
    BY <1>3 DEF handle_packet_in
  <2>2. ASSUME Connected, Cardinality(actual_to_virtual_map(Spec(p.at))) = 1
        PROVE  \E s \in shown' : s.packet = p.packet
    <3> DEFINE vports == actual_to_virtual_map(Spec(p.at))
    <3>1. \E v : v \in vports
      <4>1. vports # {}
        BY <2>2, FS_EmptySet
      <4> QED
        BY <4>1
    <3>2. PICK v : v \in vports
      BY <3>1
    <3>3. [ctl |-> m_master, packet |-> p.packet, in_port |-> v, tag |-> p.at.inner] \in shown'
      BY <1>3, <2>2, <3>2 DEF handle_packet_in
    <3> QED
      BY <3>3
  <2>3. ~lost' /\ ShownOrComing => ShownOrComing'
    BY <2>1, <2>2 DEF ShownOrComing
  <2> QED
    BY <2>1, <2>3, QuietKeeps
<1>4. ASSUME NEW s \in shown, NEW in_port \in InPorts, NEW actions \in ActionLists,
             NEW buffered \in BOOLEAN, handle_packet_out(s, in_port, actions, buffered)
      PROVE  Kept'
  <2>1. UNCHANGED <<inbound, shown, emitted, arrived, lost>>
    BY <1>4 DEF handle_packet_out
  <2>2. CASE UNCHANGED <<channel, asked>>
    <3>1. ShownOrComing => ShownOrComing'
      BY <2>1 DEF ShownOrComing
    <3> QED
      BY <2>1, <2>2, <3>1, QuietKeeps
  <2> DEFINE ask == [dpt |-> m_slave, packet |-> s.packet, tag |-> s.tag, in_port |-> in_port,
                     actions |-> actions]
  <2>3. CASE /\ Connected
             /\ channel' = [channel EXCEPT ![m_slave] =
                              @ \o packet_outs(s.packet, s.tag, in_port, actions)]
             /\ asked' = asked \cup {ask}
    <3>1. s.packet \in PacketIds /\ s.tag \in VlanTags
      BY DEF OutInv, RestTyped, Shown
    <3>2. m_slave \in Dpts
      BY <2>3 DEF Connected, ConnTypeOK
    <3> DEFINE outs == packet_outs(s.packet, s.tag, in_port, actions)
    <3>3. outs \in Seq(Message)
      BY <3>1, PacketOutsSend
    <3>4. PICK o : o = ask
      OBVIOUS
    <3>5. /\ o \in Order /\ o.dpt = m_slave
          /\ packet_outs(o.packet, o.tag, o.in_port, o.actions) = outs
      BY <3>1, <3>2, <3>4 DEF Order
    <3>6. asked' = asked \cup {o}
      BY <2>3, <3>4
    <3>7. channel' = [channel EXCEPT ![m_slave] = @ \o outs]
      BY <2>3
    <3>8. \A p \in Targets(o) : \E j \in DOMAIN outs : Carries(outs[j], o, p)
      BY <3>5, TargetsCarried
    <3> HIDE DEF outs, ask
    <3>9. \A w \in asked' :
            \/ w \in asked
            \/ w.dpt = m_slave /\ \A p \in Targets(w) : \E i \in DOMAIN outs : Carries(outs[i], w, p)
      BY <3>5, <3>6, <3>8
    <3>10. UNCHANGED <<inbound, shown, arrived, emitted, lost>>
      BY <2>1
    <3> QED
      BY <3>2, <3>3, <3>7, <3>9, <3>10, SendingKeeps
  <2> QED
    BY <1>4, <2>2, <2>3 DEF handle_packet_out
<1>5. ASSUME NEW c \in Ctls, NEW port \in 0 .. Len(PortMap) + 1, handle_port_mod(c, port)
      PROVE  Kept'
  <2>1. UNCHANGED <<inbound, shown, emitted, arrived, asked, lost>>
    BY <1>5 DEF handle_port_mod
  <2>2. CASE UNCHANGED channel
    <3>1. ShownOrComing => ShownOrComing'
      BY <2>1 DEF ShownOrComing
    <3> QED
      BY <2>1, <2>2, <3>1, QuietKeeps
  <2>3. CASE /\ port \in VirtualPorts /\ Connected
             /\ channel' = [channel EXCEPT ![m_slave] = Append(@, PortMod(real_port(port)))]
    <3> DEFINE sent == <<PortMod(real_port(port))>>
    <3>1. PortMod(real_port(port)) \in Message
      BY <2>3 DEF Message, PortMod
    <3>2. sent \in Seq(Message)
      BY <3>1
    <3>3. m_slave \in Dpts
      BY <2>3 DEF Connected, ConnTypeOK
    <3>4. channel' = [channel EXCEPT ![m_slave] = @ \o sent]
      BY <2>3, <3>1, <3>3, AppendIsConcat DEF OutInv
    <3> HIDE DEF sent
    <3> QED
      BY <2>1, <3>2, <3>3, <3>4, SendingKeeps
  <2> QED
    BY <1>5, <2>2, <2>3 DEF handle_port_mod
<1>6. ASSUME NEW c \in Ctls, handle_set_config(c)
      PROVE  Kept'
  <2>1. UNCHANGED <<inbound, shown, emitted, arrived, asked, lost>>
    BY <1>6 DEF handle_set_config
  <2>2. CASE UNCHANGED channel
    <3>1. ShownOrComing => ShownOrComing'
      BY <2>1 DEF ShownOrComing
    <3> QED
      BY <2>1, <2>2, <3>1, QuietKeeps
  <2>3. CASE Connected /\ channel' = [channel EXCEPT ![m_slave] = Append(@, SetConfig)]
    <3> DEFINE sent == <<SetConfig>>
    <3>1. SetConfig \in Message
      BY DEF Message
    <3>2. sent \in Seq(Message)
      BY <3>1
    <3>3. m_slave \in Dpts
      BY <2>3 DEF Connected, ConnTypeOK
    <3>4. channel' = [channel EXCEPT ![m_slave] = @ \o sent]
      BY <2>3, <3>1, <3>3, AppendIsConcat DEF OutInv
    <3> HIDE DEF sent
    <3> QED
      BY <2>1, <3>2, <3>3, <3>4, SendingKeeps
  <2> QED
    BY <1>6, <2>2, <2>3 DEF handle_set_config
<1>7. ASSUME NEW d \in Dpts, SwitchObeys(d)
      PROVE  Kept'
  <2>1. UNCHANGED <<inbound, shown, arrived, asked>>
    BY <1>7 DEF SwitchObeys
  <2> SUFFICES ASSUME ~lost' PROVE ShownOrComing' /\ OrdersKept'
    BY DEF Kept
  <2>2. PICK m : m = Head(channel[d])
    OBVIOUS
  <2>3. /\ emitted' = emitted \cup
             IF m.type # "packet_out" THEN {}
             ELSE {[dpt |-> d, packet |-> m.packet, port |-> e.port, vlan |-> e.vlan] :
                      e \in {x \in Emissions(m.tag, m.actions) : x.port # m.in_port}}
        /\ ~lost
    BY <1>7, <2>2 DEF SwitchObeys, OutInv, RestTyped
  <2>4. ShownOrComing'
    BY <2>1, <2>3 DEF Kept, ShownOrComing
  <2>5. /\ channel[d] \in Seq(Message) /\ channel[d] # <<>>
        /\ channel'[d] = Tail(channel[d])
        /\ \A e \in Dpts : e # d => channel'[e] = channel[e]
    BY <1>7 DEF SwitchObeys, OutInv
  <2>6. ASSUME NEW o \in asked, NEW p, Left(o, p) PROVE Left(o, p)'
    BY <2>3, <2>6 DEF Left
  <2>7. ASSUME NEW o \in asked, o.dpt = d, NEW p, Carries(m, o, p), ~Suppressed(o, p)
        PROVE  Left(o, p)'
    <3>1. m.type = "packet_out"
      BY <2>7 DEF Carries
    <3>2. PICK e \in {x \in Emissions(m.tag, m.actions) : x.port # m.in_port} :
            LeavesAs([dpt |-> d, packet |-> m.packet, port |-> e.port, vlan |-> e.vlan], o, p)
      BY <2>7, CarriedLeaves
    <3>3. [dpt |-> d, packet |-> m.packet, port |-> e.port, vlan |-> e.vlan] \in emitted'
      BY <2>3, <3>1
    <3> QED
      BY <3>2, <3>3 DEF Left
  <2>8. ASSUME NEW o \in asked, NEW p, Waits(o, p), ~Suppressed(o, p)
        PROVE  Left(o, p)' \/ Waits(o, p)'
    <3>1. PICK c : c = o.dpt
      OBVIOUS
    <3>2. c \in Dpts
      BY <3>1 DEF OutInv, RestTyped, Order
    <3>3. PICK x : ElementOf(x, channel[c]) /\ Carries(x, o, p)
      BY <2>8, <3>1 DEF Waits, ElementOf
    <3>4. (c = d /\ x = m) \/ ElementOf(x, channel'[c])
      <4>1. CASE c = d
        BY <2>2, <2>5, <3>3, <4>1, TailElements
      <4>2. CASE c # d
        BY <2>5, <3>2, <3>3, <4>2
      <4> QED
        BY <4>1, <4>2
    <3>5. ElementOf(x, channel'[c]) => Waits(o, p)'
      BY <3>1, <3>3 DEF Waits, ElementOf
    <3> QED
      BY <2>7, <2>8, <3>1, <3>3, <3>4, <3>5
  <2>9. OrdersKept'
    BY <2>1, <2>3, <2>6, <2>8 DEF Kept, OrdersKept
  <2> QED
    BY <2>4, <2>9
<1>8. ASSUME NEW d \in Dpts, SwitchLeaves(d)
      PROVE  Kept'
  <2>1. /\ UNCHANGED <<shown, arrived, asked, emitted>>
        /\ lost' = (lost \/ inbound' # inbound \/ channel' # channel)
    BY <1>8 DEF SwitchLeaves
  <2>2. CASE lost'
    BY <2>2 DEF Kept
  <2>3. CASE ~lost'
    BY <2>1, <2>3, QuietKeeps DEF ShownOrComing
  <2> QED
    BY <2>2, <2>3
<1>9. CASE PeersComeAndGo
  BY <1>9, QuietKeeps DEF PeersComeAndGo, pktVars, ShownOrComing
<1> QED
  BY <1>1, <1>2, <1>3, <1>4, <1>5, <1>6, <1>7, <1>8, <1>9 DEF Next

\* For any lists and any map: what is not lost on the way is not lost in the proxy.
\* Every packet of a known port is shown, and every output asked for leaves the switch
\* it was asked of, with its tag, unless its actual port has the number of the in_port.
THEOREM PacketsNeverVanish == PktSpec => []NothingVanishes
<1>1. Init => Kept
  BY DEF Init, Kept, ShownOrComing, OrdersKept
<1>2. ConnTypeOK /\ OutInv /\ Kept /\ [Next]_vars => Kept'
  BY KeptNext
<1>3. Kept => NothingVanishes
  BY KeptIsNothingVanishes
<1> QED
  BY <1>1, <1>2, <1>3, OutInvariance, PTL DEF PktSpec
=============================================================================
