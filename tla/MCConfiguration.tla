--------------------------- MODULE MCConfiguration ---------------------------
(***************************************************************************)
(* Files in the manner of config_xcpd.cfg and of scripts/: one thing after *)
(* the other is left out, doubled, misspelt or out of range, in the        *)
(* section of the switch and in the group xcpd independently.              *)
(***************************************************************************)
EXTENDS Configuration

Lsi == [name |-> "dp0", mode |-> "active", master_ip |-> "10.0.0.1", master_port |-> 6633,
        bind_ip |-> Absent, bind_port |-> Absent, dpid |-> "0x101",
        ports |-> <<"veth0", NoName, "veth2">>]

Listening(l) == [l EXCEPT !.mode = "passive", !.master_ip = Absent, !.master_port = Absent,
                          !.bind_ip = l.master_ip, !.bind_port = l.master_port]

Lsis ==
    LET changed == {Lsi, [Lsi EXCEPT !.mode = "both"], [Lsi EXCEPT !.mode = Absent],
                    [Lsi EXCEPT !.master_port = 0], [Lsi EXCEPT !.master_port = Absent],
                    [Lsi EXCEPT !.master_ip = Absent, !.master_port = Absent],
                    [Lsi EXCEPT !.dpid = Absent], [Lsi EXCEPT !.ports = Absent],
                    [Lsi EXCEPT !.ports = <<"veth2", "veth2", "veth0">>]}
        single == changed \cup {Listening(l) : l \in changed} \cup {[Lsi EXCEPT !.mode = "passive"]}
    IN  {<<l>> : l \in single} \cup {<<>>, <<Lsi, [Lsi EXCEPT !.name = "dp1"]>>}

Port(physical, vlan) == [physical |-> physical, vlan |-> vlan]

Sections ==
    {<<>>, <<Port("veth2", Absent)>>, <<Port("veth0", Absent), Port("veth2", 10), Port("veth2", 11)>>,
     <<Port("veth0", 65547), Port("veth2", 10)>>, <<Port("veth0", 4096), Port("veth2", 10)>>,
     <<Port("veth0", 1), Port("veth1", 1)>>, <<Port("veth0", 1), Port(Absent, 1)>>}

Vports ==
    {<<[name |-> "dp0", ports |-> s]>> : s \in Sections} \cup
    {Absent, <<>>, <<[name |-> "dp1", ports |-> <<>>]>>}

Group == [higher_ip |-> "10.0.0.2", higher_port |-> 6634, upward_mode |-> "active",
          switch_ip |-> Absent, switch_port |-> Absent, queue |-> "drop", port_stat |-> Absent,
          port_config |-> "hardware-specific", hm |-> "planet-gepon", vports |-> Absent]

Groups ==
    {[Group EXCEPT !.vports = v] : v \in Vports} \cup
    {[g EXCEPT !.vports = <<[name |-> "dp0", ports |-> <<Port("veth2", 10)>>]>>] : g \in
        {[Group EXCEPT !.upward_mode = "passive"], [Group EXCEPT !.upward_mode = "both"],
         [Group EXCEPT !.upward_mode = Absent, !.hm = Absent], [Group EXCEPT !.higher_ip = Absent],
         [Group EXCEPT !.higher_port = 65536], [Group EXCEPT !.higher_port = Absent],
         [Group EXCEPT !.switch_ip = "10.0.0.3", !.switch_port = 16633],
         [Group EXCEPT !.switch_port = 0], [Group EXCEPT !.queue = "hardware"],
         [Group EXCEPT !.hm = "gepon"], [Group EXCEPT !.port_stat = "passthrough"]}}

MCFiles == {[lsis |-> l, xcpd |-> x] : l \in Lsis, x \in Groups \cup {Absent}}
=============================================================================
