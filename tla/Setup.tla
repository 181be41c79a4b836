-------------------------------- MODULE Setup --------------------------------
(***************************************************************************)
(* What reading a configuration file promises, without hooks and passes:   *)
(* the file is refused, or the proxy runs with what the file says.         *)
(* Configuration, which follows the code, implements this.                 *)
(*                                                                         *)
(* A file is a record of its two groups.  xcpd is Absent or holds the      *)
(* settings of that group, where vports is Absent or a sequence of         *)
(* sections [name, ports]; lsis is the sequence of the logical switches.   *)
(* A setting that is not in the file is Absent.                            *)
(***************************************************************************)
EXTENDS Integers, Sequences, FiniteSets

CONSTANTS
    Files,     \* the files there may be
    Absent,    \* a setting, or a group, that the file does not have
    NoVlan,    \* NO_VLAN: the port is untagged
    NoName     \* the empty name

VARIABLES
    file,      \* the configuration file
    phase,     \* "reading", "running" or "refused"
    settings   \* what the proxy runs with, or Absent

setupVars == <<file, phase, settings>>

-----------------------------------------------------------------------------
(***************************************************************************)
(* The meaning of a file                                                   *)
(***************************************************************************)
Handlings == {"drop", "passthrough", "hardware-specific"}

OrElse(setting, default) == IF setting = Absent THEN default ELSE setting

TcpPort(setting) == setting # Absent => 1 <= setting /\ setting <= 65535

\* Has the switch, whose ports are listed in names, one of this name?
Attached(name, names) == name # NoName /\ \E i \in DOMAIN names : names[i] = name

\* The place of the first port of that name in the list, which counts from 1.
\* config_xcpd.cfg:24 (as the files for the other switches): "The order and
\* position in the array dictates the number of", 1 -> veth0, 2 -> veth2.
Position(name, names) == 1 + Cardinality({i \in DOMAIN names : \A j \in 1 .. i : names[j] # name})

EmptyBefore(name, names) ==
    Cardinality({i \in DOMAIN names : names[i] = NoName /\ \A j \in 1 .. i : names[j] # name})

\* The number of a port is its position, except that the code gives the empty
\* names before it no number: a departure from that line, kept to this operator.
NumberOf(name, names) == Position(name, names) - EmptyBefore(name, names)

\* The VLANs there are: cportvlan_mapper.h:25, "Only values 0-0x0fff are valid".
ValidVlans == 0 .. 4095

\* What a virtual port is tagged with.  A valid VLAN stays as it is; of a greater
\* one only 16 bits are looked at (see Excused).
LowBits(vlan) == vlan % 65536

Vlan(p) == IF p.vlan = Absent THEN NoVlan ELSE LowBits(p.vlan)

\* A file without the group xcpd has none of its settings.
Xcpd(f) ==
    IF f.xcpd # Absent THEN f.xcpd
    ELSE [s \in {"higher_ip", "higher_port", "upward_mode", "switch_ip", "switch_port", "queue",
                 "port_stat", "port_config", "hm", "vports"} |-> Absent]

VirtualPorts(f) == IF Xcpd(f).vports = Absent THEN <<>> ELSE f.xcpd.vports[1].ports

SwitchListens(f) == f.lsis[1].mode = "passive"

\* One logical switch, whose address stands where its mode wants it.
SwitchAcceptable(f) ==
    /\ Len(f.lsis) = 1
    /\ LET l == f.lsis[1] IN
       /\ l.dpid # Absent /\ l.ports # Absent
       /\ IF SwitchListens(f)
          THEN l.master_ip = Absent /\ l.master_port = Absent /\ TcpPort(l.bind_port)
          ELSE l.bind_ip = Absent /\ l.bind_port = Absent /\ TcpPort(l.master_port)

\* The group xcpd, if there is one, has its addresses and only words it knows.
ProxyAcceptable(f) ==
    f.xcpd # Absent =>
        /\ f.xcpd.higher_ip # Absent /\ f.xcpd.higher_port # Absent
        /\ TcpPort(f.xcpd.higher_port)
        /\ TcpPort(f.xcpd.switch_port)
        /\ f.xcpd.queue \in Handlings \cup {Absent}
        /\ f.xcpd.port_stat \in Handlings \cup {Absent}
        /\ f.xcpd.port_config \in Handlings \cup {Absent}
        /\ f.xcpd.hm \in {"planet-gepon", Absent}

\* Virtual ports are those of the one switch, each on a port it has, and its
\* VLAN, if it has one, is in vlans.
PortsAcceptable(f, vlans) ==
    /\ Xcpd(f).vports # Absent =>
         Len(f.xcpd.vports) = 1 /\ f.xcpd.vports[1].name = f.lsis[1].name
    /\ \A i \in DOMAIN VirtualPorts(f) : LET p == VirtualPorts(f)[i] IN
         /\ p.physical # Absent /\ Attached(p.physical, f.lsis[1].ports)
         /\ p.vlan # Absent => p.vlan \in vlans

AcceptableOn(f, vlans) == SwitchAcceptable(f) /\ ProxyAcceptable(f) /\ PortsAcceptable(f, vlans)

Acceptable(f) == AcceptableOn(f, ValidVlans)

\* A file the code does not refuse although it should: a VLAN in it is too great,
\* and by a multiple of 2^16, so that the 16 bits that are looked at are valid.
Excused(f) == ~Acceptable(f) /\ AcceptableOn(f, {v \in Nat : LowBits(v) \in ValidVlans})

\* Where the proxy meets the switch: the switch's own section comes before the
\* settings of xcpd, and these before the defaults.
SwitchAddress(f) ==
    LET l == f.lsis[1] IN
    [ip   |-> OrElse(IF SwitchListens(f) THEN l.bind_ip ELSE l.master_ip,
                     OrElse(Xcpd(f).switch_ip, "127.0.0.1")),
     port |-> OrElse(IF SwitchListens(f) THEN l.bind_port ELSE l.master_port,
                     OrElse(Xcpd(f).switch_port, 6631))]

Meaning(f) ==
    [ports |-> [i \in DOMAIN VirtualPorts(f) |->
                  [port |-> NumberOf(VirtualPorts(f)[i].physical, f.lsis[1].ports),
                   vlan |-> Vlan(VirtualPorts(f)[i])]],
     dials_switch       |-> SwitchListens(f),
     switch             |-> SwitchAddress(f),
     listens_controller |-> Xcpd(f).upward_mode = "passive",
     controller         |-> [ip   |-> OrElse(Xcpd(f).higher_ip, "127.0.0.1"),
                             port |-> OrElse(Xcpd(f).higher_port, 6633)],
     dpid        |-> f.lsis[1].dpid,
     queue       |-> OrElse(Xcpd(f).queue, "passthrough"),
     port_stat   |-> OrElse(Xcpd(f).port_stat, "passthrough"),
     port_config |-> OrElse(Xcpd(f).port_config, "passthrough"),
     hm          |-> Xcpd(f).hm]

-----------------------------------------------------------------------------
(***************************************************************************)
(* One step decides                                                        *)
(***************************************************************************)
SetupInit == file \in Files /\ phase = "reading" /\ settings = Absent

\* The proxy runs with what the file says if the file is acceptable, and for no
\* other reason than the one Excused names.
Run ==
    /\ Acceptable(file) \/ Excused(file)
    /\ phase' = "running" /\ settings' = Meaning(file)

Refuse == ~Acceptable(file) /\ phase' = "refused" /\ settings' = settings

Decide == phase = "reading" /\ (Run \/ Refuse) /\ UNCHANGED file

SetupSafe == SetupInit /\ [][Decide]_setupVars

SetupSpec == SetupSafe /\ WF_setupVars(Decide)
=============================================================================
