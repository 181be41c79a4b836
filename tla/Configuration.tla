---------------------------- MODULE Configuration ----------------------------
(***************************************************************************)
(* From the configuration file to the running proxy.  xcpd_config::init    *)
(* reads the file twice, in a dry run and then in earnest; each time the   *)
(* scopes of config/ are walked from the outside in, every one with a hook *)
(* before and after its parts, and the hooks put what they find into the   *)
(* one control_manager.  The group xcpd comes first, so its virtual ports  *)
(* can only be resolved in the second reading, with the names that the     *)
(* section of the switch has left behind in the first.  main then builds   *)
(* the map of ports and the proxy.                                         *)
(*                                                                         *)
(* One action is one hook, or what a scope demands of its group; `hook' is *)
(* the one that comes next.  Whatever a hook throws ends the process, so   *)
(* what it had assigned before does not matter.                            *)
(***************************************************************************)
EXTENDS Integers, Sequences, FiniteSets

CONSTANTS
    Files,   \* the files there may be; Setup says what a file is
    Absent,  \* a setting, or a group, that the file does not have
    NoVlan,  \* NO_VLAN
    NoName   \* the empty name

Names == STRING \cup {NoName}
Words == STRING \cup {Absent}
Ints  == Int \cup {Absent}

LsiType ==
    [name : STRING, mode : Words, master_ip : Words, master_port : Ints, bind_ip : Words,
     bind_port : Ints, dpid : Words, ports : Seq(Names) \cup {Absent}]

VportType == [physical : Words, vlan : Nat \cup {Absent}]

XcpdType ==
    [higher_ip : Words, higher_port : Ints, upward_mode : Words, switch_ip : Words,
     switch_port : Ints, queue : Words, port_stat : Words, port_config : Words, hm : Words,
     vports : Seq([name : STRING, ports : Seq(VportType)]) \cup {Absent}]

ASSUME FilesAssumption ==
    /\ Absent \notin Int /\ Absent # "passive" /\ NoVlan \notin Nat
    /\ \A f \in Files : f.lsis \in Seq(LsiType) /\ f.xcpd \in XcpdType \cup {Absent}

VARIABLES
    file,       \* the file, the same in both readings
    hook,       \* what runs next, or "running", "refused"
    dry_run,    \* is this the first reading?
    next_port,  \* the virtual port whose scope is executed next
    cm,         \* the members of the control_manager (in port_names the empty
                \* names of the file keep their places)
    proxy       \* what morpheus is constructed with, or Absent

vars == <<file, hook, dry_run, next_port, cm, proxy>>

Hooks == {"xcpd", "virtual-ports", "port", "xcpd-end", "logical-switches", "lsi", "main"}

CmType ==
    /\ cm.port_names \in Seq(Names)
    /\ \A i \in DOMAIN cm.vports :
         cm.vports[i].real_port \in 0 .. Len(cm.port_names) - 1 /\ cm.vports[i].number = i
    /\ cm.switch_active \in BOOLEAN /\ cm.control_active \in BOOLEAN
    /\ {cm.queue, cm.port_stat, cm.port_config} \subseteq {"drop", "passthrough", "hardware-specific"}

CfgTypeOK ==
    /\ file \in Files
    /\ hook \in Hooks \cup {"running", "refused"}
    /\ dry_run \in BOOLEAN
    /\ next_port \in Nat
    /\ CmType
    /\ hook # "running" => proxy = Absent

\* control_manager::init: the defaults.
CmInit ==
    [switch_name |-> NoName, port_names |-> <<>>, vports |-> <<>>,
     switch_addr |-> [ip |-> "127.0.0.1", port |-> 6631],
     higher_addr |-> [ip |-> "127.0.0.1", port |-> 6633],
     switch_active |-> TRUE, control_active |-> TRUE, dpid |-> Absent,
     queue |-> "passthrough", port_stat |-> "passthrough", port_config |-> "passthrough",
     hm |-> Absent]

Init ==
    /\ file \in Files
    /\ hook = "xcpd" /\ dry_run = TRUE /\ next_port = 1
    /\ cm = CmInit
    /\ proxy = Absent

-----------------------------------------------------------------------------
(***************************************************************************)
(* The control manager                                                     *)
(***************************************************************************)

\* A setter, called for a setting that the file has.
set(old, setting) == IF setting = Absent THEN old ELSE setting

\* Mutant: the ports are counted from 1.
port_no_from_one(name) ==
    IF name # NoName /\ \E i \in DOMAIN cm.port_names : cm.port_names[i] = name
    THEN 1 + Cardinality({i \in DOMAIN cm.port_names :
                            cm.port_names[i] # NoName /\ \A j \in 1 .. i : cm.port_names[j] # name})
    ELSE -1

\* The index of a port of the switch: how many names come before its own (the
\* empty ones, which add_port never gets, are not counted), or -1.
get_port_no(name) ==
    IF name # NoName /\ \E i \in DOMAIN cm.port_names : cm.port_names[i] = name
    THEN Cardinality({i \in DOMAIN cm.port_names :
                        cm.port_names[i] # NoName /\ \A j \in 1 .. i : cm.port_names[j] # name})
    ELSE -1

\* A virtual port.  Its MAC address and its name are made from a running
\* number; the mac and the name in the file are set on a copy that is dropped.
virtual_port(p) ==
    [real_port |-> get_port_no(p.physical), vlan |-> set(NoVlan, p.vlan), number |-> Len(cm.vports) + 1]

-----------------------------------------------------------------------------
(***************************************************************************)
(* The hooks                                                               *)
(***************************************************************************)
Refuse == hook' = "refused" /\ UNCHANGED <<file, dry_run, next_port, cm, proxy>>

\* The hook is passed, the next one is h.
Proceed(h) == hook' = h /\ UNCHANGED <<file, dry_run, proxy>>

TcpPort(setting) == setting = Absent \/ (1 <= setting /\ setting <= 65535)

\* "passive" or "active"; any other word counts as active, in the dry run only.
mode(old, setting) ==
    /\ setting # "passive"
    /\ setting = "active" \/ (setting # Absent /\ dry_run) \/ old

\* The group xcpd may be missing, its mandatory parameters may not.
xcpd_scope_execute ==
    /\ hook = "xcpd"
    /\ IF file.xcpd = Absent
       THEN Proceed("logical-switches") /\ UNCHANGED <<next_port, cm>>
       ELSE IF file.xcpd.higher_ip = Absent \/ file.xcpd.higher_port = Absent
       THEN Refuse
       ELSE /\ Proceed(IF file.xcpd.vports = Absent THEN "xcpd-end" ELSE "virtual-ports")
            /\ UNCHANGED <<next_port, cm>>

\* Exactly one switch has virtual ports; its name is known in the second reading.
virtual_port_scope_pre_validate ==
    /\ hook = "virtual-ports"
    /\ IF Len(file.xcpd.vports) # 1 \/ (~dry_run /\ file.xcpd.vports[1].name # cm.switch_name)
       THEN Refuse
       ELSE Proceed("port") /\ next_port' = 1 /\ UNCHANGED cm

\* Mutant: virtual ports are bound in the dry run too.
one_port_scope_binds_twice ==
    /\ hook = "port"
    /\ IF next_port > Len(file.xcpd.vports[1].ports)
       THEN Proceed("xcpd-end") /\ UNCHANGED <<next_port, cm>>
       ELSE LET p == file.xcpd.vports[1].ports[next_port] IN
            IF p.physical = Absent \/ get_port_no(p.physical) < 0
            THEN Refuse
            ELSE /\ Proceed("port") /\ next_port' = next_port + 1
                 /\ cm' = [cm EXCEPT !.vports = Append(@, virtual_port(p))]

\* Every virtual port names an actual one, which must exist when it is bound.
one_port_scope ==
    /\ hook = "port"
    /\ IF next_port > Len(file.xcpd.vports[1].ports)
       THEN Proceed("xcpd-end") /\ UNCHANGED <<next_port, cm>>
       ELSE LET p == file.xcpd.vports[1].ports[next_port] IN
            IF p.physical = Absent \/ (~dry_run /\ get_port_no(p.physical) < 0)
            THEN Refuse
            ELSE /\ Proceed("port") /\ next_port' = next_port + 1
                 /\ cm' = IF dry_run THEN cm ELSE [cm EXCEPT !.vports = Append(@, virtual_port(p))]

\* parse_command_handling and parse_hardware_manager throw for unknown words.
KnownWords(x) ==
    /\ x.queue \in {"drop", "passthrough", "hardware-specific", Absent}
    /\ x.port_stat \in {"drop", "passthrough", "hardware-specific", Absent}
    /\ x.port_config \in {"drop", "passthrough", "hardware-specific", Absent}
    /\ x.hm \in {"planet-gepon", Absent}

\* Addresses and modes are set in both readings, the handlings in the first.
xcpd_scope_post_validate ==
    /\ hook = "xcpd-end"
    /\ LET x == file.xcpd
           addressed == [cm EXCEPT !.control_active = mode(@, x.upward_mode),
                                   !.higher_addr = [ip |-> x.higher_ip, port |-> x.higher_port],
                                   !.switch_addr = [ip |-> set(@.ip, x.switch_ip),
                                                    port |-> set(@.port, x.switch_port)]]
       IN  IF ~TcpPort(x.higher_port) \/ ~TcpPort(x.switch_port) \/ (dry_run /\ ~KnownWords(x))
           THEN Refuse
           ELSE /\ Proceed("logical-switches") /\ UNCHANGED next_port
                /\ cm' = IF ~dry_run THEN addressed
                         ELSE [addressed EXCEPT !.queue = set(@, x.queue),
                                                !.port_stat = set(@, x.port_stat),
                                                !.port_config = set(@, x.port_config),
                                                !.hm = set(@, x.hm)]

\* There is exactly one switch.
xcpd_of_lsis_scope_pre_validate ==
    /\ hook = "logical-switches"
    /\ IF Len(file.lsis) # 1
       THEN Refuse
       ELSE /\ Proceed("lsi") /\ UNCHANGED next_port
            /\ cm' = IF dry_run THEN [cm EXCEPT !.switch_name = file.lsis[1].name] ELSE cm

\* The address of the switch is in master-controller if the switch dials, and
\* in bind-address if it listens; the other must not be given.
lsi_address(l) ==
    IF l.mode = "passive" THEN [ip |-> l.bind_ip, port |-> l.bind_port]
    ELSE [ip |-> l.master_ip, port |-> l.master_port]

lsi_misplaced(l) ==
    IF l.mode = "passive" THEN l.master_ip # Absent \/ l.master_port # Absent
    ELSE l.bind_ip # Absent \/ l.bind_port # Absent

\* Mutant: the names of the ports are added in each reading.
lsi_settings_twice(l) ==
    [cm EXCEPT !.switch_active = mode(@, l.mode),
               !.switch_addr = [ip |-> set(@.ip, lsi_address(l).ip),
                                port |-> set(@.port, lsi_address(l).port)],
               !.dpid = IF dry_run THEN @ ELSE l.dpid,
               !.port_names = @ \o l.ports]

\* What the section of the switch puts into the control manager: the names of
\* the ports in the first reading, the dpid in the second.
lsi_settings(l) ==
    [cm EXCEPT !.switch_active = mode(@, l.mode),
               !.switch_addr = [ip |-> set(@.ip, lsi_address(l).ip),
                                port |-> set(@.port, lsi_address(l).port)],
               !.dpid = IF dry_run THEN @ ELSE l.dpid,
               !.port_names = IF dry_run THEN @ \o l.ports ELSE @]

\* The last hook of a reading: the second reading follows, or main goes on.
xcpd_lsi_scope ==
    /\ hook = "lsi"
    /\ LET l == file.lsis[1] IN
       IF l.dpid = Absent \/ lsi_misplaced(l) \/ ~TcpPort(lsi_address(l).port) \/ l.ports = Absent
       THEN Refuse
       ELSE /\ hook' = IF dry_run THEN "xcpd" ELSE "main"
            /\ dry_run' = FALSE
            /\ cm' = lsi_settings(l)
            /\ UNCHANGED <<file, next_port, proxy>>

-----------------------------------------------------------------------------
(***************************************************************************)
(* main                                                                    *)
(***************************************************************************)

\* VLANID takes 16 bits of the VLAN and throws above 4095.
vlan_id(v) == IF v = NoVlan THEN NoVlan ELSE v % 65536

\* morpheus gets the map, and the roles: it listens where the other side dials.
Construct(mapper) ==
    /\ hook' = "running"
    /\ proxy' = [mapper |-> mapper, indpt |-> ~cm.switch_active, dptaddr |-> cm.switch_addr,
                 inctl |-> ~cm.control_active, ctladdr |-> cm.higher_addr]
    /\ UNCHANGED <<file, dry_run, next_port, cm>>

Representable(v) == v = NoVlan \/ vlan_id(v) <= 4095

main ==
    /\ hook = "main"
    /\ IF \E i \in DOMAIN cm.vports : ~Representable(cm.vports[i].vlan)
       THEN Refuse
       ELSE Construct([i \in DOMAIN cm.vports |->
                         [port |-> cm.vports[i].real_port + 1, vlan |-> vlan_id(cm.vports[i].vlan)]])

Next ==
    \/ xcpd_scope_execute \/ virtual_port_scope_pre_validate \/ one_port_scope
    \/ xcpd_scope_post_validate \/ xcpd_of_lsis_scope_pre_validate \/ xcpd_lsi_scope
    \/ main

SafeSpec == Init /\ [][Next]_vars

\* The process runs; nothing in it waits.
Spec == SafeSpec /\ WF_vars(Next)

-----------------------------------------------------------------------------
(***************************************************************************)
(* Properties                                                              *)
(***************************************************************************)

\* While it reads, the proxy has decided nothing; when it runs, the settings
\* are those of the constructed proxy and of the control manager.
Contract == INSTANCE Setup WITH
    phase    <- IF hook \in {"running", "refused"} THEN hook ELSE "reading",
    settings <- IF hook # "running" THEN Absent
                ELSE [ports |-> proxy.mapper,
                      dials_switch |-> proxy.indpt, switch |-> proxy.dptaddr,
                      listens_controller |-> proxy.inctl, controller |-> proxy.ctladdr,
                      dpid |-> cm.dpid, queue |-> cm.queue, port_stat |-> cm.port_stat,
                      port_config |-> cm.port_config, hm |-> cm.hm]

\* Two readings, their hooks and main come to what the file means: the proxy
\* runs with that, or the file is refused for a fault it has, and one of the two
\* does happen.  Setup names the two departures from what the files and headers
\* document (NumberOf, Excused).
ReadsTheFile == Contract!SetupSpec

\* The second reading, which sees the names and words the first left behind,
\* changes none of them: both walk the same file.
SecondReadingKeeps ==
    [][~dry_run => /\ cm'.switch_name = cm.switch_name /\ cm'.port_names = cm.port_names
                   /\ cm'.switch_active = cm.switch_active /\ cm'.hm = cm.hm
                   /\ cm'.control_active = cm.control_active
                   /\ cm'.port_config = cm.port_config]_vars
=============================================================================
