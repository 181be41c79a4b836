------------------------- MODULE ConfigurationProofs -------------------------
(***************************************************************************)
(* Reading a file in two passes comes to what Setup says of it, for any    *)
(* set of files.  The invariant says at every hook what the control        *)
(* manager holds and what has been found in order so far; a hook that      *)
(* refuses has then found the file wrong in Setup's sense, and main finds  *)
(* everything in place.                                                    *)
(***************************************************************************)
EXTENDS Configuration, TLAPS, FiniteSetTheorems, SequenceTheorems

X == Contract!Xcpd(file)
L == file.lsis[1]
P == Contract!VirtualPorts(file)

\* Has the hook after the group xcpd been passed, in this reading or before?
XcpdRead == ~dry_run \/ hook \in {"logical-switches", "lsi"}

\* r has the members of the control manager, and no other.
IsCm(r) ==
    r = [switch_name |-> r.switch_name, port_names |-> r.port_names, vports |-> r.vports,
         switch_addr |-> r.switch_addr, higher_addr |-> r.higher_addr,
         switch_active |-> r.switch_active, control_active |-> r.control_active,
         dpid |-> r.dpid, queue |-> r.queue, port_stat |-> r.port_stat,
         port_config |-> r.port_config, hm |-> r.hm]

IsAddress(a) == a = [ip |-> a.ip, port |-> a.port]

IsVport(v) == v = [real_port |-> v.real_port, vlan |-> v.vlan, number |-> v.number]

Types ==
    /\ file \in Files /\ dry_run \in BOOLEAN /\ next_port \in Nat \ {0}
    /\ hook \in Hooks \cup {"running", "refused"}
    /\ IsCm(cm) /\ IsAddress(cm.switch_addr) /\ IsAddress(cm.higher_addr)
    /\ CmType
    /\ \E V : cm.vports \in Seq(V)
    /\ dry_run => cm.vports = <<>>
    /\ hook # "running" => proxy = Absent

\* What has been found in order, in this reading or in the first.
Checked ==
    /\ hook \in {"virtual-ports", "port", "xcpd-end"} =>
         file.xcpd # Absent /\ file.xcpd.higher_ip # Absent /\ file.xcpd.higher_port # Absent
    /\ hook \in {"virtual-ports", "port"} => file.xcpd.vports # Absent
    /\ hook = "port" => Len(file.xcpd.vports) = 1
    /\ XcpdRead => Contract!ProxyAcceptable(file)
    /\ hook = "lsi" => Len(file.lsis) = 1
    /\ ~dry_run => Contract!SwitchAcceptable(file)
    /\ dry_run => hook # "main"

\* The settings of the group xcpd, once it has been read, and the defaults before.
AfterXcpd ==
    /\ cm.control_active <=> X.upward_mode # "passive"
    /\ cm.higher_addr = [ip |-> Contract!OrElse(X.higher_ip, "127.0.0.1"),
                         port |-> Contract!OrElse(X.higher_port, 6633)]
    /\ cm.queue = Contract!OrElse(X.queue, "passthrough")
    /\ cm.port_stat = Contract!OrElse(X.port_stat, "passthrough")
    /\ cm.port_config = Contract!OrElse(X.port_config, "passthrough")
    /\ cm.hm = X.hm

BeforeXcpd ==
    /\ cm.control_active = TRUE
    /\ cm.higher_addr = [ip |-> "127.0.0.1", port |-> 6633]
    /\ cm.queue = "passthrough" /\ cm.port_stat = "passthrough"
    /\ cm.port_config = "passthrough" /\ cm.hm = Absent

FromXcpd == (XcpdRead => AfterXcpd) /\ (~XcpdRead => BeforeXcpd)

\* Those of the switch's section, once it has been read.
FromLsi ==
    /\ cm.switch_active <=> dry_run \/ L.mode # "passive"
    /\ cm.port_names = IF dry_run THEN <<>> ELSE L.ports
    /\ ~dry_run \/ hook = "lsi" => cm.switch_name = L.name
    /\ hook \in {"main", "running"} => ~dry_run /\ cm.dpid = L.dpid

\* The address of the switch is written twice in each reading.
FromBoth ==
    cm.switch_addr =
      IF dry_run
      THEN IF XcpdRead THEN [ip |-> Contract!OrElse(X.switch_ip, "127.0.0.1"),
                             port |-> Contract!OrElse(X.switch_port, 6631)]
           ELSE [ip |-> "127.0.0.1", port |-> 6631]
      ELSE IF hook \in {"logical-switches", "lsi"}
      THEN [ip |-> Contract!OrElse(X.switch_ip, Contract!SwitchAddress(file).ip),
            port |-> Contract!OrElse(X.switch_port, Contract!SwitchAddress(file).port)]
      ELSE Contract!SwitchAddress(file)

\* How many virtual ports have been bound at this hook.
BoundNow ==
    IF dry_run \/ hook \in {"xcpd", "virtual-ports"} THEN 0
    ELSE IF hook = "port" THEN next_port - 1 ELSE Len(P)

\* They are bound in the file's order, to the ports that Setup says.
Bound ==
    /\ hook = "port" => next_port <= Len(P) + 1
    /\ Len(cm.vports) = BoundNow
    /\ ~dry_run /\ hook \notin {"xcpd", "virtual-ports"} /\ X.vports # Absent =>
         Len(file.xcpd.vports) = 1 /\ file.xcpd.vports[1].name = L.name
    /\ \A i \in 1 .. Len(cm.vports) :
         /\ P[i].physical # Absent /\ Contract!Attached(P[i].physical, L.ports)
         /\ cm.vports[i] = [real_port |-> Contract!NumberOf(P[i].physical, L.ports) - 1,
                            vlan |-> set(NoVlan, P[i].vlan), number |-> i]

CfgInv == Types /\ (hook # "refused" => Checked /\ FromXcpd /\ FromLsi /\ FromBoth /\ Bound)

-----------------------------------------------------------------------------
(***************************************************************************)
(* Facts about files and ports                                             *)
(***************************************************************************)

\* Fewer names come before that of an attached port than there are names.
LEMMA NumberInRange ==
  ASSUME NEW names \in Seq(Names), NEW name, NEW k \in DOMAIN names, names[k] = name
  PROVE  Cardinality({i \in DOMAIN names : names[i] # NoName /\ \A j \in 1 .. i : names[j] # name})
           \in 0 .. Len(names) - 1
<1> DEFINE B == {i \in DOMAIN names : names[i] # NoName /\ \A j \in 1 .. i : names[j] # name}
           D == 1 .. Len(names)
<1> SUFFICES Cardinality(B) \in 0 .. Len(names) - 1
  OBVIOUS
<1>1. IsFiniteSet(D) /\ Cardinality(D) = Len(names)
  BY FS_Interval
<1>2. k \in D /\ B \subseteq D \ {k}
  <2>1. DOMAIN names = D /\ Len(names) \in Nat
    OBVIOUS
  <2>2. ASSUME NEW i \in B PROVE i \in D \ {k}
    <3>1. i \in D /\ \A j \in 1 .. i : names[j] # name
      BY <2>1, <2>2
    <3> HIDE DEF B
    <3>2. i \in 1 .. Len(names)
      BY <3>1
    <3>3. i \in 1 .. i
      BY <2>1, <3>2
    <3> QED
      BY <3>1, <3>3
  <2> QED
    BY <2>1, <2>2
<1>3. IsFiniteSet(D \ {k}) /\ Cardinality(D \ {k}) = Len(names) - 1
  BY <1>1, <1>2, FS_RemoveElement
<1>4. IsFiniteSet(B) /\ Cardinality(B) <= Len(names) - 1
  <2> HIDE DEF B
  <2>1. IsFiniteSet(B) /\ Cardinality(B) <= Cardinality(D \ {k})
    BY <1>2, <1>3, FS_Subset
  <2> QED
    BY <1>3, <2>1
<1>5. Cardinality(B) \in Nat
  BY <1>4, FS_CardinalityType
<1> HIDE DEF B
<1> QED
  BY <1>4, <1>5

\* The position less the empty names before it: the names before it, and one.
LEMMA NumberCounts ==
  ASSUME NEW names \in Seq(Names), NEW name
  PROVE  (1 + Cardinality({i \in DOMAIN names : \A j \in 1 .. i : names[j] # name}))
           - Cardinality({i \in DOMAIN names : names[i] = NoName /\ \A j \in 1 .. i : names[j] # name})
         = 1 + Cardinality({i \in DOMAIN names : names[i] # NoName /\ \A j \in 1 .. i : names[j] # name})
<1> DEFINE A == {i \in DOMAIN names : \A j \in 1 .. i : names[j] # name}
           E == {i \in DOMAIN names : names[i] = NoName /\ \A j \in 1 .. i : names[j] # name}
           B == {i \in DOMAIN names : names[i] # NoName /\ \A j \in 1 .. i : names[j] # name}
           D == 1 .. Len(names)
<1>1. IsFiniteSet(D) /\ A \subseteq D /\ E \subseteq A /\ B = A \ E /\ A \cap E = E
  <2>1. IsFiniteSet(D)
    BY FS_Interval
  <2>2. DOMAIN names = D
    OBVIOUS
  <2>3. A \subseteq D
    BY <2>2
  <2>4. \A i : i \in E <=> i \in A /\ names[i] = NoName
    OBVIOUS
  <2>5. \A i : i \in B <=> i \in A /\ names[i] # NoName
    OBVIOUS
  <2> HIDE DEF A, E, B
  <2> QED
    BY <2>1, <2>3, <2>4, <2>5
<1> SUFFICES (1 + Cardinality(A)) - Cardinality(E) = 1 + Cardinality(B)
  OBVIOUS
<1> HIDE DEF A, E, B, D
<1>2. IsFiniteSet(A) /\ IsFiniteSet(E)
  BY <1>1, FS_Subset
<1>3. Cardinality(A \ E) = Cardinality(A) - Cardinality(A \cap E)
  BY <1>2, FS_Difference
<1>4. Cardinality(A) \in Nat /\ Cardinality(E) \in Nat
  BY <1>2, FS_CardinalityType
<1>5. Cardinality(B) = Cardinality(A) - Cardinality(E)
  BY <1>1, <1>3
<1> QED
  BY <1>4, <1>5

\* What the assumption says of the file at hand.
LEMMA FileTypes ==
  ASSUME file \in Files
  PROVE  /\ file.lsis \in Seq(LsiType)
         /\ file.xcpd \in XcpdType \cup {Absent}
         /\ Len(file.lsis) = 1 => L \in LsiType
         /\ X \in XcpdType \/ X = [s \in {"higher_ip", "higher_port", "upward_mode", "switch_ip",
                 "switch_port", "queue", "port_stat", "port_config", "hm", "vports"} |-> Absent]
<1> QED
  BY FilesAssumption DEF L, X, Contract!Xcpd

-----------------------------------------------------------------------------
(***************************************************************************)
(* Each hook preserves the invariant and is a step of Setup, or none       *)
(***************************************************************************)
Step == [Contract!Decide]_(Contract!setupVars)

\* The defaults are in place when the first hook runs.
LEMMA InitInv == Init => CfgInv /\ Contract!SetupInit
<1> SUFFICES ASSUME Init PROVE CfgInv /\ Contract!SetupInit
  OBVIOUS
<1>1. /\ hook = "xcpd" /\ dry_run = TRUE /\ next_port = 1 /\ file \in Files /\ proxy = Absent
      /\ cm = CmInit
  BY DEF Init
<1>2. IsCm(cm) /\ IsAddress(cm.switch_addr) /\ IsAddress(cm.higher_addr)
  BY <1>1 DEF CmInit, IsCm, IsAddress
<1>3. CmType
  BY <1>1 DEF CmInit, CmType
<1>4. cm.vports = <<>> /\ cm.vports \in Seq({})
  BY <1>1 DEF CmInit
<1>5. Types
  BY <1>1, <1>2, <1>3, <1>4 DEF Types, Hooks
<1>6. Checked /\ FromXcpd /\ FromLsi /\ FromBoth
  <2>1. ~XcpdRead
    BY <1>1 DEF XcpdRead
  <2>2. Checked
    BY <1>1, <2>1 DEF Checked
  <2>3. FromXcpd
    BY <1>1, <2>1 DEF FromXcpd, BeforeXcpd, CmInit
  <2>4. FromLsi
    BY <1>1 DEF FromLsi, CmInit
  <2>5. FromBoth
    BY <1>1, <2>1 DEF FromBoth, CmInit
  <2> QED
    BY <2>2, <2>3, <2>4, <2>5
<1>7. Bound
  BY <1>1, <1>4 DEF Bound, BoundNow
<1> QED
  BY <1>1, <1>5, <1>6, <1>7 DEF CfgInv, Contract!SetupInit

\* A hook that refuses a file Setup finds unacceptable.
LEMMA RefuseStep ==
  ASSUME CfgInv, hook \in Hooks, Refuse, ~Contract!Acceptable(file)
  PROVE  CfgInv' /\ Step
<1>1. Types'
  BY DEF CfgInv, Types, CmType, Refuse, Hooks
<1>2. CfgInv'
  BY <1>1 DEF CfgInv, Refuse
<1>3. Contract!Decide
  BY DEF Contract!Decide, Contract!Refuse, Refuse, Hooks
<1> QED
  BY <1>2, <1>3 DEF Step

\* A hook that only leads to another one is no step of Setup.
LEMMA StutterStep ==
  ASSUME hook \in Hooks, hook' \in Hooks, file' = file
  PROVE  Step
  BY DEF Step, Hooks, Contract!setupVars

\* Types and values that a hook which only moves on leaves alone.
LEMMA MoveOn ==
  ASSUME CfgInv, hook \in Hooks, hook' \in Hooks, cm' = cm, next_port' \in Nat \ {0},
         UNCHANGED <<file, dry_run, proxy>>
  PROVE  Types'
  BY DEF CfgInv, Types, CmType, Hooks

\* Without the group, the defaults are what Setup says.
LEMMA NoGroup == file.xcpd = Absent /\ BeforeXcpd => AfterXcpd
<1> SUFFICES ASSUME file.xcpd = Absent, BeforeXcpd PROVE AfterXcpd
  OBVIOUS
<1>1. /\ X.upward_mode = Absent /\ X.higher_ip = Absent /\ X.higher_port = Absent
      /\ X.queue = Absent /\ X.port_stat = Absent /\ X.port_config = Absent /\ X.hm = Absent
  BY DEF X, Contract!Xcpd
<1>2. X.upward_mode # "passive"
  BY <1>1, FilesAssumption
<1>3. /\ Contract!OrElse(X.higher_ip, "127.0.0.1") = "127.0.0.1"
      /\ Contract!OrElse(X.higher_port, 6633) = 6633
      /\ Contract!OrElse(X.queue, "passthrough") = "passthrough"
      /\ Contract!OrElse(X.port_stat, "passthrough") = "passthrough"
      /\ Contract!OrElse(X.port_config, "passthrough") = "passthrough"
  BY <1>1 DEF Contract!OrElse
<1> QED
  BY <1>1, <1>2, <1>3 DEF BeforeXcpd, AfterXcpd

\* The scope of the group xcpd.
LEMMA XcpdStep == ASSUME CfgInv, xcpd_scope_execute PROVE CfgInv' /\ Step
<1> USE DEF xcpd_scope_execute
<1>0. hook = "xcpd" /\ hook \in Hooks /\ Types /\ Checked /\ FromXcpd /\ FromLsi /\ FromBoth /\ Bound
  BY DEF CfgInv, Hooks
<1>1. CASE file.xcpd = Absent
  <2>1. /\ hook' = "logical-switches" /\ cm' = cm /\ UNCHANGED <<file, dry_run, next_port, proxy>>
        /\ hook' \in Hooks
    BY <1>0, <1>1 DEF Proceed, Hooks
  <2>2. Types'
    BY <1>0, <2>1, MoveOn DEF Types
  <2>3. X = [s \in {"higher_ip", "higher_port", "upward_mode", "switch_ip", "switch_port", "queue",
                    "port_stat", "port_config", "hm", "vports"} |-> Absent]
        /\ X' = X /\ P' = P /\ L' = L /\ P = <<>>
    BY <1>1, <2>1 DEF X, P, L, Contract!Xcpd, Contract!VirtualPorts
  <2>4. XcpdRead'
    BY <2>1 DEF XcpdRead
  <2>5. Checked'
    <3>1. Contract!ProxyAcceptable(file)
      BY <1>1 DEF Contract!ProxyAcceptable
    <3> QED
      BY <1>0, <2>1, <3>1 DEF Checked
  <2>6. FromXcpd'
    <3>1. AfterXcpd
      BY <1>0, <1>1, NoGroup DEF FromXcpd
    <3>2. AfterXcpd'
      BY <2>1, <2>3, <3>1 DEF AfterXcpd
    <3> QED
      BY <2>4, <3>2 DEF FromXcpd
  <2>7. FromLsi'
    BY <1>0, <2>1, <2>3 DEF FromLsi
  <2>8. FromBoth'
    BY <1>0, <2>1, <2>3, <2>4 DEF FromBoth, XcpdRead, Contract!OrElse, Contract!SwitchAddress
  <2>9. Bound'
    BY <1>0, <2>1, <2>3 DEF Bound, BoundNow
  <2> QED
    BY <1>0, <2>1, <2>2, <2>5, <2>6, <2>7, <2>8, <2>9, StutterStep DEF CfgInv
<1>2. CASE file.xcpd # Absent /\ (file.xcpd.higher_ip = Absent \/ file.xcpd.higher_port = Absent)
  <2>1. ~Contract!Acceptable(file)
    BY <1>2 DEF Contract!Acceptable, Contract!AcceptableOn, Contract!ProxyAcceptable
  <2> QED
    BY <1>0, <1>2, <2>1, RefuseStep
<1>3. CASE file.xcpd # Absent /\ file.xcpd.higher_ip # Absent /\ file.xcpd.higher_port # Absent
  <2>1. /\ hook' = (IF file.xcpd.vports = Absent THEN "xcpd-end" ELSE "virtual-ports")
        /\ cm' = cm /\ UNCHANGED <<file, dry_run, next_port, proxy>> /\ hook' \in Hooks
    BY <1>0, <1>3 DEF Proceed, Hooks
  <2>2. Types'
    BY <1>0, <2>1, MoveOn DEF Types
  <2>3. X' = X /\ P' = P /\ L' = L /\ X = file.xcpd
    BY <1>3, <2>1 DEF X, P, L, Contract!Xcpd
  <2>4. XcpdRead' <=> XcpdRead
    BY <1>0, <2>1 DEF XcpdRead
  <2>5. Checked'
    BY <1>0, <1>3, <2>1, <2>4 DEF Checked
  <2>6. FromXcpd'
    BY <1>0, <2>1, <2>3, <2>4 DEF FromXcpd, AfterXcpd, BeforeXcpd
  <2>7. FromLsi'
    BY <1>0, <2>1, <2>3 DEF FromLsi
  <2>8. FromBoth'
    BY <1>0, <2>1, <2>3, <2>4 DEF FromBoth
  <2>9. Bound'
    BY <1>0, <2>1, <2>3 DEF Bound, BoundNow, P, Contract!VirtualPorts, X
  <2> QED
    BY <1>0, <2>1, <2>2, <2>5, <2>6, <2>7, <2>8, <2>9, StutterStep DEF CfgInv
<1> QED
  BY <1>1, <1>2, <1>3

\* The virtual ports of the file, while their scopes are executed.
LEMMA VirtualPortTypes ==
  ASSUME file \in Files, file.xcpd # Absent, file.xcpd.vports # Absent, Len(file.xcpd.vports) = 1
  PROVE  P = file.xcpd.vports[1].ports /\ P \in Seq(VportType)
<1>1. file.xcpd \in XcpdType
  BY FileTypes
<1>2. file.xcpd.vports \in Seq([name : STRING, ports : Seq(VportType)])
  BY <1>1 DEF XcpdType
<1>3. file.xcpd.vports[1] \in [name : STRING, ports : Seq(VportType)]
  <2> DEFINE S == [name : STRING, ports : Seq(VportType)]
  <2>1. file.xcpd.vports \in Seq(S)
    BY <1>2
  <2> HIDE DEF S
  <2>2. file.xcpd.vports[1] \in S
    BY <2>1
  <2> QED
    BY <2>2 DEF S
<1>4. Contract!Xcpd(file) = file.xcpd
  BY DEF Contract!Xcpd
<1> QED
  BY <1>3, <1>4 DEF P, Contract!VirtualPorts

\* The hook before the virtual ports.
LEMMA VirtualPortsStep == ASSUME CfgInv, virtual_port_scope_pre_validate PROVE CfgInv' /\ Step
<1> DEFINE bad == Len(file.xcpd.vports) # 1
                  \/ (~dry_run /\ file.xcpd.vports[1].name # cm.switch_name)
<1>0. /\ hook = "virtual-ports" /\ hook \in Hooks
      /\ Types /\ Checked /\ FromXcpd /\ FromLsi /\ FromBoth /\ Bound
      /\ IF bad THEN Refuse ELSE Proceed("port") /\ next_port' = 1 /\ UNCHANGED cm
  BY DEF CfgInv, Hooks, virtual_port_scope_pre_validate
<1>1. file.xcpd # Absent /\ file.xcpd.vports # Absent /\ X = file.xcpd /\ file \in Files
  BY <1>0 DEF Checked, X, Contract!Xcpd, Types
<1>2. CASE bad
  <2>1. Contract!Xcpd(file).vports # Absent
    BY <1>1 DEF Contract!Xcpd
  <2>2. ~dry_run => cm.switch_name = file.lsis[1].name
    BY <1>0 DEF FromLsi, L
  <2>3. ~Contract!PortsAcceptable(file, Contract!ValidVlans)
    BY <1>2, <2>1, <2>2 DEF Contract!PortsAcceptable
  <2> QED
    BY <1>0, <1>2, <2>3, RefuseStep DEF Contract!Acceptable, Contract!AcceptableOn
<1>3. CASE ~bad
  <2>1. /\ hook' = "port" /\ cm' = cm /\ next_port' = 1 /\ UNCHANGED <<file, dry_run, proxy>>
        /\ hook' \in Hooks
    BY <1>0, <1>3 DEF Proceed, Hooks
  <2>2. Types'
    BY <1>0, <2>1, MoveOn
  <2>3. X' = X /\ P' = P /\ L' = L
    BY <2>1 DEF X, P, L
  <2>4. Checked'
    BY <1>0, <1>1, <1>3, <2>1 DEF Checked, XcpdRead
  <2>5. FromXcpd'
    BY <1>0, <2>1, <2>3 DEF FromXcpd, AfterXcpd, BeforeXcpd, XcpdRead
  <2>6. FromLsi'
    BY <1>0, <2>1, <2>3 DEF FromLsi
  <2>7. FromBoth'
    BY <1>0, <2>1, <2>3 DEF FromBoth, XcpdRead
  <2>8. Bound'
    <3>1. Len(P) \in Nat
      BY <1>1, <1>3, VirtualPortTypes
    <3>2. Len(cm.vports) = 0
      BY <1>0 DEF Bound, BoundNow
    <3>3. ~dry_run => Len(file.xcpd.vports) = 1 /\ file.xcpd.vports[1].name = L.name
      BY <1>0, <1>3 DEF FromLsi
    <3> QED
      BY <2>1, <2>3, <3>1, <3>2, <3>3 DEF Bound, BoundNow
  <2> QED
    BY <1>0, <2>1, <2>2, <2>4, <2>5, <2>6, <2>7, <2>8, StutterStep DEF CfgInv
<1> QED
  BY <1>2, <1>3

\* get_port_no is Setup's number less one for a port the switch has, else -1.
LEMMA PortNumber ==
  ASSUME NEW name, NEW names, names = cm.port_names, names \in Seq(Names)
  PROVE  /\ ~Contract!Attached(name, names) => get_port_no(name) = -1
         /\ Contract!Attached(name, names) =>
              /\ get_port_no(name) = Contract!NumberOf(name, names) - 1
              /\ get_port_no(name) \in 0 .. Len(names) - 1
              /\ Contract!NumberOf(name, names) \in 1 .. Len(names)
<1> DEFINE B(s) == Cardinality({i \in DOMAIN s : s[i] # NoName /\ \A j \in 1 .. i : s[j] # name})
           has(s) == name # NoName /\ \E i \in DOMAIN s : s[i] = name
<1>1. get_port_no(name) = IF has(cm.port_names) THEN B(cm.port_names) ELSE -1
  BY Zenon DEF get_port_no
<1>2. Contract!Attached(name, names) <=> has(names)
  BY Zenon DEF Contract!Attached
<1>3. Contract!NumberOf(name, names) = 1 + B(names)
  <2> DEFINE A == Cardinality({i \in DOMAIN names : \A j \in 1 .. i : names[j] # name})
             E == Cardinality({i \in DOMAIN names :
                                 names[i] = NoName /\ \A j \in 1 .. i : names[j] # name})
  <2>1. Contract!Position(name, names) = 1 + A
    BY Zenon DEF Contract!Position, Contract!Cardinality, Cardinality
  <2>2. Contract!EmptyBefore(name, names) = E
    BY Zenon DEF Contract!EmptyBefore, Contract!Cardinality, Cardinality
  <2>3. (1 + A) - E = 1 + B(names)
    BY NumberCounts
  <2> HIDE DEF A, E, B
  <2>4. Contract!NumberOf(name, names) = Contract!Position(name, names) - Contract!EmptyBefore(name, names)
    BY Zenon DEF Contract!NumberOf
  <2>5. Contract!NumberOf(name, names) = (1 + A) - E
    BY <2>1, <2>2, <2>4
  <2> QED
    BY <2>3, <2>5, Zenon
<1>4. has(names) => B(names) \in 0 .. Len(names) - 1
  BY NumberInRange
<1>5. Len(names) \in Nat
  OBVIOUS
<1>6. get_port_no(name) = IF has(names) THEN B(names) ELSE -1
  BY <1>1
<1> HIDE DEF B, has
<1> QED
  BY <1>2, <1>3, <1>4, <1>5, <1>6

\* The scope of one virtual port, or the end of them.
LEMMA OnePortStep == ASSUME CfgInv, one_port_scope PROVE CfgInv' /\ Step
<1> DEFINE p == file.xcpd.vports[1].ports[next_port]
           bad == p.physical = Absent \/ (~dry_run /\ get_port_no(p.physical) < 0)
<1>0. /\ hook = "port" /\ hook \in Hooks
      /\ Types /\ Checked /\ FromXcpd /\ FromLsi /\ FromBoth /\ Bound
  BY DEF CfgInv, Hooks, one_port_scope
<1>1. /\ file.xcpd # Absent /\ file.xcpd.vports # Absent /\ file \in Files
      /\ Len(file.xcpd.vports) = 1
  BY <1>0 DEF Checked, Types
<1>2. /\ P = file.xcpd.vports[1].ports /\ P \in Seq(VportType) /\ Len(P) \in Nat
      /\ next_port \in Nat \ {0} /\ next_port <= Len(P) + 1 /\ X = file.xcpd
  BY <1>0, <1>1, VirtualPortTypes DEF Bound, Types, X, Contract!Xcpd
<1>3. XcpdRead <=> ~dry_run
  BY <1>0 DEF XcpdRead
<1>4. ~dry_run => cm.port_names = L.ports
  BY <1>0 DEF FromLsi
<1>5. CASE next_port > Len(P)
  <2>1. /\ hook' = "xcpd-end" /\ cm' = cm /\ UNCHANGED <<file, next_port, dry_run, proxy>>
        /\ hook' \in Hooks
    BY <1>2, <1>5 DEF Proceed, Hooks, one_port_scope
  <2>2. Types'
    BY <1>0, <1>2, <2>1, MoveOn
  <2>3. X' = X /\ P' = P /\ L' = L
    BY <2>1 DEF X, P, L
  <2>4. Checked'
    BY <1>0, <1>1, <2>1 DEF Checked, XcpdRead
  <2>5. FromXcpd'
    BY <1>0, <2>1, <2>3 DEF FromXcpd, AfterXcpd, BeforeXcpd, XcpdRead
  <2>6. FromLsi'
    BY <1>0, <2>1, <2>3 DEF FromLsi
  <2>7. FromBoth'
    BY <1>0, <2>1, <2>3 DEF FromBoth, XcpdRead
  <2>8. Bound'
    BY <1>0, <1>2, <1>5, <2>1, <2>3 DEF Bound, BoundNow
  <2> QED
    BY <1>0, <2>1, <2>2, <2>4, <2>5, <2>6, <2>7, <2>8, StutterStep DEF CfgInv
<1>6. CASE next_port <= Len(P)
  <2>1. next_port \in DOMAIN P /\ p = P[next_port]
    BY <1>2, <1>6
  <2>2. CASE bad
    <3>1. P[next_port].physical = Absent \/ ~Contract!Attached(P[next_port].physical, file.lsis[1].ports)
      <4>1. CASE ~dry_run /\ P[next_port].physical # Absent
        <5>1. cm.port_names = L.ports /\ cm.port_names \in Seq(Names)
          BY <1>0, <1>4, <4>1 DEF Types, CmType
        <5>2. get_port_no(P[next_port].physical) < 0
          BY <2>1, <2>2, <4>1
        <5>3. ~Contract!Attached(P[next_port].physical, L.ports)
          BY <5>1, <5>2, PortNumber
        <5> QED
          BY <5>3 DEF L
      <4> QED
        BY <2>1, <2>2, <4>1
    <3>2. ~Contract!PortsAcceptable(file, Contract!ValidVlans)
      BY <2>1, <3>1 DEF Contract!PortsAcceptable, P
    <3>3. Refuse
      BY <1>2, <1>6, <2>2 DEF one_port_scope
    <3> QED
      BY <1>0, <3>2, <3>3, RefuseStep DEF Contract!Acceptable, Contract!AcceptableOn
  <2>3. CASE ~bad
    <3>1. /\ hook' = "port" /\ hook' \in Hooks /\ next_port' = next_port + 1
          /\ UNCHANGED <<file, dry_run, proxy>>
          /\ cm' = IF dry_run THEN cm ELSE [cm EXCEPT !.vports = Append(@, virtual_port(p))]
      BY <1>2, <1>6, <2>3 DEF Proceed, Hooks, one_port_scope
    <3>2. next_port' \in Nat \ {0}
      BY <1>2, <3>1
    <3>3. X' = X /\ P' = P /\ L' = L
      BY <3>1 DEF X, P, L
    <3>4. CASE dry_run
      <4>1. cm' = cm
        BY <3>1, <3>4
      <4>2. Types'
        BY <1>0, <3>1, <3>2, <4>1, MoveOn
      <4>3. Checked'
        BY <1>0, <3>1, <3>4 DEF Checked, XcpdRead
      <4>4. FromXcpd'
        BY <1>0, <3>1, <3>3, <4>1 DEF FromXcpd, AfterXcpd, BeforeXcpd, XcpdRead
      <4>5. FromLsi'
        BY <1>0, <3>1, <3>3, <4>1 DEF FromLsi
      <4>6. FromBoth'
        BY <1>0, <3>1, <3>3, <4>1 DEF FromBoth, XcpdRead
      <4>7. Bound'
        BY <1>0, <1>2, <1>6, <3>1, <3>2, <3>3, <3>4, <4>1 DEF Bound, BoundNow
      <4> QED
        BY <1>0, <3>1, <4>2, <4>3, <4>4, <4>5, <4>6, <4>7, StutterStep DEF CfgInv
    <3>5. CASE ~dry_run
      <4>0. cm' = [cm EXCEPT !.vports = Append(@, virtual_port(p))] /\ IsCm(cm)
        BY <1>0, <3>1, <3>5 DEF Types
      <4>1. /\ cm'.vports = Append(cm.vports, virtual_port(p)) /\ IsCm(cm')
            /\ cm'.switch_name = cm.switch_name /\ cm'.port_names = cm.port_names
            /\ cm'.switch_addr = cm.switch_addr /\ cm'.higher_addr = cm.higher_addr
            /\ cm'.switch_active = cm.switch_active /\ cm'.control_active = cm.control_active
            /\ cm'.dpid = cm.dpid /\ cm'.queue = cm.queue /\ cm'.port_stat = cm.port_stat
            /\ cm'.port_config = cm.port_config /\ cm'.hm = cm.hm
        BY <4>0 DEF IsCm
      <4>2. cm.port_names = L.ports /\ L.ports \in Seq(Names)
        BY <1>0, <1>4, <3>5 DEF Types, CmType
      <4>3. L.ports \in Seq(Names) /\ Contract!Attached(p.physical, L.ports)
        BY <2>3, <3>5, <4>2, PortNumber
      <4>4. /\ virtual_port(p) = [real_port |-> Contract!NumberOf(p.physical, L.ports) - 1,
                                 vlan |-> set(NoVlan, p.vlan), number |-> Len(cm.vports) + 1]
            /\ Contract!NumberOf(p.physical, L.ports) - 1 \in 0 .. Len(L.ports) - 1
        <5>1. get_port_no(p.physical) = Contract!NumberOf(p.physical, L.ports) - 1
              /\ get_port_no(p.physical) \in 0 .. Len(L.ports) - 1
          BY <1>4, <3>5, <4>3, PortNumber
        <5> HIDE DEF p
        <5> QED
          BY <5>1 DEF virtual_port
      <4> DEFINE v == virtual_port(p)
      <4>5. IsVport(v) /\ v.real_port \in 0 .. Len(cm.port_names) - 1 /\ v.number = Len(cm.vports) + 1
        BY <1>4, <3>5, <4>4 DEF IsVport, virtual_port
      <4>6. PICK V : cm.vports \in Seq(V)
        BY <1>0 DEF Types
      <4>7. /\ cm.vports \in Seq(V \cup {v}) /\ cm'.vports \in Seq(V \cup {v})
            /\ Len(cm.vports) = next_port - 1 /\ Len(cm'.vports) = next_port
            /\ \A i \in 1 .. Len(cm.vports) : cm'.vports[i] = cm.vports[i]
            /\ cm'.vports[next_port] = v
            /\ DOMAIN cm.vports = 1 .. Len(cm.vports) /\ DOMAIN cm'.vports = 1 .. next_port
        <5>1. Len(cm.vports) = next_port - 1
          BY <1>0, <3>5 DEF Bound, BoundNow
        <5>2. cm'.vports = Append(cm.vports, v) /\ v \in V \cup {v} /\ cm.vports \in Seq(V \cup {v})
          <6> HIDE DEF v
          <6>1. V \subseteq V \cup {v}
            OBVIOUS
          <6>2. cm.vports \in Seq(V \cup {v})
            BY <4>6, <6>1
          <6> QED
            BY <4>1, <6>2 DEF v
        <5> HIDE DEF v
        <5> DEFINE W == V \cup {v}
        <5> HIDE DEF W
        <5>3. cm.vports \in Seq(W) /\ v \in W
          BY <5>2 DEF W
        <5>4. Append(cm.vports, v) \in Seq(W)
          BY <5>3
        <5> QED
          BY <1>2, <5>1, <5>2, <5>3, <5>4 DEF W
      <4>8. Types'
        <5>1. \A i \in DOMAIN cm'.vports : cm'.vports[i].real_port \in 0 .. Len(cm'.port_names) - 1
                                         /\ cm'.vports[i].number = i
          <6> HIDE DEF v
          <6> QED
            BY <1>0, <1>2, <4>1, <4>5, <4>7 DEF Types, CmType
        <5>2. CmType'
          BY <1>0, <4>1, <5>1 DEF Types, CmType
        <5> QED
          BY <1>0, <3>1, <3>2, <3>5, <4>1, <4>7, <5>2 DEF Types, Hooks
      <4>9. Checked'
        BY <1>0, <1>1, <3>1, <3>5 DEF Checked, XcpdRead
      <4>10. FromXcpd'
        BY <1>0, <3>1, <3>3, <4>1 DEF FromXcpd, AfterXcpd, BeforeXcpd, XcpdRead
      <4>11. FromLsi'
        BY <1>0, <3>1, <3>3, <4>1 DEF FromLsi
      <4>12. FromBoth'
        BY <1>0, <3>1, <3>3, <4>1 DEF FromBoth, XcpdRead
      <4>13. Bound'
        <5>1. BoundNow' = next_port /\ next_port + 1 <= Len(P) + 1
          BY <1>2, <1>6, <3>1, <3>5 DEF BoundNow
        <5>2. X.vports # Absent => Len(file.xcpd.vports) = 1 /\ file.xcpd.vports[1].name = L.name
          BY <1>0, <3>5 DEF Bound
        <5>3. ASSUME NEW i \in 1 .. next_port
              PROVE  /\ P[i].physical # Absent /\ Contract!Attached(P[i].physical, L.ports)
                     /\ cm'.vports[i] = [real_port |-> Contract!NumberOf(P[i].physical, L.ports) - 1,
                                         vlan |-> set(NoVlan, P[i].vlan), number |-> i]
          <6>1. CASE i = next_port
            BY <2>1, <2>3, <4>3, <4>4, <4>7, <6>1
          <6>2. CASE i # next_port
            BY <1>0, <1>2, <4>7, <6>2 DEF Bound
          <6> QED
            BY <6>1, <6>2
        <5> QED
          BY <3>1, <3>3, <4>7, <5>1, <5>2, <5>3 DEF Bound, set
      <4> QED
        BY <1>0, <3>1, <4>8, <4>9, <4>10, <4>11, <4>12, <4>13, StutterStep DEF CfgInv
    <3> QED
      BY <3>4, <3>5
  <2> QED
    BY <2>2, <2>3
<1> QED
  BY <1>2, <1>5, <1>6

\* The hook after the parts of the group xcpd.
LEMMA XcpdEndStep == ASSUME CfgInv, xcpd_scope_post_validate PROVE CfgInv' /\ Step
<1> DEFINE x == file.xcpd
           bad == ~TcpPort(x.higher_port) \/ ~TcpPort(x.switch_port) \/ (dry_run /\ ~KnownWords(x))
<1>0. /\ hook = "xcpd-end" /\ hook \in Hooks
      /\ Types /\ Checked /\ FromXcpd /\ FromLsi /\ FromBoth /\ Bound
  BY DEF CfgInv, Hooks, xcpd_scope_post_validate
<1>1. /\ x # Absent /\ x.higher_ip # Absent /\ x.higher_port # Absent /\ X = x
      /\ x \in XcpdType /\ file \in Files
  BY <1>0, FileTypes DEF Checked, X, Contract!Xcpd, Types
<1>2. XcpdRead <=> ~dry_run
  BY <1>0 DEF XcpdRead
<1>3. KnownWords(x) <=> /\ x.queue \in Contract!Handlings \cup {Absent}
                        /\ x.port_stat \in Contract!Handlings \cup {Absent}
                        /\ x.port_config \in Contract!Handlings \cup {Absent}
                        /\ x.hm \in {"planet-gepon", Absent}
  BY DEF KnownWords, Contract!Handlings
<1>4. CASE bad
  <2>1. ~Contract!ProxyAcceptable(file)
    BY <1>1, <1>3, <1>4 DEF Contract!ProxyAcceptable, Contract!TcpPort, TcpPort
  <2>2. Refuse
    BY <1>4 DEF xcpd_scope_post_validate
  <2> QED
    BY <1>0, <2>1, <2>2, RefuseStep DEF Contract!Acceptable, Contract!AcceptableOn
<1>5. CASE ~bad
  <2> DEFINE up == mode(cm.control_active, x.upward_mode)
             sw == [ip |-> set(cm.switch_addr.ip, x.switch_ip), port |-> set(cm.switch_addr.port, x.switch_port)]
  <2>1. /\ hook' = "logical-switches" /\ UNCHANGED <<file, dry_run, next_port, proxy>>
        /\ hook' \in Hooks
    BY <1>5 DEF xcpd_scope_post_validate, Proceed, Hooks
  <2>2. X' = X /\ P' = P /\ L' = L
    BY <2>1 DEF X, P, L
  <2>3. IsCm(cm) /\ CmType /\ (cm.switch_active \in BOOLEAN) /\ (cm.control_active \in BOOLEAN)
    BY <1>0 DEF Types, CmType
  <2>4. /\ IsCm(cm') /\ cm'.control_active = up /\ cm'.switch_addr = sw
        /\ cm'.higher_addr = [ip |-> x.higher_ip, port |-> x.higher_port]
        /\ cm'.queue = IF dry_run THEN set(cm.queue, x.queue) ELSE cm.queue
        /\ cm'.port_stat = IF dry_run THEN set(cm.port_stat, x.port_stat) ELSE cm.port_stat
        /\ cm'.port_config = IF dry_run THEN set(cm.port_config, x.port_config) ELSE cm.port_config
        /\ cm'.hm = IF dry_run THEN set(cm.hm, x.hm) ELSE cm.hm
        /\ cm'.switch_name = cm.switch_name /\ cm'.port_names = cm.port_names
        /\ cm'.vports = cm.vports /\ cm'.switch_active = cm.switch_active /\ cm'.dpid = cm.dpid
    <3> HIDE DEF up, sw
    <3>1. cm' = LET addressed == [cm EXCEPT !.control_active = up,
                     !.higher_addr = [ip |-> x.higher_ip, port |-> x.higher_port], !.switch_addr = sw]
                IN IF ~dry_run THEN addressed
                   ELSE [addressed EXCEPT !.queue = set(@, x.queue),
                                          !.port_stat = set(@, x.port_stat),
                                          !.port_config = set(@, x.port_config),
                                          !.hm = set(@, x.hm)]
      BY <1>5 DEF xcpd_scope_post_validate, up, sw
    <3> HIDE DEF x
    <3> QED
      BY <2>3, <3>1 DEF IsCm
  <2>5. ~dry_run \/ KnownWords(x)
    BY <1>5
  <2>6. Contract!ProxyAcceptable(file)
    BY <1>0, <1>1, <1>2, <1>3, <1>5, <2>5 DEF Checked, Contract!ProxyAcceptable, Contract!TcpPort, TcpPort
  <2>7. up \in BOOLEAN /\ (up <=> x.upward_mode # "passive")
    <3>1. CASE dry_run
      BY <1>0, <1>2, <2>3, <3>1 DEF FromXcpd, BeforeXcpd, mode
    <3>2. CASE ~dry_run
      BY <1>0, <1>1, <1>2, <2>3, <3>2 DEF FromXcpd, AfterXcpd, mode
    <3> QED
      BY <3>1, <3>2
  <2>8. Types'
    <3>1. {cm'.queue, cm'.port_stat, cm'.port_config} \subseteq {"drop", "passthrough", "hardware-specific"}
      BY <2>3, <2>4, <2>5 DEF CmType, set, KnownWords
    <3>2. CmType'
      BY <2>3, <2>4, <2>7, <3>1 DEF CmType
    <3>3. IsAddress(cm'.switch_addr) /\ IsAddress(cm'.higher_addr)
      BY <2>4 DEF IsAddress
    <3> HIDE DEF up, sw, x
    <3> QED
      BY <1>0, <2>1, <2>4, <3>2, <3>3 DEF Types
  <2>9. Checked'
    BY <1>0, <1>1, <2>1, <2>6 DEF Checked, XcpdRead
  <2>10. AfterXcpd'
    <3>1. cm'.control_active <=> X.upward_mode # "passive"
      BY <1>1, <2>4, <2>7
    <3>2. cm'.higher_addr = [ip |-> Contract!OrElse(X.higher_ip, "127.0.0.1"),
                            port |-> Contract!OrElse(X.higher_port, 6633)]
      BY <1>1, <2>4 DEF Contract!OrElse
    <3>3. /\ cm'.queue = Contract!OrElse(X.queue, "passthrough")
          /\ cm'.port_stat = Contract!OrElse(X.port_stat, "passthrough")
          /\ cm'.port_config = Contract!OrElse(X.port_config, "passthrough")
          /\ cm'.hm = X.hm
      <4>1. CASE dry_run
        BY <1>0, <1>1, <1>2, <2>4, <4>1 DEF FromXcpd, BeforeXcpd, set, Contract!OrElse
      <4>2. CASE ~dry_run
        BY <1>0, <1>2, <2>4, <4>2 DEF FromXcpd, AfterXcpd
      <4> QED
        BY <4>1, <4>2
    <3> QED
      BY <2>2, <3>1, <3>2, <3>3 DEF AfterXcpd
  <2>11. FromXcpd'
    BY <2>1, <2>10 DEF FromXcpd, XcpdRead
  <2>12. FromLsi'
    BY <1>0, <2>1, <2>2, <2>4 DEF FromLsi
  <2>13. FromBoth'
    <3>1. CASE dry_run
      <4>1. cm.switch_addr = [ip |-> "127.0.0.1", port |-> 6631]
        BY <1>0, <1>2, <3>1 DEF FromBoth
      <4>2. cm'.switch_addr = [ip |-> Contract!OrElse(X.switch_ip, "127.0.0.1"),
                              port |-> Contract!OrElse(X.switch_port, 6631)]
        BY <1>1, <2>4, <4>1 DEF set, Contract!OrElse
      <4> QED
        BY <2>1, <2>2, <3>1, <4>2 DEF FromBoth, XcpdRead
    <3>2. CASE ~dry_run
      <4>1. cm.switch_addr = Contract!SwitchAddress(file)
        BY <1>0, <3>2 DEF FromBoth
      <4>2. cm'.switch_addr = [ip |-> Contract!OrElse(X.switch_ip, Contract!SwitchAddress(file).ip),
                              port |-> Contract!OrElse(X.switch_port, Contract!SwitchAddress(file).port)]
        BY <1>1, <2>4, <4>1 DEF set, Contract!OrElse
      <4> QED
        BY <2>1, <2>2, <3>2, <4>2 DEF FromBoth
    <3> QED
      BY <3>1, <3>2
  <2>14. Bound'
    BY <1>0, <2>1, <2>2, <2>4 DEF Bound, BoundNow
  <2> QED
    BY <1>0, <2>1, <2>8, <2>9, <2>11, <2>12, <2>13, <2>14, StutterStep DEF CfgInv
<1> QED
  BY <1>4, <1>5

\* The hook before the sections of the switches.
LEMMA LogicalSwitchesStep == ASSUME CfgInv, xcpd_of_lsis_scope_pre_validate PROVE CfgInv' /\ Step
<1>0. /\ hook = "logical-switches" /\ hook \in Hooks
      /\ Types /\ Checked /\ FromXcpd /\ FromLsi /\ FromBoth /\ Bound
  BY DEF CfgInv, Hooks, xcpd_of_lsis_scope_pre_validate
<1>1. CASE Len(file.lsis) # 1
  <2>1. ~Contract!Acceptable(file)
    BY <1>1 DEF Contract!Acceptable, Contract!AcceptableOn, Contract!SwitchAcceptable
  <2> QED
    BY <1>0, <1>1, <2>1, RefuseStep DEF xcpd_of_lsis_scope_pre_validate
<1>2. CASE Len(file.lsis) = 1
  <2>1. /\ hook' = "lsi" /\ hook' \in Hooks /\ UNCHANGED <<file, dry_run, next_port, proxy>>
        /\ cm' = IF dry_run THEN [cm EXCEPT !.switch_name = L.name] ELSE cm
    BY <1>2 DEF xcpd_of_lsis_scope_pre_validate, Proceed, Hooks, L
  <2>2. X' = X /\ P' = P /\ L' = L
    BY <2>1 DEF X, P, L
  <2>3. /\ IsCm(cm') /\ cm'.control_active = cm.control_active /\ cm'.switch_addr = cm.switch_addr
        /\ cm'.higher_addr = cm.higher_addr
        /\ cm'.queue = cm.queue /\ cm'.port_stat = cm.port_stat
        /\ cm'.port_config = cm.port_config /\ cm'.hm = cm.hm
        /\ cm'.switch_name = (IF dry_run THEN L.name ELSE cm.switch_name) /\ cm'.port_names = cm.port_names
        /\ cm'.vports = cm.vports /\ cm'.switch_active = cm.switch_active /\ cm'.dpid = cm.dpid
    BY <1>0, <2>1 DEF Types, IsCm
  <2>4. Types'
    <3>1. CmType'
      BY <1>0, <2>3 DEF Types, CmType
    <3> QED
      BY <1>0, <2>1, <2>3, <3>1 DEF Types
  <2>5. Checked'
    BY <1>0, <1>2, <2>1 DEF Checked, XcpdRead
  <2>6. FromXcpd'
    BY <1>0, <2>1, <2>2, <2>3 DEF FromXcpd, AfterXcpd, BeforeXcpd, XcpdRead
  <2>7. FromLsi'
    BY <1>0, <2>1, <2>2, <2>3 DEF FromLsi
  <2>8. FromBoth'
    BY <1>0, <2>1, <2>2, <2>3 DEF FromBoth, XcpdRead
  <2>9. Bound'
    BY <1>0, <2>1, <2>2, <2>3 DEF Bound, BoundNow
  <2> QED
    BY <1>0, <2>1, <2>4, <2>5, <2>6, <2>7, <2>8, <2>9, StutterStep DEF CfgInv
<1> QED
  BY <1>1, <1>2

\* The section of the switch, which ends a reading.
LEMMA LsiStep == ASSUME CfgInv, xcpd_lsi_scope PROVE CfgInv' /\ Step
<1> DEFINE bad == L.dpid = Absent \/ lsi_misplaced(L) \/ ~TcpPort(lsi_address(L).port) \/ L.ports = Absent
<1>0. /\ hook = "lsi" /\ hook \in Hooks
      /\ Types /\ Checked /\ FromXcpd /\ FromLsi /\ FromBoth /\ Bound
  BY DEF CfgInv, Hooks, xcpd_lsi_scope
<1>1. Len(file.lsis) = 1 /\ L \in LsiType /\ file \in Files /\ XcpdRead
  BY <1>0, FileTypes DEF Checked, Types, XcpdRead
<1>2. Contract!SwitchAcceptable(file) <=> ~bad
  BY <1>1 DEF Contract!SwitchAcceptable, Contract!SwitchListens, Contract!TcpPort, TcpPort,
              lsi_misplaced, lsi_address, L
<1>3. CASE bad
  <2>1. Refuse
    BY <1>3 DEF xcpd_lsi_scope, L
  <2> QED
    BY <1>0, <1>2, <1>3, <2>1, RefuseStep DEF Contract!Acceptable, Contract!AcceptableOn
<1>4. CASE ~bad
  <2>1. /\ hook' = (IF dry_run THEN "xcpd" ELSE "main") /\ dry_run' = FALSE
        /\ cm' = lsi_settings(L) /\ UNCHANGED <<file, next_port, proxy>> /\ hook' \in Hooks
    BY <1>4 DEF xcpd_lsi_scope, L, Hooks
  <2>2. X' = X /\ P' = P /\ L' = L
    BY <2>1 DEF X, P, L
  <2>3. IsCm(cm) /\ CmType /\ (cm.switch_active \in BOOLEAN) /\ cm.port_names \in Seq(Names)
    BY <1>0 DEF Types, CmType
  <2> DEFINE up == mode(cm.switch_active, L.mode)
             sw == [ip |-> set(cm.switch_addr.ip, lsi_address(L).ip),
                    port |-> set(cm.switch_addr.port, lsi_address(L).port)]
  <2>4. /\ IsCm(cm') /\ cm'.switch_active = up /\ cm'.switch_addr = sw
        /\ cm'.higher_addr = cm.higher_addr /\ cm'.control_active = cm.control_active
        /\ cm'.queue = cm.queue /\ cm'.port_stat = cm.port_stat
        /\ cm'.port_config = cm.port_config /\ cm'.hm = cm.hm /\ cm'.switch_name = cm.switch_name
        /\ cm'.vports = cm.vports
        /\ cm'.port_names = IF dry_run THEN cm.port_names \o L.ports ELSE cm.port_names
        /\ cm'.dpid = IF dry_run THEN cm.dpid ELSE L.dpid
    <3>1. cm' = [cm EXCEPT !.switch_active = up, !.switch_addr = sw,
                           !.dpid = IF dry_run THEN @ ELSE L.dpid,
                           !.port_names = IF dry_run THEN @ \o L.ports ELSE @]
      BY <2>1 DEF lsi_settings
    <3> HIDE DEF up, sw
    <3> QED
      BY <2>3, <3>1 DEF IsCm
  <2>5. up \in BOOLEAN /\ (up <=> L.mode # "passive")
    BY <1>0, <2>3 DEF FromLsi, mode
  <2>6. cm'.port_names = L.ports /\ L.ports \in Seq(Names)
    <3>1. L.ports \in Seq(Names) \cup {Absent}
      BY <1>1 DEF LsiType
    <3>2. L.ports \in Seq(Names)
      BY <1>4, <3>1
    <3> QED
      BY <1>0, <2>4, <3>2 DEF FromLsi
  <2>7. Types'
    <3>1. \A i \in DOMAIN cm'.vports :
            cm'.vports[i].real_port \in 0 .. Len(cm'.port_names) - 1 /\ cm'.vports[i].number = i
      <4>1. CASE dry_run
        <5>1. cm'.vports = <<>>
          BY <1>0, <2>4, <4>1 DEF Types
        <5> QED
          BY <5>1
      <4>2. CASE ~dry_run
        <5>1. cm'.vports = cm.vports /\ cm'.port_names = cm.port_names
          BY <2>4, <4>2
        <5> QED
          BY <2>3, <5>1 DEF CmType
      <4> QED
        BY <1>0, <4>1, <4>2 DEF Types
    <3>2. CmType'
      BY <2>3, <2>4, <2>5, <2>6, <3>1 DEF CmType
    <3>3. IsAddress(cm'.switch_addr)
      BY <2>4 DEF IsAddress
    <3> HIDE DEF up, sw
    <3> QED
      BY <1>0, <2>1, <2>4, <3>2, <3>3 DEF Types
  <2>8. Checked'
    BY <1>0, <1>1, <1>2, <1>4, <2>1 DEF Checked, XcpdRead
  <2>9. FromXcpd'
    BY <1>0, <1>1, <2>1, <2>2, <2>4 DEF FromXcpd, AfterXcpd, XcpdRead
  <2>10. FromLsi'
    BY <1>0, <2>1, <2>2, <2>4, <2>5, <2>6 DEF FromLsi
  <2>11. FromBoth'
    <3>1. Contract!SwitchAddress(file) =
            [ip |-> Contract!OrElse(lsi_address(L).ip, Contract!OrElse(X.switch_ip, "127.0.0.1")),
             port |-> Contract!OrElse(lsi_address(L).port, Contract!OrElse(X.switch_port, 6631))]
      BY DEF Contract!SwitchAddress, Contract!SwitchListens, lsi_address, L, X
    <3>2. CASE dry_run
      <4>1. cm.switch_addr = [ip |-> Contract!OrElse(X.switch_ip, "127.0.0.1"),
                              port |-> Contract!OrElse(X.switch_port, 6631)]
        BY <1>0, <1>1, <3>2 DEF FromBoth
      <4>2. sw = Contract!SwitchAddress(file)
        BY <3>1, <4>1 DEF set, Contract!OrElse
      <4> QED
        BY <2>1, <2>2, <2>4, <3>2, <4>2 DEF FromBoth
    <3>3. CASE ~dry_run
      <4>1. cm.switch_addr = [ip |-> Contract!OrElse(X.switch_ip, Contract!SwitchAddress(file).ip),
                              port |-> Contract!OrElse(X.switch_port, Contract!SwitchAddress(file).port)]
        BY <1>0, <3>3 DEF FromBoth
      <4>2. sw = Contract!SwitchAddress(file)
        BY <3>1, <4>1 DEF set, Contract!OrElse
      <4> QED
        BY <2>1, <2>2, <2>4, <3>3, <4>2 DEF FromBoth
    <3> QED
      BY <3>2, <3>3
  <2>12. Bound'
    BY <1>0, <2>1, <2>2, <2>4 DEF Bound, BoundNow
  <2> QED
    BY <1>0, <2>1, <2>7, <2>8, <2>9, <2>10, <2>11, <2>12, StutterStep DEF CfgInv
<1> QED
  BY <1>3, <1>4

\* What the proxy runs with, in Setup's words.
RunsWith ==
    [ports |-> proxy.mapper,
     dials_switch |-> proxy.indpt, switch |-> proxy.dptaddr,
     listens_controller |-> proxy.inctl, controller |-> proxy.ctladdr,
     dpid |-> cm.dpid, queue |-> cm.queue, port_stat |-> cm.port_stat,
     port_config |-> cm.port_config, hm |-> cm.hm]

\* What fits in 12 bits is the same in 16.
LEMMA SmallVlan == \A v \in Contract!ValidVlans : Contract!LowBits(v) \in Contract!ValidVlans
  BY DEF Contract!ValidVlans, Contract!LowBits

\* The end of main.
LEMMA MainStep == ASSUME CfgInv, main PROVE CfgInv' /\ Step
<1> DEFINE bad == \E i \in DOMAIN cm.vports : ~Representable(cm.vports[i].vlan)
<1>0. /\ hook = "main" /\ hook \in Hooks
      /\ Types /\ Checked /\ FromXcpd /\ FromLsi /\ FromBoth /\ Bound
  BY DEF CfgInv, Hooks, main
<1>1. ~dry_run /\ XcpdRead /\ file \in Files
  BY <1>0 DEF Checked, Types, XcpdRead
<1>2. Contract!SwitchAcceptable(file) /\ Contract!ProxyAcceptable(file)
  BY <1>0, <1>1 DEF Checked
<1>3. /\ X.vports # Absent => /\ Len(file.xcpd.vports) = 1 /\ file.xcpd.vports[1].name = L.name
      /\ Len(cm.vports) = Len(P)
      /\ cm.port_names = L.ports /\ L.ports \in Seq(Names)
  BY <1>0, <1>1 DEF Bound, BoundNow, FromLsi, Types, CmType
<1>4. P \in Seq(VportType)
  <2>1. CASE X.vports = Absent
    BY <2>1 DEF P, Contract!VirtualPorts, X
  <2>2. CASE X.vports # Absent
    <3>1. file.xcpd # Absent /\ X = file.xcpd
      BY <2>2 DEF X, Contract!Xcpd
    <3> QED
      BY <1>1, <1>3, <2>2, <3>1, VirtualPortTypes
  <2> QED
    BY <2>1, <2>2
<1>5. DOMAIN cm.vports = DOMAIN P
  <2>1. PICK V : cm.vports \in Seq(V)
    BY <1>0 DEF Types
  <2> QED
    BY <1>3, <1>4, <2>1
<1>6. \A i \in DOMAIN P :
        /\ P[i].physical # Absent /\ Contract!Attached(P[i].physical, L.ports)
        /\ cm.vports[i].real_port + 1 = Contract!NumberOf(P[i].physical, L.ports)
        /\ vlan_id(cm.vports[i].vlan) = Contract!Vlan(P[i])
        /\ Representable(cm.vports[i].vlan) <=> (P[i].vlan # Absent => Contract!LowBits(P[i].vlan) \in Contract!ValidVlans)
        /\ P[i].vlan \in Nat \cup {Absent}
  <2> SUFFICES ASSUME NEW i \in DOMAIN P
               PROVE  /\ P[i].physical # Absent /\ Contract!Attached(P[i].physical, L.ports)
                      /\ cm.vports[i].real_port + 1 = Contract!NumberOf(P[i].physical, L.ports)
                      /\ vlan_id(cm.vports[i].vlan) = Contract!Vlan(P[i])
                      /\ Representable(cm.vports[i].vlan) <=>
                           (P[i].vlan # Absent => Contract!LowBits(P[i].vlan) \in Contract!ValidVlans)
                      /\ P[i].vlan \in Nat \cup {Absent}
    OBVIOUS
  <2>1. /\ P[i].physical # Absent /\ Contract!Attached(P[i].physical, L.ports)
        /\ cm.vports[i] = [real_port |-> Contract!NumberOf(P[i].physical, L.ports) - 1,
                           vlan |-> set(NoVlan, P[i].vlan), number |-> i]
    BY <1>0, <1>3, <1>4 DEF Bound
  <2>2. Contract!NumberOf(P[i].physical, L.ports) \in Nat
    BY <1>3, <2>1, PortNumber
  <2>3. P[i].vlan \in Nat \cup {Absent}
    <3>1. P[i] \in VportType
      BY <1>4
    <3> QED
      BY <3>1 DEF VportType
  <2>4. vlan_id(cm.vports[i].vlan) = Contract!Vlan(P[i])
    BY <2>1, <2>3, FilesAssumption DEF vlan_id, set, Contract!Vlan, Contract!LowBits
  <2>5. Representable(cm.vports[i].vlan) <=> (P[i].vlan # Absent => Contract!LowBits(P[i].vlan) \in Contract!ValidVlans)
    <3>1. cm.vports[i].vlan = set(NoVlan, P[i].vlan)
      BY <2>1
    <3>2. CASE P[i].vlan = Absent
      BY <3>1, <3>2 DEF set, Representable
    <3>3. CASE P[i].vlan # Absent
      <4>1. cm.vports[i].vlan = P[i].vlan /\ P[i].vlan \in Nat /\ P[i].vlan # NoVlan
        BY <2>3, <3>1, <3>3, FilesAssumption DEF set
      <4>2. PICK v \in Nat : v = P[i].vlan
        BY <4>1
      <4>3. v % 65536 <= 4095 <=> Contract!LowBits(v) \in Contract!ValidVlans
        BY DEF Contract!LowBits, Contract!ValidVlans
      <4>4. Representable(v) <=> v % 65536 <= 4095
        <5>1. vlan_id(v) = v % 65536
          BY <4>1, <4>2 DEF vlan_id
        <5>2. Representable(v) <=> vlan_id(v) <= 4095
          BY <4>1, <4>2 DEF Representable
        <5> QED
          BY <5>1, <5>2
      <4> QED
        BY <3>3, <4>1, <4>2, <4>3, <4>4
    <3> QED
      BY <3>2, <3>3
  <2>6. cm.vports[i].real_port + 1 = Contract!NumberOf(P[i].physical, L.ports)
    BY <2>1, <2>2
  <2> HIDE DEF bad
  <2> QED
    BY <2>1, <2>3, <2>4, <2>5, <2>6
<1>7. CASE bad
  <2>1. PICK i \in DOMAIN P : P[i].vlan # Absent /\ Contract!LowBits(P[i].vlan) \notin Contract!ValidVlans /\ P[i].vlan \in Nat
    <3>1. PICK i \in DOMAIN cm.vports : ~Representable(cm.vports[i].vlan)
      BY <1>7
    <3> QED
      BY <1>5, <1>6, <3>1
  <2>2. P[i].vlan \notin Contract!ValidVlans
    BY <2>1, SmallVlan
  <2>4. ~Contract!PortsAcceptable(file, Contract!ValidVlans)
    <3> HIDE DEF bad
    <3>1. ASSUME Contract!PortsAcceptable(file, Contract!ValidVlans) PROVE P[i].vlan \in Contract!ValidVlans
      <4>1. \A k \in DOMAIN P : P[k].vlan # Absent => P[k].vlan \in Contract!ValidVlans
        BY <3>1 DEF Contract!PortsAcceptable, P
      <4> QED
        BY <2>1, <4>1
    <3> QED
      BY <2>2, <3>1, Zenon
  <2>3. Refuse
    BY <1>7 DEF main
  <2> QED
    BY <1>0, <2>3, <2>4, RefuseStep DEF Contract!Acceptable, Contract!AcceptableOn
<1>8. CASE ~bad
  <2> DEFINE mapper == [i \in DOMAIN cm.vports |->
                          [port |-> cm.vports[i].real_port + 1, vlan |-> vlan_id(cm.vports[i].vlan)]]
  <2>1. Construct(mapper)
    BY <1>8 DEF main
  <2>2. /\ hook' = "running" /\ cm' = cm /\ UNCHANGED <<file, dry_run, next_port>>
        /\ proxy' = [mapper |-> mapper, indpt |-> ~cm.switch_active, dptaddr |-> cm.switch_addr,
                     inctl |-> ~cm.control_active, ctladdr |-> cm.higher_addr]
    BY <2>1 DEF Construct
  <2> DEFINE vlans == {v \in Nat : Contract!LowBits(v) \in Contract!ValidVlans}
  <2>3. Contract!PortsAcceptable(file, vlans)
    <3>1. Contract!Xcpd(file).vports # Absent =>
            Len(file.xcpd.vports) = 1 /\ file.xcpd.vports[1].name = file.lsis[1].name
      BY <1>3 DEF X, L
    <3>2. \A i \in DOMAIN P : P[i].vlan # Absent => P[i].vlan \in vlans
      BY <1>5, <1>6, <1>8
    <3> QED
      BY <1>6, <3>1, <3>2 DEF Contract!PortsAcceptable, P, L
  <2>4. Contract!Acceptable(file) \/ Contract!Excused(file)
    BY <1>2, <2>3 DEF Contract!Excused, Contract!AcceptableOn
  <2>5. RunsWith' = Contract!Meaning(file)
    <3>1. mapper = [i \in DOMAIN P |-> [port |-> Contract!NumberOf(P[i].physical, L.ports),
                                      vlan |-> Contract!Vlan(P[i])]]
      BY <1>5, <1>6
    <3>2. (~cm.switch_active) = Contract!SwitchListens(file)
      BY <1>0, <1>1 DEF FromLsi, Contract!SwitchListens, L, Types, CmType
    <3>3. (~cm.control_active) = (X.upward_mode = "passive")
      BY <1>0, <1>1 DEF FromXcpd, AfterXcpd, Types, CmType
    <3>4. cm.switch_addr = Contract!SwitchAddress(file) /\ cm.dpid = L.dpid
      BY <1>0, <1>1 DEF FromBoth, FromLsi
    <3>5. AfterXcpd
      BY <1>0, <1>1 DEF FromXcpd
    <3>6. /\ proxy'.mapper = mapper /\ proxy'.indpt = Contract!SwitchListens(file)
          /\ proxy'.dptaddr = Contract!SwitchAddress(file)
          /\ proxy'.inctl = (X.upward_mode = "passive") /\ proxy'.ctladdr = cm.higher_addr
      <4> HIDE DEF mapper
      <4> QED
        BY <2>2, <3>2, <3>3, <3>4
    <3> DEFINE ports == [i \in DOMAIN P |-> [port |-> Contract!NumberOf(P[i].physical, L.ports),
                                             vlan |-> Contract!Vlan(P[i])]]
    <3>7. Contract!Meaning(file) =
            [ports |-> ports, dials_switch |-> Contract!SwitchListens(file),
             switch |-> Contract!SwitchAddress(file),
             listens_controller |-> (X.upward_mode = "passive"),
             controller |-> [ip |-> Contract!OrElse(X.higher_ip, "127.0.0.1"),
                             port |-> Contract!OrElse(X.higher_port, 6633)],
             dpid |-> L.dpid, queue |-> Contract!OrElse(X.queue, "passthrough"),
             port_stat |-> Contract!OrElse(X.port_stat, "passthrough"),
             port_config |-> Contract!OrElse(X.port_config, "passthrough"), hm |-> X.hm]
      BY Zenon DEF Contract!Meaning, P, L, X
    <3>8. RunsWith' =
            [ports |-> proxy'.mapper, dials_switch |-> proxy'.indpt, switch |-> proxy'.dptaddr,
             listens_controller |-> proxy'.inctl, controller |-> proxy'.ctladdr,
             dpid |-> cm.dpid, queue |-> cm.queue, port_stat |-> cm.port_stat,
             port_config |-> cm.port_config, hm |-> cm.hm]
      BY <2>2 DEF RunsWith
    <3> HIDE DEF mapper, ports
    <3>9. mapper = ports
      BY <3>1 DEF ports
    <3> QED
      BY <3>4, <3>5, <3>6, <3>7, <3>8, <3>9 DEF AfterXcpd
  <2>6. Contract!Decide
    BY <1>0, <2>2, <2>4, <2>5 DEF Contract!Decide, Contract!Run, Hooks, RunsWith
  <2>7. Types'
    BY <1>0, <2>2 DEF Types, CmType
  <2>8. X' = X /\ P' = P /\ L' = L
    BY <2>2 DEF X, P, L
  <2>9. Checked' /\ FromXcpd' /\ FromLsi' /\ FromBoth' /\ Bound'
    <3>1. Checked'
      BY <1>0, <1>1, <2>2 DEF Checked, XcpdRead
    <3>2. FromXcpd'
      BY <1>0, <1>1, <2>2, <2>8 DEF FromXcpd, AfterXcpd, XcpdRead
    <3>3. FromLsi'
      BY <1>0, <1>1, <2>2, <2>8 DEF FromLsi
    <3>4. FromBoth'
      BY <1>0, <1>1, <2>2, <2>8 DEF FromBoth
    <3>5. Bound'
      BY <1>0, <1>1, <2>2, <2>8 DEF Bound, BoundNow
    <3> QED
      BY <3>1, <3>2, <3>3, <3>4, <3>5
  <2> QED
    BY <2>6, <2>7, <2>9 DEF CfgInv, Step
<1> QED
  BY <1>7, <1>8

\* One action after the other.
LEMMA NextStep == CfgInv /\ [Next]_vars => CfgInv' /\ Step
<1> SUFFICES ASSUME CfgInv, [Next]_vars PROVE CfgInv' /\ Step
  OBVIOUS
<1>1. CASE Next
  BY <1>1, XcpdStep, VirtualPortsStep, OnePortStep, XcpdEndStep, LogicalSwitchesStep, LsiStep, MainStep
  DEF Next
<1>2. CASE UNCHANGED vars
  <2>1. CfgInv'
    BY <1>2 DEF vars, CfgInv, Types, CmType, Checked, XcpdRead, FromXcpd, AfterXcpd, BeforeXcpd,
                FromLsi, FromBoth, Bound, BoundNow, X, L, P
  <2>2. Step
    BY <1>2 DEF vars, Step, Contract!setupVars
  <2> QED
    BY <2>1, <2>2
<1> QED
  BY <1>1, <1>2

-----------------------------------------------------------------------------
(***************************************************************************)
(* Theorems                                                                *)
(***************************************************************************)

\* What every hook leaves behind is what the file has said so far.
LEMMA CfgInvariance == SafeSpec => []CfgInv
<1>1. Init => CfgInv
  BY InitInv
<1>2. CfgInv /\ [Next]_vars => CfgInv'
  BY NextStep
<1> QED
  BY <1>1, <1>2, PTL DEF SafeSpec

\* Every member has its type at every hook, in both readings (control_manager,
\* xcpd_config::init): a bound port is one of those the switch has.
THEOREM CfgTypes == SafeSpec => []CfgTypeOK
<1>1. CfgInv => CfgTypeOK
  BY DEF CfgInv, Types, CfgTypeOK
<1> QED
  BY <1>1, CfgInvariance, PTL

\* Reading in two passes implements Setup: every hook is a stutter or decides,
\* and the decision and the settings are the ones the file means.
THEOREM CfgReadsTheFile == SafeSpec => Contract!SetupSafe
<1>1. Init => Contract!SetupInit
  BY InitInv
<1>2. CfgInv /\ [Next]_vars => [Contract!Decide]_(Contract!setupVars)
  BY NextStep DEF Step
<1> QED
  BY <1>1, <1>2, CfgInvariance, PTL DEF SafeSpec, Contract!SetupSafe

\* The second reading changes nothing that the first has put in place: the
\* names and words it meets are those it met before.
THEOREM CfgSecondReading == SafeSpec => SecondReadingKeeps
<1> DEFINE kept == /\ cm'.switch_name = cm.switch_name /\ cm'.port_names = cm.port_names
                   /\ cm'.switch_active = cm.switch_active /\ cm'.hm = cm.hm
                   /\ cm'.control_active = cm.control_active
                   /\ cm'.port_config = cm.port_config
<1>1. ASSUME CfgInv, Next, ~dry_run PROVE kept
  <2>1. CASE UNCHANGED cm
    BY <2>1
  <2>2. CASE one_port_scope
    BY <1>1, <2>2 DEF one_port_scope, Refuse, CfgInv, Types, IsCm
  <2>3. CASE xcpd_scope_post_validate
    <3>1. CASE Refuse
      BY <3>1 DEF Refuse
    <3>2. CASE ~Refuse
      <4>1. XcpdRead' /\ XcpdRead /\ file' = file
        BY <1>1, <2>3, <3>2 DEF xcpd_scope_post_validate, XcpdRead, Proceed
      <4>2. /\ cm'.control_active = mode(cm.control_active, file.xcpd.upward_mode)
            /\ cm'.switch_name = cm.switch_name /\ cm'.port_names = cm.port_names
            /\ cm'.switch_active = cm.switch_active /\ cm'.hm = cm.hm
            /\ cm'.port_config = cm.port_config
        BY <1>1, <2>3, <3>2 DEF xcpd_scope_post_validate, CfgInv, Types, IsCm
      <4>3. CfgInv' /\ hook # "refused" /\ hook' # "refused"
        BY <1>1, <2>3, <3>2, XcpdEndStep DEF xcpd_scope_post_validate, Proceed
      <4>4. cm'.control_active \in BOOLEAN /\ cm.control_active \in BOOLEAN
        BY <1>1, <4>3 DEF CfgInv, Types, CmType
      <4>5. (cm'.control_active <=> X'.upward_mode # "passive") /\ (cm.control_active <=> X.upward_mode # "passive")
        BY <1>1, <4>1, <4>3 DEF CfgInv, FromXcpd, AfterXcpd
      <4>6. X' = X
        BY <4>1 DEF X
      <4> QED
        BY <4>2, <4>4, <4>5, <4>6
    <3> QED
      BY <3>1, <3>2
  <2>4. CASE xcpd_lsi_scope
    <3>1. CASE Refuse
      BY <3>1 DEF Refuse
    <3>2. CASE ~Refuse
      <4>1. cm' = lsi_settings(L) /\ hook = "lsi" /\ IsCm(cm) /\ FromLsi /\ cm.switch_active \in BOOLEAN
        BY <1>1, <2>4, <3>2 DEF xcpd_lsi_scope, CfgInv, Types, CmType, L
      <4>2. /\ cm'.switch_active = mode(cm.switch_active, L.mode)
            /\ cm'.switch_name = cm.switch_name /\ cm'.port_names = cm.port_names
            /\ cm'.control_active = cm.control_active /\ cm'.hm = cm.hm
            /\ cm'.port_config = cm.port_config
        BY <1>1, <4>1 DEF lsi_settings, IsCm
      <4>3. cm'.switch_active = cm.switch_active
        BY <1>1, <4>1, <4>2 DEF FromLsi, mode
      <4> QED
        BY <4>2, <4>3
    <3> QED
      BY <3>1, <3>2
  <2> QED
    BY <1>1, <2>1, <2>2, <2>3, <2>4
    DEF Next, xcpd_scope_execute, virtual_port_scope_pre_validate, xcpd_of_lsis_scope_pre_validate,
        main, Construct, Refuse
<1>2. CfgInv /\ [Next]_vars => [~dry_run => kept]_vars
  BY <1>1
<1> QED
  BY <1>2, CfgInvariance, PTL DEF SafeSpec, SecondReadingKeeps
=============================================================================
