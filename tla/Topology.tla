------------------------------ MODULE Topology ------------------------------
(***************************************************************************)
(* The topology a configuration's pre_start_config declares (config/util/ *)
(* topo.py, class VaranusTopo, with the RingBuilder of config/util/ring.py *)
(* and the add_* methods of varanuspy/runner.py, class MininetRunner).     *)
(* Nothing runs concurrently here: a configuration is a sequence of calls, *)
(* and any exception a call raises leaves pre_start_config and run().      *)
(*                                                                         *)
(* Python dicts are functions whose domain grows (:> and @@); a value that *)
(* may be None is a set of at most one element. A port is the pair        *)
(* <<node name, port number>>: NodeConfig.ports is keyed by the number.    *)
(* Local and remote nodes differ only in how Mininet later reaches them,   *)
(* so one operator stands for both; a Pica8 switch differs in its ports.   *)
(* VARANUS is enabled (varanus) unless run() was given --novaranus: the   *)
(* controller and the collectors are then null nodes (runner.py,          *)
(* add_null_controller and add_null_host), registered under the same      *)
(* checks but never added to the Mininet net.                              *)
(***************************************************************************)
EXTENDS Naturals, Sequences, FiniteSets, Functions, TLC

CONSTANTS
  SwitchNames,      \* names of the switches a configuration declares
  HostNames,        \* names of its hosts and collectors
  ControllerNames,  \* names of its controllers
  RingNums,         \* ring numbers it uses
  DpidBase,         \* RingUtils.build_dpid: 0x100000000
  AutoName          \* AutoName[r][n]: RingBuilder._next_node_name, 'r'+r+'n'+n

ASSUME SwitchNames \cap (HostNames \cup ControllerNames) = {}

VARIABLES
  controller,   \* VaranusTopo.controller, as a set of at most one name
  rings,        \* VaranusTopo.rings: ringnum -> the ring's switches, in order
  tswitches,    \* the keys of VaranusTopo.switches
  thosts,       \* the keys of VaranusTopo.hosts
  tcollectors,  \* the keys of VaranusTopo.collectors
  rswitches,    \* MininetRunner.switches: names in the order they were added
  rhosts,       \* the keys of MininetRunner.hosts (hosts and collectors)
  pica8,        \* the switches that are Pica8SwitchConfigs
  dpid,         \* dpid[s]: the dpid switch s was created with
  ports,        \* ports[p]: is_virtual of port p, for the ports created
  links,        \* MininetRunner.links, each as <<port1, port2>>
  rb,           \* the RingBuilder in use, as a set of at most one builder
  raised,       \* a configuration call has raised
  varanus       \* MininetRunner.enable_varanus

topoVars == <<controller, rings, tswitches, thosts, tcollectors, rswitches,
              rhosts, pica8, dpid, ports, links, rb, raised, varanus>>

Nodes == SwitchNames \cup HostNames \cup ControllerNames
Builders == [num : RingNums, nodes : Seq(SwitchNames)]

TopoTypeOK ==
  /\ controller \subseteq ControllerNames /\ Cardinality(controller) <= 1
  /\ DOMAIN rings \subseteq RingNums
  /\ \A r \in DOMAIN rings : rings[r] \in Seq(SwitchNames)
  /\ tswitches \subseteq Range(rswitches)
  /\ thosts \cup tcollectors \subseteq rhosts
  /\ rswitches \in Seq(SwitchNames)
  /\ rhosts \subseteq HostNames
  /\ pica8 \subseteq tswitches
  /\ DOMAIN dpid = Range(rswitches)
  /\ \A s \in DOMAIN dpid : dpid[s] \in Nat
  /\ DOMAIN ports \subseteq Nodes \X Nat
  /\ \A p \in DOMAIN ports : ports[p] \in BOOLEAN
  /\ links \subseteq (DOMAIN ports) \X (DOMAIN ports)
  /\ rb \subseteq Builders /\ Cardinality(rb) <= 1
  /\ raised \in BOOLEAN
  /\ varanus \in BOOLEAN

\* MininetRunner.__init__: no controllers, hosts, switches or links yet;
\* enable_varanus as run() passes it.
RunnerInit ==
  /\ varanus \in BOOLEAN
  /\ rswitches = << >>
  /\ rhosts = {}
  /\ links = {}

TopoInit ==
  /\ RunnerInit
  /\ controller = {}
  /\ rings = << >>
  /\ tswitches = {}
  /\ thosts = {}
  /\ tcollectors = {}
  /\ pica8 = {}
  /\ dpid = << >>
  /\ ports = << >>
  /\ rb = {}
  /\ raised = FALSE

\* The call raises: the exception leaves pre_start_config.
Raise ==
  /\ raised' = TRUE
  /\ UNCHANGED <<controller, rings, tswitches, thosts, tcollectors, rswitches,
                 rhosts, pica8, dpid, ports, links, rb, varanus>>

\* Pica8PortConfig._get_props: as_int(num, minim=1, maxim=52), the ge-1/1/
\* ports below 49 and the te-1/1/ ports from 49.
Pica8PortNums == 1 .. 52

\* Pica8SwitchConfig._new_port: "assert is_virtual != True", then a
\* Pica8PortConfig.
Pica8PortFails(n, v) == v \/ n \notin Pica8PortNums

\* Mutant of add_port: the duplicate check is dropped, and a second port of
\* the same number replaces the first in NodeConfig.ports.
AddPortNeverFails(p, v, taken) == p[1] \in pica8 /\ Pica8PortFails(p[2], v)

\* NodeConfig.add_port: check_duplicate on the node's port numbers (those it
\* has and those the same call created before), then the node's _new_port,
\* which only a Pica8 switch's refuses.
AddPortFails(p, v, taken) ==
  \/ p \in taken
  \/ p[1] \in pica8 /\ Pica8PortFails(p[2], v)

\* PortConfig.create_port on each node, then MininetRunner.add_link. Every
\* VaranusTopo method passes two virtual or two physical port configs, and a
\* Pica8 switch refuses virtual ones, so add_link's check on mixed ports
\* cannot fire; create_port returns new PortConfigs without a peer, so
\* LinkConfig's has_peer checks cannot fire either.
LinkFails(p1, p2, v) ==
  AddPortFails(p1, v, DOMAIN ports) \/ AddPortFails(p2, v, (DOMAIN ports) \cup {p1})

\* The nodes that are NullNodeConfigs or NullControllerConfigs: with VARANUS
\* disabled, the controller and every collector.
NullNodes == IF varanus THEN {} ELSE controller \cup tcollectors

\* NullNodeConfig._new_port: a NullPortConfig, whose is_virtual is False
\* whatever create_port asked for.
PortVirtual(p, v) == v /\ p[1] \notin NullNodes

\* add_link returns a NullLinkConfig, before appending anything to
\* MininetRunner.links, when either port is a NullPortConfig.
AddLink(p1, p2, v) ==
  /\ ports' = [p \in {p1, p2} |-> PortVirtual(p, v)] @@ ports
  /\ links' = IF {p1[1], p2[1]} \cap NullNodes = {} THEN links \cup {<<p1, p2>>}
                                                    ELSE links

\* RingPorts: the port numbers of ring switches.
RingPorts == [internal_vir_1 |-> 2, internal_vir_2 |-> 1, ring_to_ring_vir |-> 4,
              ring_to_collector_vir |-> 3, ring_to_host_vir |-> 5]

\* RingUtils.build_dpid, for a node number below DpidBase.
BuildDpid(ringnum, num) == ringnum * DpidBase + num

\* RingBuilder._next_node_num.
NextNodeNum(b) == Len(b.nodes) + 1

\* The check_duplicate of MininetRunner.add_local_ovs_switch,
\* add_remote_ovs_switch and add_pica8_switch on MininetRunner.switches.
SwitchNameTaken(s) == s \in Range(rswitches)

\* The check_duplicate of MininetRunner.add_local_host and add_remote_host
\* on MininetRunner.hosts.
HostNameTaken(h) == h \in rhosts

\* The check_duplicate of add_local_varanus_collector and
\* add_remote_varanus_collector: collectors go in MininetRunner.hosts too.
CollectorNameTaken(c) == c \in rhosts

\* The check_duplicate of add_local_varanus_sdncontroller and
\* add_remote_varanus_sdncontroller on MininetRunner.controllers, which
\* holds the one controller VaranusTopo allows.
ControllerNameTaken(n) == n \in controller

\* add_existing_ovs_switch_ring: the ring under its number (replacing any
\* ring of that number), its switches under their names.
StoreRing(num, nodes) ==
  /\ rings' = (num :> nodes) @@ rings
  /\ tswitches' = tswitches \cup Range(nodes)

-----------------------------------------------------------------------------
\* add_local_sdncontroller and add_remote_sdncontroller: "only one
\* controller is supported"; MininetRunner's add_local_varanus_sdncontroller
\* or add_remote_varanus_sdncontroller registers it, and their
\* check_duplicate cannot fire behind that check.
AddSdnController(n) ==
  IF controller # {} \/ ControllerNameTaken(n)
    THEN Raise
    ELSE /\ controller' = {n}
         /\ UNCHANGED <<rings, tswitches, thosts, tcollectors, rswitches, rhosts,
                        pica8, dpid, ports, links, rb, raised, varanus>>

\* add_local_ovs_switch, add_remote_ovs_switch and add_pica8_switch (NodeUtils
\* and MininetRunner's method of the same name): the switch is registered
\* with its dpid (ValueError on a name MininetRunner.switches has) and
\* stored in VaranusTopo.switches.
AddSwitch(s, d, isPica8) ==
  IF SwitchNameTaken(s)
    THEN Raise
    ELSE /\ rswitches' = Append(rswitches, s)
         /\ dpid' = (s :> d) @@ dpid
         /\ pica8' = IF isPica8 THEN pica8 \cup {s} ELSE pica8
         /\ tswitches' = tswitches \cup {s}
         /\ UNCHANGED <<controller, rings, thosts, tcollectors, rhosts, ports,
                        links, rb, raised, varanus>>

\* add_vir_switch_link and add_phy_switch_link: as_oneof on both names in
\* VaranusTopo.switches, then __add_switch_link on the given port numbers.
AddSwitchLink(s1, n1, s2, n2, v) ==
  IF s1 \notin tswitches \/ s2 \notin tswitches \/ LinkFails(<<s1, n1>>, <<s2, n2>>, v)
    THEN Raise
    ELSE /\ AddLink(<<s1, n1>>, <<s2, n2>>, v)
         /\ UNCHANGED <<controller, rings, tswitches, thosts, tcollectors,
                        rswitches, rhosts, pica8, dpid, rb, raised, varanus>>

\* add_local_vir_host, add_local_phy_host, add_remote_vir_host and
\* add_remote_phy_host: MininetRunner.add_local_host or add_remote_host
\* registers the host (ValueError on a name MininetRunner.hosts has), and
\* VaranusTopo.hosts stores it.
AddHost(h) ==
  IF HostNameTaken(h)
    THEN Raise
    ELSE /\ rhosts' = rhosts \cup {h}
         /\ thosts' = thosts \cup {h}
         /\ UNCHANGED <<controller, rings, tswitches, tcollectors, rswitches,
                        pica8, dpid, ports, links, rb, raised, varanus>>

\* add_vir_host_link and add_phy_host_link: as_oneof on the host in
\* VaranusTopo.hosts (collectors are not there) and on the switch, then
\* __add_host_link.
AddHostLink(h, hn, s, sn, v) ==
  IF h \notin thosts \/ s \notin tswitches \/ LinkFails(<<h, hn>>, <<s, sn>>, v)
    THEN Raise
    ELSE /\ AddLink(<<h, hn>>, <<s, sn>>, v)
         /\ UNCHANGED <<controller, rings, tswitches, thosts, tcollectors,
                        rswitches, rhosts, pica8, dpid, rb, raised, varanus>>

\* add_local_collector and add_remote_collector: MininetRunner's
\* add_local_varanus_collector or add_remote_varanus_collector registers it
\* in MininetRunner.hosts (ValueError on a duplicate name), and
\* VaranusTopo.collectors stores it.
AddCollector(c) ==
  IF CollectorNameTaken(c)
    THEN Raise
    ELSE /\ rhosts' = rhosts \cup {c}
         /\ tcollectors' = tcollectors \cup {c}
         /\ UNCHANGED <<controller, rings, tswitches, thosts, rswitches, pica8,
                        dpid, ports, links, rb, raised, varanus>>

\* add_vir_collector_link and add_phy_collector_link: as_oneof on the
\* collector in VaranusTopo.collectors and on the switch, then
\* __add_collector_link (the switch port carries the sampling ofport).
AddCollectorLink(c, cn, s, sn, v) ==
  IF c \notin tcollectors \/ s \notin tswitches \/ LinkFails(<<c, cn>>, <<s, sn>>, v)
    THEN Raise
    ELSE /\ AddLink(<<c, cn>>, <<s, sn>>, v)
         /\ UNCHANGED <<controller, rings, tswitches, thosts, tcollectors,
                        rswitches, rhosts, pica8, dpid, rb, raised, varanus>>

-----------------------------------------------------------------------------
\* get_ring_builder: a new RingBuilder whose links go from port 2
\* (internal_vir_1) of a node to port 1 (internal_vir_2) of the next.
GetRingBuilder(r) ==
  /\ rb' = {[num |-> r, nodes |-> << >>]}
  /\ UNCHANGED <<controller, rings, tswitches, thosts, tcollectors, rswitches,
                 rhosts, pica8, dpid, ports, links, raised, varanus>>

\* RingBuilder._new_link with the builder's defaults (no port configs given,
\* the link builder of get_ring_builder): PortConfig(2) on the first node,
\* PortConfig(1) on the second, both virtual.
RingLink(n1, n2) ==
  <<<<n1, RingPorts.internal_vir_1>>, <<n2, RingPorts.internal_vir_2>>>>

\* RingBuilder.add_node with the local or remote switch builder: _new_node
\* numbers the node len(nodes)+1, RingUtils.build_dpid makes its dpid
\* (ValueError past 2^32 nodes), MininetRunner registers it (ValueError on a
\* duplicate name); from the second node on, _new_link links port 2 of the
\* previous node to port 1 of the new one.
RingAddNode(s) ==
  \E b \in rb :
    LET num == NextNodeNum(b)
        l == RingLink(b.nodes[Len(b.nodes)], s)
        prev == l[1]
        new == l[2]
    IN IF \/ num >= DpidBase
          \/ SwitchNameTaken(s)
          \/ b.nodes # << >> /\ LinkFails(prev, new, TRUE)
         THEN Raise
         ELSE /\ rswitches' = Append(rswitches, s)
              /\ dpid' = (s :> BuildDpid(b.num, num)) @@ dpid
              /\ IF b.nodes = << >>
                   THEN UNCHANGED <<ports, links>>
                   ELSE AddLink(prev, new, TRUE)
              /\ rb' = {[b EXCEPT !.nodes = Append(@, s)]}
              /\ UNCHANGED <<controller, rings, tswitches, thosts, tcollectors,
                             rhosts, pica8, raised, varanus>>

\* The closing link RingBuilder.build adds to a ring of two or more nodes:
\* port 2 of the last to port 1 of the first.
ClosingLink(ns) == RingLink(ns[Len(ns)], ns[1])

\* Mutant of RingBuilder.build: a ring is closed only from three nodes on.
RingBuildGt2(b) ==
  LET k == Len(b.nodes)
      cl == ClosingLink(b.nodes)
  IN IF k > 2 /\ LinkFails(cl[1], cl[2], TRUE)
       THEN Raise
       ELSE /\ IF k > 2 THEN AddLink(cl[1], cl[2], TRUE)
                        ELSE UNCHANGED <<ports, links>>
            /\ StoreRing(b.num, b.nodes)
            /\ rb' = {[b EXCEPT !.nodes = << >>]}
            /\ UNCHANGED <<controller, thosts, tcollectors, rswitches, rhosts,
                           pica8, dpid, raised, varanus>>

\* RingBuilder.build, which closes a ring of two or more nodes and clears the
\* builder, then add_existing_ovs_switch_ring.
RingBuild(b) ==
  LET k == Len(b.nodes)
      cl == ClosingLink(b.nodes)
  IN IF k >= 2 /\ LinkFails(cl[1], cl[2], TRUE)
       THEN Raise
       ELSE /\ IF k >= 2 THEN AddLink(cl[1], cl[2], TRUE)
                         ELSE UNCHANGED <<ports, links>>
            /\ StoreRing(b.num, b.nodes)
            /\ rb' = {[b EXCEPT !.nodes = << >>]}
            /\ UNCHANGED <<controller, thosts, tcollectors, rswitches, rhosts,
                           pica8, dpid, raised, varanus>>

\* add_local_vir_ovs_switch_ring and add_remote_vir_ovs_switch_ring (ring
\* number and size at least 1): a builder of their own gets size nodes from
\* RingBuilder.add_nodes, which passes no name, so each is named by
\* _next_node_name; the ring is built and stored. The builder in use (rb)
\* is not touched.
AddVirSwitchRing(r, size) ==
  LET ns == [i \in 1 .. size |-> AutoName[r][i]]
      inner == {RingLink(ns[i], ns[i + 1]) : i \in 1 .. size - 1}
      new == inner \cup (IF size >= 2 THEN {ClosingLink(ns)} ELSE {})
  IN IF \/ r < 1 \/ size < 1 \/ size >= DpidBase
        \/ \E i \in 1 .. size : SwitchNameTaken(ns[i])
       THEN Raise
       ELSE /\ rswitches' = rswitches \o ns
            /\ dpid' = [x \in Range(ns) |-> BuildDpid(r, CHOOSE i \in 1 .. size : ns[i] = x)] @@ dpid
            /\ ports' = [p \in UNION {{l[1], l[2]} : l \in new} |-> TRUE] @@ ports
            /\ links' = links \cup new
            /\ StoreRing(r, ns)
            /\ UNCHANGED <<controller, thosts, tcollectors, rhosts, pica8, rb, raised, varanus>>

\* as_oneof on the ring number and the switch name, then the "no switch
\* named ... exists in ring" check.
InRing(r, s) == r \in DOMAIN rings /\ s \in tswitches /\ s \in Range(rings[r])

\* add_ring_vir_link: port 4 (ring_to_ring_vir) on both switches.
AddRingVirLink(r1, s1, r2, s2) ==
  IF ~InRing(r1, s1) \/ ~InRing(r2, s2)
    THEN Raise
    ELSE AddSwitchLink(s1, RingPorts.ring_to_ring_vir, s2, RingPorts.ring_to_ring_vir, TRUE)

\* add_ring_local_vir_host and add_ring_remote_vir_host: the host is
\* registered as by AddHost, then linked from its port h_portnum to port 5
\* (ring_to_host_vir) of the switch.
AddRingVirHost(h, hp, r, s) ==
  LET sp == <<s, RingPorts.ring_to_host_vir>> IN
  IF ~InRing(r, s) \/ HostNameTaken(h) \/ LinkFails(<<h, hp>>, sp, TRUE)
    THEN Raise
    ELSE /\ rhosts' = rhosts \cup {h}
         /\ thosts' = thosts \cup {h}
         /\ AddLink(<<h, hp>>, sp, TRUE)
         /\ UNCHANGED <<controller, rings, tswitches, tcollectors, rswitches,
                        pica8, dpid, rb, raised, varanus>>

\* The collector port add_ring_*_vir_collector links to the j-th switch of
\* the ring: c_port_num starts at 1 and grows by one per switch.
CollectorPort(c, j) == <<c, j>>

\* add_ring_local_vir_collector and add_ring_remote_vir_collector: the
\* collector is registered as by AddCollector, then its port j is linked to
\* port 3 (ring_to_collector_vir) of the ring's j-th switch. With VARANUS
\* disabled the collector is a null host: its ports are NullPortConfigs
\* and add_link keeps none of the links.
AddRingVirCollector(c, r) ==
  LET ns == rings[r]
      swport(j) == <<ns[j], RingPorts.ring_to_collector_vir>>
      taps == {<<CollectorPort(c, j), swport(j)>> : j \in DOMAIN ns}
  IN IF \/ r \notin DOMAIN rings
        \/ CollectorNameTaken(c)
        \/ \E j \in DOMAIN ns : \/ AddPortFails(swport(j), TRUE, DOMAIN ports)
                                \/ AddPortFails(CollectorPort(c, j), TRUE, DOMAIN ports)
       THEN Raise
       ELSE /\ rhosts' = rhosts \cup {c}
            /\ tcollectors' = tcollectors \cup {c}
            /\ ports' = [p \in UNION {{t[1], t[2]} : t \in taps} |-> varanus \/ p[1] # c] @@ ports
            /\ links' = IF varanus THEN links \cup taps ELSE links
            /\ UNCHANGED <<controller, rings, tswitches, thosts, rswitches, pica8,
                           dpid, rb, raised, varanus>>

\* One call of pre_start_config, given as a record.
TopoCall(c) ==
  CASE c.call = "controller"     -> AddSdnController(c.name)
    [] c.call = "switch"         -> AddSwitch(c.name, c.dpid, c.pica8)
    [] c.call = "switch_link"    -> AddSwitchLink(c.s1, c.n1, c.s2, c.n2, c.vir)
    [] c.call = "host"           -> AddHost(c.name)
    [] c.call = "host_link"      -> AddHostLink(c.name, c.n1, c.sw, c.n2, c.vir)
    [] c.call = "collector"      -> AddCollector(c.name)
    [] c.call = "collector_link" -> AddCollectorLink(c.name, c.n1, c.sw, c.n2, c.vir)
    [] c.call = "ring"           -> GetRingBuilder(c.num)
    [] c.call = "node"           -> RingAddNode(c.name)
    [] c.call = "build"          -> \E b \in rb : RingBuild(b)
    [] c.call = "vir_ring"       -> AddVirSwitchRing(c.num, c.size)
    [] c.call = "ring_link"      -> AddRingVirLink(c.r1, c.s1, c.r2, c.s2)
    [] c.call = "ring_host"      -> AddRingVirHost(c.name, c.port, c.ring, c.sw)
    [] c.call = "ring_collector" -> AddRingVirCollector(c.name, c.ring)

-----------------------------------------------------------------------------
\* The switches of every ring stored by add_existing_ovs_switch_ring form a
\* cycle: port 2 of each is linked to port 1 of the next, and of the last to
\* the first, whichever builder calls, chords and hosts came before.
RingClosed ==
  \A r \in DOMAIN rings :
    LET ns == rings[r]
        k == Len(ns)
    IN k >= 2 => \A i \in 1 .. k : <<<<ns[i], 2>>, <<ns[(i % k) + 1], 1>>>> \in links

\* Each port is wired once: no link joins a port to itself, and no port is
\* an end of two links, whatever sequence of ring, chord, host and collector
\* calls a configuration makes (create_port's duplicate check is what keeps
\* VaranusTopo from reusing a port number on a node).
PortsLinkedOnce ==
  /\ \A l \in links : l[1] # l[2]
  /\ \A l, m \in links : l # m => {l[1], l[2]} \cap {m[1], m[2]} = {}
====
