-------------------------- MODULE MCNetworkRuntime --------------------------
(***************************************************************************)
(* Model-checking instance of NetworkRuntime. pre_start_config is         *)
(* config/demo.py scaled down (the controller c0, a ring of three switches *)
(* sA, sB and sC, a host h1 on sA, the collector c1 on the ring), the same *)
(* with a chord between two neighbours of the ring, or one of the          *)
(* configurations below that raise in their last call after calls that    *)
(* succeed. The real demo's chords join switches that are not neighbours;  *)
(* three switches are the fewest for which every pair of ring neighbours   *)
(* has one link. One source interface is not available, as on an          *)
(* unmanaged node, and the port of the host h1 is no OVS port. The         *)
(* console names four linked pairs (one from h1) and one with no link.     *)
(* DpidBase stands for 2^32, scaled so that dpids stay small.              *)
(***************************************************************************)
EXTENDS NetworkRuntime, TLC

CONSTANTS sA, sB, sC, sD, r1n1, r1n2, h1, b1, b2, n1, c0, c1, nbad

\* The ring ports of the three ring switches, the chord ports of sA and
\* sB, and the port of the host h1, which is no OVS port.
MCOvsPorts == {<<s, n>> : s \in {sA, sB, sC}, n \in {1, 2}} \cup {<<sA, 4>>, <<sB, 4>>}
MCIntfs == MCOvsPorts \cup {<<h1, 1>>}
MCAvailable == MCIntfs \ {<<sB, 1>>}

\* _next_node_name of ring 1 (no configuration makes an automatic ring 0).
\* "control" node lists: a name not in the net, a plain host before a
\* custom node, each custom node alone, and both custom nodes in turn.
MCControlArgs == {<<r1n1>>, <<h1, c1>>, <<c0>>, <<c1>>, <<c0, c1>>}

MCConsolePairs == {<<sA, sB>>, <<sB, sA>>, <<sC, sA>>, <<sC, h1>>, <<h1, sA>>}

MCAutoName == [r \in {1} |-> <<r1n1, r1n2>>]

Ctl(n) == [call |-> "controller", name |-> n]
Switch(s, d, p) == [call |-> "switch", name |-> s, dpid |-> d, pica8 |-> p]
SwLink(s1, n1_, s2, n2, v) ==
  [call |-> "switch_link", s1 |-> s1, n1 |-> n1_, s2 |-> s2, n2 |-> n2, vir |-> v]
Host(h) == [call |-> "host", name |-> h]
HostLink(h, n1_, s, n2) ==
  [call |-> "host_link", name |-> h, n1 |-> n1_, sw |-> s, n2 |-> n2, vir |-> TRUE]
Coll(c) == [call |-> "collector", name |-> c]
CollLink(c, n1_, s, n2) ==
  [call |-> "collector_link", name |-> c, n1 |-> n1_, sw |-> s, n2 |-> n2, vir |-> TRUE]
Ring(r) == [call |-> "ring", num |-> r]
Node(s) == [call |-> "node", name |-> s]
BuildRing == [call |-> "build"]
VirRing(r, k) == [call |-> "vir_ring", num |-> r, size |-> k]
Chord(s1, s2) == [call |-> "ring_link", r1 |-> 1, s1 |-> s1, r2 |-> 1, s2 |-> s2]
RingHost(h, s) == [call |-> "ring_host", name |-> h, port |-> 1, ring |-> 1, sw |-> s]
RingColl(c) == [call |-> "ring_collector", name |-> c, ring |-> 1]

TwoRing == <<Ring(1), Node(sA), Node(sB), BuildRing>>
ThreeRing == <<Ring(1), Node(sA), Node(sB), Node(sC), BuildRing>>

DemoConfig == <<Ctl(c0)>> \o ThreeRing \o <<RingHost(h1, sA), RingColl(c1)>>

\* The demo with a chord between ring neighbours: sA and sB are then joined
\* by two links.
DemoAdjacentChord == <<Ctl(c0)>> \o ThreeRing \o <<Chord(sA, sB), RingColl(c1)>>

\* The same chord twice: port 4 of sA again.
ChordTwice == <<Ctl(c0)>> \o TwoRing \o <<Chord(sA, sB), Chord(sA, sB)>>

\* A chord from a switch to itself.
SelfChord == TwoRing \o <<Chord(sA, sA)>>

\* A second controller.
TwoControllers == <<Ctl(c0), Ctl(c0)>>

\* A second builder of ring 1 reusing a switch name.
SwitchNameReused == TwoRing \o <<Ring(1), Node(sA)>>

\* A collector named like a host.
CollectorNamedLikeHost == TwoRing \o <<RingHost(h1, sA), RingColl(h1)>>

\* Explicit switches (one Pica8), hosts, collectors and links, then a
\* virtual port asked of the Pica8 switch.
Pica8Virtual ==
  TwoRing \o <<Switch(sC, 2, TRUE), Switch(sD, 3, FALSE),
               SwLink(sC, 1, sD, 1, FALSE), Host(h1), HostLink(h1, 1, sD, 2),
               Coll(c1), CollLink(c1, 1, sD, 3), SwLink(sD, 4, sC, 2, TRUE)>>

\* A Pica8 port number past 52.
Pica8PortRange == <<Switch(sC, 2, TRUE), Switch(sD, 3, FALSE), SwLink(sC, 53, sD, 1, FALSE)>>

\* An automatic ring with a host and a collector, then a switch named like
\* one of its nodes.
AutoNameReused == <<VirRing(1, 2), RingHost(h1, r1n1), RingColl(c1), Switch(r1n1, 5, FALSE)>>

\* An automatic ring numbered 0.
AutoRingZero == <<VirRing(0, 2)>>

\* A host link from a collector, which VaranusTopo.hosts does not hold.
HostLinkFromCollector == <<Switch(sD, 3, FALSE), Coll(c1), HostLink(c1, 1, sD, 1)>>

\* The configurations run() is also given --novaranus for: the demo, and
\* the one with an explicit collector link.
MCNoVaranusScripts == {DemoConfig, Pica8Virtual}

MCConfigScripts ==
  {DemoConfig, DemoAdjacentChord, ChordTwice, SelfChord, TwoControllers, SwitchNameReused,
   CollectorNamedLikeHost, Pica8Virtual, Pica8PortRange, AutoNameReused,
   AutoRingZero, HostLinkFromCollector}
=============================================================================
